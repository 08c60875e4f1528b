------------------------- MODULE ChainPipelineProofs -------------------------
(***************************************************************************)
(* What ChainPipeline keeps for every set of missions, sessions, scopes    *)
(* and inputs of a run, and any number of faults and detours: its types,   *)
(* the one scope of a mission, the authorization behind every completed    *)
(* step, and the bound on lost receipts; with one session, that no effect  *)
(* comes without the ceremony and no wait ends unasked; and, as long as    *)
(* that session meets at most one fault, that snapshots stay sound and the *)
(* pipeline implements GovernedMission.                                    *)
(***************************************************************************)
EXTENDS ChainPipeline, MissionProtocolProofs, FiniteSetTheorems

(***************************************************************************)
(* Type correctness is not inductive alone: a session reads and writes the *)
(* mission it is at work on without asking whether it exists, and computes *)
(* keys and authorizations from the phase and the run it was given.        *)
(***************************************************************************)
Away == {"idle", "start"}

Placed(w, names) ==
  /\ w.pc \notin Away => w.mission \in names
  /\ w.op # "none" => w.run \in Runs
  /\ w.op \notin {"none", "start", "plan"} => w.phase \in Phases
  /\ w.pc \in {"authorize", "bound", "grant", "enter", "gates"}
       => w.op \in {"run", "resolve"}
  /\ w.pc = "compute" => w.op = "run"
  /\ w.pc = "refresh" => w.op \in {"plan", "skip", "run", "note", "approved"}
  /\ w.pc \in {"get", "load", "execute", "seal", "fail"} => w.op \in Commands

AllPlaced == \A s \in Sessions : Placed(sess[s], DOMAIN snapshots)

SessionsOK == sess \in [Sessions -> Session]

SnapshotsOK == Documents(snapshots, Missions, Snapshot)
KeysOK      == Documents(idempotency, Key, Record)
GrantsOK    == authorizations \in [Missions -> SUBSET Authorization]

OthersOK ==
  /\ torn \subseteq Missions /\ logged \subseteq Missions /\ spoilt \subseteq Missions
  /\ receipts \subseteq Nat /\ minted \in Nat
  /\ faults \in Nat /\ detours \in Nat

TypeInv == SnapshotsOK /\ KeysOK /\ GrantsOK /\ OthersOK /\ SessionsOK /\ AllPlaced

(***************************************************************************)
(* Lemmas on sessions.                                                     *)
(***************************************************************************)

(* A session at rest is a session. *)
LEMMA IdleOK == Idle \in Session /\ \A names : Placed(Idle, names)
<1>1. Blank \in Snapshot
  BY StartedType DEF Blank, EdaIntent, EDA_INTENTS
<1>2. Idle \in Session
  BY <1>1 DEF Session, Idle, PC, Op
<1>3. Idle.pc = "idle" /\ Idle.op = "none"
  BY DEF Idle
<1>4. QED
  BY <1>2, <1>3 DEF Placed, Away

(* A session that moves to another point of its run, or takes up another    *)
(* operation, is a session, and keeps all else.                            *)
LEMMA MoveType ==
  ASSUME NEW w \in Session, NEW pc \in PC, NEW op \in Op
  PROVE  /\ [w EXCEPT !.pc = pc] \in Session
         /\ [w EXCEPT !.pc = pc, !.op = op] \in Session
  BY DEF Session

LEMMA PointsAndOperations ==
  /\ {"refresh", "get", "authorize", "compute"} \subseteq PC
  /\ {"skip", "resume", "resolve", "run", "note", "approve", "approved", "apply",
      "ask", "gate", "wait"} \subseteq Op
  BY DEF PC, Op, Commands

(* A session that moves, while no mission disappears, leaves the others be. *)
LEMMA SessionMoves ==
  ASSUME TypeInv, NEW s \in Sessions, NEW w, Become(s, w),
         w \in Session, Placed(w, DOMAIN snapshots'),
         DOMAIN snapshots \subseteq DOMAIN snapshots'
  PROVE  SessionsOK' /\ AllPlaced'
<1>1. /\ sess' = [t \in Sessions |-> sess'[t]]
      /\ sess'[s] = w
      /\ \A t \in Sessions \ {s} : sess'[t] = sess[t]
  BY DEF TypeInv, SessionsOK, Become
<1>2. \A t \in Sessions : sess'[t] \in Session
  BY <1>1 DEF TypeInv, SessionsOK
<1>3. \A t \in Sessions : Placed(sess'[t], DOMAIN snapshots')
  BY <1>1 DEF TypeInv, AllPlaced, Placed
<1>4. QED
  BY <1>1, <1>2, <1>3 DEF SessionsOK, AllPlaced

(* Ending a run is such a move. *)
LEMMA FinishMoves ==
  ASSUME TypeInv, NEW s \in Sessions, Finish(s),
         DOMAIN snapshots \subseteq DOMAIN snapshots'
  PROVE  SessionsOK' /\ AllPlaced'
  BY IdleOK, SessionMoves DEF Finish

(* A move inside a run keeps mission, phase and run.                       *)
LEMMA WorkMoves ==
  ASSUME TypeInv, NEW s \in Sessions, NEW v, Become(s, v), v \in Session,
         DOMAIN snapshots \subseteq DOMAIN snapshots',
         sess[s].pc \notin Away,
         v.mission = sess[s].mission, v.phase = sess[s].phase,
         v.run = sess[s].run, sess[s].op # "none",
         v.op \in {"start", "plan"} \/ sess[s].op \notin {"start", "plan"},
         v.op # "none",
         v.pc \in {"authorize", "bound", "grant", "enter", "gates"}
           => v.op \in {"run", "resolve"},
         v.pc = "compute" => v.op = "run",
         v.pc = "refresh" => v.op \in {"plan", "skip", "run", "note", "approved"},
         v.pc \in {"get", "load", "execute", "seal", "fail"} => v.op \in Commands
  PROVE  SessionsOK' /\ AllPlaced'
<1>1. Placed(sess[s], DOMAIN snapshots)
  BY DEF TypeInv, AllPlaced
<1>2. Placed(v, DOMAIN snapshots')
  BY <1>1 DEF Placed
<1>3. QED
  BY <1>2, SessionMoves

(* One more document in a store, or one replaced. *)
LEMMA PutType ==
  ASSUME NEW f, NEW names, NEW docs, NEW n \in names, NEW d \in docs,
         Documents(f, names, docs)
  PROVE  /\ Documents(Put(f, n, d), names, docs)
         /\ DOMAIN f \subseteq DOMAIN Put(f, n, d)
         /\ n \in DOMAIN Put(f, n, d)
  BY DEF Put, Documents

(* Where a run stands once it knows its mission. *)
LEMMA PreparedOK ==
  ASSUME NEW run \in Runs, NEW m \in Missions, NEW names, m \in names,
         NEW snapshot \in Snapshot, NEW startedNow \in BOOLEAN
  PROVE  /\ Prepared(run, m, snapshot, startedNow) \in Session
         /\ Placed(Prepared(run, m, snapshot, startedNow), names)
<1> DEFINE prepared == derivePreparedStep(snapshot)
           at == [Idle EXCEPT !.mission = m, !.phase = prepared.phase,
                              !.run = run, !.base = snapshot]
           v  == Prepared(run, m, snapshot, startedNow)
<1>1. /\ prepared.phase \in Phases \cup {NoPhase}
      /\ prepared.disposition # "NONE" => prepared.phase \in Phases
      /\ prepared.disposition \in {"NONE", "WAIT", "SKIP", "RUN"}
  BY PreparedStep
<1>2. at \in Session
  BY <1>1, IdleOK DEF Session
<1>3. at.mission = m /\ at.phase = prepared.phase /\ at.run = run
  BY IdleOK DEF Session
<1>5. ASSUME NEW x \in Session, x.mission = m, x.run = run, x.phase \in Phases,
             \/ x.pc = "refresh" /\ x.op = "skip"
             \/ x.pc = "get" /\ x.op = "resume"
             \/ x.pc = "authorize" /\ x.op \in {"resolve", "run"}
      PROVE  Placed(x, names)
  BY <1>5 DEF Placed, Commands
<1>6. \/ v = Idle
      \/ /\ v = [at EXCEPT !.pc = "refresh", !.op = "skip"]
         /\ prepared.disposition = "SKIP"
      \/ /\ v = [at EXCEPT !.pc = "get", !.op = "resume"]
         /\ prepared.disposition = "WAIT"
      \/ /\ v = [at EXCEPT !.pc = "authorize", !.op = "resolve"]
         /\ prepared.disposition = "WAIT"
      \/ /\ v = [at EXCEPT !.pc = "authorize", !.op = "run",
                           !.startedNow = startedNow]
         /\ prepared.disposition = "RUN"
  BY DEF Prepared
<1> HIDE DEF v, at
<1>8. CASE v = Idle
  BY <1>8, IdleOK DEF v
<1>9. CASE prepared.disposition = "SKIP"
           /\ v = [at EXCEPT !.pc = "refresh", !.op = "skip"]
  <2>1. v \in Session
    BY <1>2, <1>9, MoveType, PointsAndOperations
  <2>2. v.mission = m /\ v.run = run /\ v.phase = prepared.phase
        /\ v.pc = "refresh" /\ v.op = "skip"
    BY <1>2, <1>3, <1>9 DEF Session
  <2>3. QED
    BY <1>1, <1>5, <1>9, <2>1, <2>2 DEF v
<1>10. CASE prepared.disposition = "WAIT"
            /\ v = [at EXCEPT !.pc = "get", !.op = "resume"]
  <2>1. v \in Session
    BY <1>2, <1>10, MoveType, PointsAndOperations
  <2>2. v.mission = m /\ v.run = run /\ v.phase = prepared.phase
        /\ v.pc = "get" /\ v.op = "resume"
    BY <1>2, <1>3, <1>10 DEF Session
  <2>3. QED
    BY <1>1, <1>5, <1>10, <2>1, <2>2 DEF v
<1>11. CASE prepared.disposition = "WAIT"
            /\ v = [at EXCEPT !.pc = "authorize", !.op = "resolve"]
  <2>1. v \in Session
    BY <1>2, <1>11, MoveType, PointsAndOperations
  <2>2. v.mission = m /\ v.run = run /\ v.phase = prepared.phase
        /\ v.pc = "authorize" /\ v.op = "resolve"
    BY <1>2, <1>3, <1>11 DEF Session
  <2>3. QED
    BY <1>1, <1>5, <1>11, <2>1, <2>2 DEF v
<1>12. CASE prepared.disposition = "RUN"
            /\ v = [at EXCEPT !.pc = "authorize", !.op = "run",
                              !.startedNow = startedNow]
  <2>1. v \in Session
    BY <1>2, <1>12, PointsAndOperations DEF Session
  <2>2. v.mission = m /\ v.run = run /\ v.phase = prepared.phase
        /\ v.pc = "authorize" /\ v.op = "run"
    BY <1>2, <1>3, <1>12 DEF Session
  <2>3. QED
    BY <1>1, <1>5, <1>12, <2>1, <2>2 DEF v
<1>13. QED
  BY <1>6, <1>8, <1>9, <1>10, <1>11, <1>12 DEF v

(* The stores stay as they are while sessions move. *)
LEMMA StoresStay ==
  ASSUME TypeInv, SessionsOK', AllPlaced',
         UNCHANGED <<missionStores, grants, receipts>>,
         minted' \in Nat, faults' \in Nat, detours' \in Nat
  PROVE  TypeInv'
  BY DEF TypeInv, SnapshotsOK, KeysOK, GrantsOK, OthersOK, missionStores, grants

LEMMA TypeInit == Init => TypeInv
<1> SUFFICES ASSUME Init PROVE TypeInv
  OBVIOUS
<1>1. SnapshotsOK /\ KeysOK /\ GrantsOK /\ OthersOK
  BY DEF Init, SnapshotsOK, KeysOK, GrantsOK, OthersOK, Documents
<1>2. SessionsOK /\ AllPlaced
  BY IdleOK DEF Init, SessionsOK, AllPlaced
<1>3. QED
  BY <1>1, <1>2 DEF TypeInv

(***************************************************************************)
(* Beginning a run, and starting its mission.                              *)
(***************************************************************************)
LEMMA TypeBegin ==
  ASSUME TypeInv, NEW s \in Sessions, NEW i \in Intents, NEW run \in Runs,
         Begin(s, i, run)
  PROVE  TypeInv'
<1>0. /\ UNCHANGED <<missionStores, grants, receipts, minted, bounds>>
      /\ minted' \in Nat /\ faults' \in Nat /\ detours' \in Nat
      /\ DOMAIN snapshots \subseteq DOMAIN snapshots'
  BY DEF Begin, FindMission, FindNone, TypeInv, OthersOK, missionStores, bounds
<1>1. CASE FindMission(s, i, run)
  <2>1. PICK m \in Active(i) : Become(s, Prepared(run, m, snapshots[m], FALSE))
    BY <1>1 DEF FindMission
  <2>2. m \in DOMAIN snapshots /\ m \in Missions /\ snapshots[m] \in Snapshot
    BY DEF Active, TypeInv, SnapshotsOK, Documents
  <2>3. m \in DOMAIN snapshots'
    BY <1>0, <2>2
  <2>4. SessionsOK' /\ AllPlaced'
    BY <1>0, <2>1, <2>2, <2>3, PreparedOK, SessionMoves
  <2>5. QED
    BY <1>0, <2>4, StoresStay
<1>2. CASE FindNone(s, i, run)
  <2> DEFINE w == [Idle EXCEPT !.pc = "start", !.op = "start", !.run = run,
                               !.next = Started(i)]
  <2>1. Started(i) \in Snapshot
    BY StartedType, ChainIntentsAssumption
       DEF CHAIN_INTENTS, EdaIntent, EDA_INTENTS, HARNESS_INTENTS
  <2>2. w \in Session
    BY <2>1, IdleOK DEF Session, PC, Op
  <2>3. w.pc = "start" /\ w.op = "start" /\ w.run = run
    BY IdleOK DEF Session
  <2>4. Placed(w, DOMAIN snapshots')
    BY <2>3 DEF Placed, Away
  <2>5. SessionsOK' /\ AllPlaced'
    BY <1>0, <1>2, <2>2, <2>4, SessionMoves DEF FindNone
  <2>6. QED
    BY <1>0, <2>5, StoresStay
<1>3. QED
  BY <1>1, <1>2 DEF Begin

LEMMA TypeStart ==
  ASSUME TypeInv, NEW s \in Sessions, NEW m \in Missions, StartMission(s, m)
  PROVE  TypeInv'
<1> DEFINE w == sess[s]
           v == [w EXCEPT !.pc = "append", !.mission = m]
<1>0. w \in Session /\ Placed(w, DOMAIN snapshots)
  BY DEF TypeInv, SessionsOK, AllPlaced
<1>1. w.pc = "start" /\ snapshots' = Put(snapshots, m, w.next) /\ Become(s, v)
  BY DEF StartMission
<1>2. w.next \in Snapshot
  BY <1>0 DEF Session
<1>3. SnapshotsOK' /\ DOMAIN snapshots \subseteq DOMAIN snapshots'
      /\ m \in DOMAIN snapshots'
  BY <1>1, <1>2, PutType DEF TypeInv, SnapshotsOK
<1>4. v \in Session
  BY <1>0 DEF Session, PC
<1>5. v.pc = "append" /\ v.mission = m /\ v.op = w.op /\ v.run = w.run
      /\ v.phase = w.phase
  BY <1>0 DEF Session
<1>6. Placed(v, DOMAIN snapshots')
  BY <1>0, <1>3, <1>5 DEF Placed
<1>7. SessionsOK' /\ AllPlaced'
  BY <1>1, <1>3, <1>4, <1>6, SessionMoves
<1>8. KeysOK' /\ GrantsOK' /\ OthersOK'
  BY DEF StartMission, TypeInv, KeysOK, GrantsOK, OthersOK, grants, bounds
<1>9. QED
  BY <1>3, <1>7, <1>8 DEF TypeInv

(* Moving the program counter only is a move inside the run. *)
LEMMA GotoMoves ==
  ASSUME TypeInv, NEW s \in Sessions, NEW pc \in PC \ {"refresh", "compute"}, Goto(s, pc),
         DOMAIN snapshots \subseteq DOMAIN snapshots',
         sess[s].pc \notin Away, sess[s].op # "none",
         pc \in {"authorize", "bound", "grant", "enter", "gates"}
           => sess[s].op \in {"run", "resolve"},
         pc \in {"get", "load", "execute", "seal", "fail"} => sess[s].op \in Commands
  PROVE  SessionsOK' /\ AllPlaced'
<1> DEFINE v == [sess[s] EXCEPT !.pc = pc]
<1>0. sess[s] \in Session
  BY DEF TypeInv, SessionsOK
<1>1. v \in Session
  BY <1>0 DEF Session
<1>2. v.pc = pc /\ v.op = sess[s].op /\ v.mission = sess[s].mission
      /\ v.phase = sess[s].phase /\ v.run = sess[s].run
  BY <1>0 DEF Session
<1>3. Become(s, v)
  BY DEF Goto
<1>4. QED
  BY <1>1, <1>2, <1>3, WorkMoves

(***************************************************************************)
(* Authorization and gates.                                                *)
(***************************************************************************)
LEMMA FamilyType ==
  ASSUME NEW phase \in Phases
  PROVE  familyForPhase(phase) \in ACTION_FAMILY
  BY DEF familyForPhase, ACTION_FAMILY, Phases, INTAKE, BIND_SCOPE, INGEST,
         INVESTIGATE, PROPOSE, VERIFY, APPROVE, EXECUTE, ARCHIVE

LEMMA TypeGrant ==
  ASSUME TypeInv, NEW s \in Sessions,
         \/ FindAuthorization(s) \/ ScopeBound(s)
         \/ CheckConflict(s) \/ AppendAuthorization(s)
  PROVE  TypeInv'
<1> DEFINE w == sess[s]
<1>0. w \in Session /\ Placed(w, DOMAIN snapshots)
  BY DEF TypeInv, SessionsOK, AllPlaced
<1>1. w.pc \in {"authorize", "bound", "grant", "enter"}
  BY DEF FindAuthorization, ScopeBound, CheckConflict, AppendAuthorization
<1>2. w.op \in {"run", "resolve"} /\ w.pc \notin Away
  BY <1>0, <1>1 DEF Placed, Away
<1>3. /\ UNCHANGED <<missionStores, spoilt, receipts, minted, bounds>>
      /\ DOMAIN snapshots \subseteq DOMAIN snapshots'
  BY DEF FindAuthorization, ScopeBound, CheckConflict, AppendAuthorization,
         missionStores, grants
<1>4. minted' \in Nat /\ faults' \in Nat /\ detours' \in Nat
  BY <1>3 DEF TypeInv, OthersOK, bounds
<1>5. Finish(s) \/ \E pc \in {"bound", "grant", "enter", "gates"} : Goto(s, pc)
  BY DEF FindAuthorization, ScopeBound, CheckConflict, AppendAuthorization,
         CannotRead
<1>6. SessionsOK' /\ AllPlaced'
  <2>1. ASSUME NEW pc \in {"bound", "grant", "enter", "gates"}, Goto(s, pc)
        PROVE  SessionsOK' /\ AllPlaced'
    BY <1>2, <1>3, <2>1, GotoMoves DEF PC
  <2>2. QED
    BY <1>3, <1>5, <2>1, FinishMoves
<1>7. CASE UNCHANGED authorizations
  BY <1>3, <1>4, <1>6, <1>7, StoresStay DEF grants
<1>8. CASE AppendAuthorization(s)
  <2>1. w.mission \in Missions
    BY <1>0, <1>2 DEF Placed, TypeInv, SnapshotsOK, Documents
  <2>2. w.run.scope \in Scopes /\ w.phase \in Phases
    BY <1>0, <1>2, RunsAssumption DEF Placed, Run
  <2>3. Bound(w) \in Authorization
    BY <2>2, FamilyType DEF Bound, Family, Authorization
  <2>4. GrantsOK'
    BY <1>8, <2>1, <2>3 DEF AppendAuthorization, TypeInv, GrantsOK
  <2>5. SnapshotsOK' /\ KeysOK' /\ OthersOK'
    BY <1>3, <1>4 DEF TypeInv, SnapshotsOK, KeysOK, OthersOK, missionStores
  <2>6. QED
    BY <1>6, <2>4, <2>5 DEF TypeInv
<1>9. QED
  BY <1>7, <1>8 DEF FindAuthorization, ScopeBound, CheckConflict, grants

LEMMA TypeGates ==
  ASSUME TypeInv, NEW s \in Sessions, Allowed(s) \/ GateBlock(s) \/ Blocked(s)
  PROVE  TypeInv'
<1> DEFINE w == sess[s]
<1>0. w \in Session /\ Placed(w, DOMAIN snapshots)
  BY DEF TypeInv, SessionsOK, AllPlaced
<1>1. w.pc = "gates"
  BY DEF Allowed, GateBlock, Blocked
<1>2. w.op \in {"run", "resolve"} /\ w.pc \notin Away
  BY <1>0, <1>1 DEF Placed, Away
<1>3. /\ UNCHANGED <<missionStores, grants, receipts, minted, faults>>
      /\ DOMAIN snapshots \subseteq DOMAIN snapshots'
  BY DEF Allowed, GateBlock, Blocked, missionStores, bounds
<1>4. minted' \in Nat /\ faults' \in Nat /\ detours' \in Nat
  BY <1>3 DEF Allowed, GateBlock, Blocked, TypeInv, OthersOK, bounds
<1>5. ASSUME NEW v \in Session, Become(s, v), v.mission = w.mission,
             v.phase = w.phase, v.run = w.run,
             \/ v.pc = "compute" /\ v.op = "run"
             \/ v.pc = "get" /\ v.op \in Commands
      PROVE  SessionsOK' /\ AllPlaced'
  BY <1>2, <1>3, <1>5, WorkMoves DEF Commands
<1>6. CASE Blocked(s)
  BY <1>3, <1>4, <1>6, FinishMoves, StoresStay DEF Blocked
<1>7. CASE GateBlock(s)
  <2> DEFINE v == [w EXCEPT !.pc = "get", !.op = "gate"]
  <2>1. v \in Session
    BY <1>0, MoveType, PointsAndOperations
  <2>2. v.pc = "get" /\ v.op = "gate" /\ v.mission = w.mission
        /\ v.phase = w.phase /\ v.run = w.run
    BY <1>0 DEF Session
  <2>3. Become(s, v)
    BY <1>7 DEF GateBlock
  <2>4. QED
    BY <1>3, <1>4, <1>5, <2>1, <2>2, <2>3, StoresStay DEF Commands
<1>8. CASE Allowed(s)
  <2> DEFINE run == [w EXCEPT !.pc = "compute"]
             approve == [w EXCEPT !.pc = "get", !.op = "approve"]
             resolve == [w EXCEPT !.pc = "get"]
  <2>1. run \in Session /\ approve \in Session /\ resolve \in Session
    BY <1>0, MoveType, PointsAndOperations
  <2>2. \A v \in {run, approve, resolve} :
          v.mission = w.mission /\ v.phase = w.phase /\ v.run = w.run
    BY <1>0 DEF Session
  <2>3. /\ run.pc = "compute" /\ run.op = w.op
        /\ approve.pc = "get" /\ approve.op = "approve"
        /\ resolve.pc = "get" /\ resolve.op = w.op
    BY <1>0 DEF Session
  <2>4. \/ w.op = "run" /\ Become(s, run)
        \/ Become(s, approve)
        \/ w.op # "run" /\ Become(s, resolve)
    BY <1>8 DEF Allowed
  <2>5. SessionsOK' /\ AllPlaced'
    <3>1. CASE w.op = "run" /\ Become(s, run)
      BY <1>5, <2>1, <2>2, <2>3, <3>1
    <3>2. CASE Become(s, approve)
      BY <1>5, <2>1, <2>2, <2>3, <3>2 DEF Commands
    <3>3. CASE w.op # "run" /\ Become(s, resolve)
      BY <1>2, <1>5, <2>1, <2>2, <2>3, <3>3 DEF Commands
    <3>4. QED
      BY <2>4, <3>1, <3>2, <3>3
  <2>6. QED
    BY <1>3, <1>4, <2>5, StoresStay
<1>9. QED
  BY <1>6, <1>7, <1>8

(***************************************************************************)
(* The chain's computation.                                                *)
(***************************************************************************)
LEMMA TypeCompute ==
  ASSUME TypeInv, NEW s \in Sessions,
         ComputeThrows(s) \/ ComputeWaits(s) \/ ComputeDone(s)
  PROVE  TypeInv'
<1> DEFINE w == sess[s]
<1>0. w \in Session /\ Placed(w, DOMAIN snapshots)
  BY DEF TypeInv, SessionsOK, AllPlaced
<1>1. w.pc = "compute" /\ w.op = "run" /\ w.pc \notin Away
  BY <1>0 DEF ComputeThrows, ComputeWaits, ComputeDone, Placed, Away
<1>2. /\ UNCHANGED <<missionStores, grants, receipts, faults>>
      /\ DOMAIN snapshots \subseteq DOMAIN snapshots'
  BY DEF ComputeThrows, ComputeWaits, ComputeDone, missionStores, bounds
<1>3. minted' \in Nat /\ faults' \in Nat /\ detours' \in Nat
  <2>1. minted \in Nat /\ faults \in Nat /\ detours \in Nat
    BY DEF TypeInv, OthersOK
  <2>2. minted' \in {minted, minted + 1}
    BY DEF ComputeThrows, ComputeWaits, ComputeDone
  <2>3. detours' \in {detours, detours + 1}
    BY DEF ComputeThrows, ComputeWaits, ComputeDone, bounds
  <2>4. QED
    BY <1>2, <2>1, <2>2, <2>3
<1>4. ASSUME NEW v \in Session, Become(s, v), v.mission = w.mission,
             v.phase = w.phase, v.run = w.run,
             \/ v.pc = "refresh" /\ v.op = "run"
             \/ v.pc = "get" /\ v.op \in Commands
      PROVE  SessionsOK' /\ AllPlaced'
  BY <1>1, <1>2, <1>4, WorkMoves DEF Commands
<1>5. CASE ComputeThrows(s)
  BY <1>2, <1>3, <1>5, FinishMoves, StoresStay DEF ComputeThrows
<1>6. CASE ComputeWaits(s)
  <2>1. PICK o \in Outputs :
          Become(s, [w EXCEPT !.pc = "get", !.op = "wait", !.output = o])
    BY <1>6 DEF ComputeWaits
  <2> DEFINE v == [w EXCEPT !.pc = "get", !.op = "wait", !.output = o]
  <2>2. v \in Session
    BY <1>0, PointsAndOperations DEF Session
  <2>3. v.pc = "get" /\ v.op = "wait" /\ v.mission = w.mission
        /\ v.phase = w.phase /\ v.run = w.run
    BY <1>0 DEF Session
  <2>4. QED
    BY <1>2, <1>3, <1>4, <2>1, <2>2, <2>3, StoresStay DEF Commands
<1>7. CASE ComputeDone(s)
  <2> DEFINE receipt == IF Warrants(w.base.intent, w.phase) THEN minted' ELSE 0
             done(o, alarm) == [w EXCEPT !.output = o, !.alarm = alarm,
                                         !.receipt = receipt]
  <2>1. PICK o \in Outputs, alarm \in BOOLEAN :
          \/ Become(s, [done(o, alarm) EXCEPT !.pc = "get", !.op = "apply"])
          \/ Become(s, [done(o, alarm) EXCEPT !.pc = "get", !.op = "ask"])
          \/ Become(s, [done(o, alarm) EXCEPT !.pc = "refresh"])
    <3>1. PICK o \in Outputs, alarm \in {FALSE, MayAlarm(w.base.intent, w.phase)} :
            Become(s, CASE w.phase \in {INTAKE, BIND_SCOPE, ARCHIVE} ->
                             [done(o, alarm) EXCEPT !.pc = "get", !.op = "apply"]
                        [] w.phase = APPROVE ->
                             [done(o, alarm) EXCEPT !.pc = "get", !.op = "ask"]
                        [] OTHER -> [done(o, alarm) EXCEPT !.pc = "refresh"])
      BY <1>7 DEF ComputeDone
    <3>2. alarm \in BOOLEAN
      BY DEF MayAlarm
    <3>3. QED
      BY <3>1, <3>2
  <2> DEFINE d == done(o, alarm)
  <2>2. receipt \in Nat
    BY <1>3
  <2>3. d \in Session /\ d.mission = w.mission /\ d.phase = w.phase
        /\ d.run = w.run /\ d.op = w.op
    BY <1>0, <2>2 DEF Session
  <2> DEFINE applies == [d EXCEPT !.pc = "get", !.op = "apply"]
             asks    == [d EXCEPT !.pc = "get", !.op = "ask"]
             works   == [d EXCEPT !.pc = "refresh"]
  <2> HIDE DEF d
  <2>4. applies \in Session /\ asks \in Session /\ works \in Session
    BY <2>3, MoveType, PointsAndOperations
  <2>5. /\ \A v \in {applies, asks, works} :
             v.mission = w.mission /\ v.phase = w.phase /\ v.run = w.run
        /\ applies.pc = "get" /\ applies.op = "apply"
        /\ asks.pc = "get" /\ asks.op = "ask"
        /\ works.pc = "refresh" /\ works.op = "run"
    BY <1>1, <2>3 DEF Session
  <2>6. Become(s, applies) \/ Become(s, asks) \/ Become(s, works)
    BY <2>1 DEF d
  <2>7. SessionsOK' /\ AllPlaced'
    <3>1. CASE Become(s, applies)
      BY <1>4, <2>4, <2>5, <3>1 DEF Commands
    <3>2. CASE Become(s, asks)
      BY <1>4, <2>4, <2>5, <3>2 DEF Commands
    <3>3. CASE Become(s, works)
      BY <1>4, <2>4, <2>5, <3>3
    <3>4. QED
      BY <2>6, <3>1, <3>2, <3>3
  <2>8. QED
    BY <1>2, <1>3, <2>7, StoresStay
<1>8. QED
  BY <1>5, <1>6, <1>7

(***************************************************************************)
(* phaseOnlyUpdate, and what follows the event.                            *)
(***************************************************************************)
LEMMA MutatedType ==
  ASSUME NEW w \in Session, NEW m \in Snapshot,
         w.op \in {"plan", "skip", "run", "note", "approved"},
         w.op # "plan" => w.phase \in Phases
  PROVE  Mutated(w, m) \in Snapshot
<1>1. \A p \in Phases, mark \in {"SKIPPED", "COMPLETED"} :
        completeStep(m, p, mark) \in Snapshot
  BY CompleteStepType DEF StepStatus
<1>2. CASE w.op = "plan"
  BY <1>2, WithPlanType DEF Mutated
<1>3. CASE w.op = "skip"
  BY <1>1, <1>3 DEF Mutated
<1>4. CASE w.op = "note"
  BY <1>4 DEF Mutated
<1>5. CASE w.op = "approved"
  BY <1>1, <1>5, PhaseNumbers DEF Mutated
<1>6. CASE w.op = "run"
  <2> DEFINE c == completeStep(m, w.phase, "COMPLETED")
             receipt == IF w.receipt = 0 THEN m.receipt ELSE w.receipt
  <2>1. c \in Snapshot
    BY <1>1, <1>6
  <2>2. w.receipt \in Nat /\ w.alarm \in BOOLEAN /\ m.receipt \in Nat
    BY DEF Session, Snapshot
  <2>3. receipt \in Nat
    BY <2>2
  <2> DEFINE alarmed  == m.alarmed \/ w.alarm
             proposal == m.proposal \/ w.phase = PROPOSE
  <2>4. alarmed \in BOOLEAN /\ proposal \in BOOLEAN
    OBVIOUS
  <2>5. Mutated(w, m) = [c EXCEPT !.alarmed = alarmed, !.proposal = proposal,
                                  !.receipt = receipt]
    BY <1>6 DEF Mutated, Completed
  <2> HIDE DEF c, receipt, alarmed, proposal
  <2>6. QED
    BY <2>1, <2>3, <2>4, <2>5 DEF Snapshot
<1>7. QED
  BY <1>2, <1>3, <1>4, <1>5, <1>6

LEMMA TypeRefresh ==
  ASSUME TypeInv, NEW s \in Sessions, Refresh(s)
  PROVE  TypeInv'
<1> DEFINE w == sess[s]
           x == Bump(Mutated(w, snapshots[w.mission]))
           v == [w EXCEPT !.pc = "save", !.next = x]
<1>0. w \in Session /\ Placed(w, DOMAIN snapshots)
  BY DEF TypeInv, SessionsOK, AllPlaced
<1>1. /\ w.mission \in DOMAIN snapshots
      /\ w.op \in {"plan", "skip", "run", "note", "approved"}
      /\ w.op # "plan" => w.phase \in Phases
      /\ w.pc \notin Away
  BY <1>0 DEF Refresh, Placed, Away
<1>2. /\ UNCHANGED <<missionStores, grants, receipts, minted, bounds>>
      /\ DOMAIN snapshots \subseteq DOMAIN snapshots'
      /\ minted' \in Nat /\ faults' \in Nat /\ detours' \in Nat
  BY DEF Refresh, missionStores, bounds, TypeInv, OthersOK
<1>3. snapshots[w.mission] \in Snapshot
  BY <1>1 DEF TypeInv, SnapshotsOK, Documents
<1>4. x \in Snapshot
  BY <1>0, <1>1, <1>3, MutatedType, BumpType
<1>5. v \in Session
  BY <1>0, <1>4 DEF Session, PC
<1>6. v.pc = "save" /\ v.op = w.op /\ v.mission = w.mission /\ v.phase = w.phase
      /\ v.run = w.run
  BY <1>0 DEF Session
<1>7. Finish(s) \/ Become(s, v)
  BY DEF Refresh
<1>8. SessionsOK' /\ AllPlaced'
  BY <1>1, <1>2, <1>5, <1>6, <1>7, FinishMoves, WorkMoves
<1>9. QED
  BY <1>2, <1>8, StoresStay

LEMMA TypeSave ==
  ASSUME TypeInv, NEW s \in Sessions, SaveSnapshot(s)
  PROVE  TypeInv'
<1> DEFINE w == sess[s]
           v == [w EXCEPT !.pc = "append"]
<1>0. w \in Session /\ Placed(w, DOMAIN snapshots)
  BY DEF TypeInv, SessionsOK, AllPlaced
<1>1. w.mission \in DOMAIN snapshots /\ w.mission \in Missions
  BY <1>0 DEF SaveSnapshot, Placed, Away, TypeInv, SnapshotsOK, Documents
<1>2. w.next \in Snapshot
  BY <1>0 DEF Session
<1>3. SnapshotsOK' /\ DOMAIN snapshots \subseteq DOMAIN snapshots'
  BY <1>1, <1>2, PutType DEF SaveSnapshot, TypeInv, SnapshotsOK
<1>4. v \in Session
  BY <1>0 DEF Session, PC
<1>5. v.pc = "append" /\ v.op = w.op /\ v.mission = w.mission
      /\ v.phase = w.phase /\ v.run = w.run
  BY <1>0 DEF Session
<1>6. Placed(v, DOMAIN snapshots')
  BY <1>0, <1>1, <1>3, <1>5 DEF Placed
<1>7. SessionsOK' /\ AllPlaced'
  BY <1>3, <1>4, <1>6, SessionMoves DEF SaveSnapshot, Goto
<1>8. KeysOK' /\ GrantsOK' /\ OthersOK'
  BY DEF SaveSnapshot, TypeInv, KeysOK, GrantsOK, OthersOK, grants, bounds
<1>9. QED
  BY <1>3, <1>7, <1>8 DEF TypeInv

LEMMA TypeLog ==
  ASSUME TypeInv, NEW s \in Sessions, LogEvent(s)
  PROVE  TypeInv'
<1> DEFINE w == sess[s]
<1>0. w \in Session /\ Placed(w, DOMAIN snapshots)
  BY DEF TypeInv, SessionsOK, AllPlaced
<1>1. /\ w.mission \in DOMAIN snapshots /\ w.mission \in Missions
      /\ w.pc \notin Away /\ w.next \in Snapshot
  BY <1>0 DEF LogEvent, Placed, Away, TypeInv, SnapshotsOK, Documents, Session
<1>2. /\ DOMAIN snapshots \subseteq DOMAIN snapshots'
      /\ w.mission \in DOMAIN snapshots'
  BY <1>1 DEF LogEvent
<1> DEFINE plans   == [w EXCEPT !.pc = "refresh", !.op = "plan", !.base = w.next]
           begins  == Prepared(w.run, w.mission, w.next, TRUE)
           seals   == [w EXCEPT !.pc = "seal"]
           stores  == [w EXCEPT !.pc = "receipt"]
<1>3. \/ w.op = "start" /\ Become(s, plans)
      \/ w.op = "plan" /\ Become(s, begins)
      \/ w.op \in Commands /\ Become(s, seals)
      \/ w.op = "run" /\ Become(s, stores)
      \/ Finish(s)
  BY DEF LogEvent, Finish
<1>4. plans \in Session /\ seals \in Session /\ stores \in Session
  BY <1>0, <1>1 DEF Session, PC, Op
<1>5. /\ \A v \in {plans, seals, stores} :
           v.mission = w.mission /\ v.phase = w.phase /\ v.run = w.run
      /\ plans.pc = "refresh" /\ plans.op = "plan"
      /\ seals.pc = "seal" /\ seals.op = w.op
      /\ stores.pc = "receipt" /\ stores.op = w.op
  BY <1>0 DEF Session
<1>6. SessionsOK' /\ AllPlaced'
  <2>1. CASE w.op = "start" /\ Become(s, plans)
    BY <1>1, <1>2, <1>4, <1>5, <2>1, WorkMoves
  <2>2. CASE w.op = "plan" /\ Become(s, begins)
    <3>1. w.run \in Runs
      BY <1>0, <2>2 DEF Placed
    <3>2. begins \in Session /\ Placed(begins, DOMAIN snapshots')
      BY <1>1, <1>2, <3>1, PreparedOK
    <3>3. QED
      BY <1>2, <2>2, <3>2, SessionMoves
  <2>3. CASE w.op \in Commands /\ Become(s, seals)
    <3>1. w.op \notin {"none", "start", "plan"}
      BY <2>3 DEF Commands
    <3>2. QED
      BY <1>1, <1>2, <1>4, <1>5, <2>3, <3>1, WorkMoves
  <2>4. CASE w.op = "run" /\ Become(s, stores)
    BY <1>1, <1>2, <1>4, <1>5, <2>4, WorkMoves
  <2>5. CASE Finish(s)
    BY <1>2, <2>5, FinishMoves
  <2>6. QED
    BY <1>3, <2>1, <2>2, <2>3, <2>4, <2>5
<1>7. SnapshotsOK' /\ KeysOK' /\ GrantsOK' /\ OthersOK'
  BY <1>1 DEF LogEvent, TypeInv, SnapshotsOK, KeysOK, GrantsOK, OthersOK, grants,
              bounds
<1>8. QED
  BY <1>6, <1>7 DEF TypeInv

LEMMA TypeStore ==
  ASSUME TypeInv, NEW s \in Sessions, StoreReceipt(s)
  PROVE  TypeInv'
<1>1. sess[s].receipt \in Nat
  BY DEF TypeInv, SessionsOK, Session
<1>2. SessionsOK' /\ AllPlaced'
  BY FinishMoves DEF StoreReceipt, missionStores
<1>3. SnapshotsOK' /\ KeysOK' /\ GrantsOK' /\ OthersOK'
  BY <1>1 DEF StoreReceipt, TypeInv, SnapshotsOK, KeysOK, GrantsOK, OthersOK,
              missionStores, grants, bounds
<1>4. QED
  BY <1>2, <1>3 DEF TypeInv

(***************************************************************************)
(* The engine's commands.                                                  *)
(***************************************************************************)
LEMMA CommandTargetType ==
  ASSUME NEW op, NEW m \in Snapshot
  PROVE  CommandTarget(op, m) \in Snapshot
<1> DEFINE p == derivePreparedStep(m).phase
           t == CommandTarget(op, m)
<1>1. \A q \in Phases :
        /\ completeStep(m, q, "COMPLETED") \in Snapshot
        /\ completeStep(m, q, "IN_PROGRESS") \in Snapshot
  BY CompleteStepType DEF StepStatus
<1>2. \A status \in {"APPROVED", "RUNNING"} : [m EXCEPT !.status = status] \in Snapshot
  BY StatusType DEF Status
<1>3. \A q \in {INTAKE, BIND_SCOPE, APPROVE, ARCHIVE} :
        genericIntentHandler(m, q) \in Snapshot
  <2>1. \A q \in {INTAKE, BIND_SCOPE, APPROVE, ARCHIVE},
           mark \in {"COMPLETED", "IN_PROGRESS"}, status \in Status :
          [completeStep(m, q, mark) EXCEPT !.status = status] \in Snapshot
    BY <1>1, StatusType, PhaseNumbers
  <2>2. /\ genericIntentHandler(m, INTAKE)
             = [completeStep(m, INTAKE, "COMPLETED") EXCEPT !.status = "QUEUED"]
        /\ genericIntentHandler(m, BIND_SCOPE)
             = [completeStep(m, BIND_SCOPE, "COMPLETED") EXCEPT !.status = "RUNNING"]
        /\ genericIntentHandler(m, APPROVE)
             = [completeStep(m, APPROVE, "IN_PROGRESS")
                  EXCEPT !.status = "AWAITING_APPROVAL"]
        /\ genericIntentHandler(m, ARCHIVE)
             = [completeStep(m, ARCHIVE, "COMPLETED") EXCEPT !.status = "COMPLETED"]
    BY PhaseNumbers DEF genericIntentHandler, markInProgress
  <2>3. {"QUEUED", "RUNNING", "AWAITING_APPROVAL", "COMPLETED"} \subseteq Status
    BY DEF Status
  <2>4. QED
    BY <2>1, <2>2, <2>3
<1>4. \A q \in Phases : Asked(m, q) \in Snapshot
  <2> SUFFICES ASSUME NEW q \in Phases PROVE Asked(m, q) \in Snapshot
    OBVIOUS
  <2>1. Asked(m, q) = [completeStep(m, q, "IN_PROGRESS")
                         EXCEPT !.status = "WAITING_FOR_EVIDENCE",
                                !.alarmed = TRUE]
    BY DEF Asked, markInProgress
  <2>2. QED
    BY <1>1, <2>1, AlarmType DEF Status
<1>5. [m EXCEPT !.status = "BLOCKED_BY_GATE", !.alarmed = TRUE] \in Snapshot
  BY AlarmType DEF Status
<1>6. \/ t = [m EXCEPT !.status = "APPROVED"]
      \/ t = [m EXCEPT !.status = "RUNNING"]
      \/ p \in {INTAKE, BIND_SCOPE, ARCHIVE} /\ t = genericIntentHandler(m, p)
      \/ p \in {INGEST, RECONCILE} /\ t = Asked(m, p)
      \/ t = [m EXCEPT !.status = "BLOCKED_BY_GATE", !.alarmed = TRUE]
      \/ t = genericIntentHandler(m, APPROVE)
  BY DEF CommandTarget
<1>7. {INTAKE, BIND_SCOPE, INGEST, RECONCILE, APPROVE, ARCHIVE} \subseteq Phases
  BY PhaseNumbers
<1>8. QED
  BY <1>2, <1>3, <1>4, <1>5, <1>6, <1>7

(* What a run does with the snapshot a command returns is a move in the run. *)
LEMMA AppliedMoves ==
  ASSUME TypeInv, NEW s \in Sessions, NEW snapshot \in Snapshot,
         sess[s].pc \in {"get", "seal"}, Become(s, Applied(sess[s], snapshot)),
         DOMAIN snapshots \subseteq DOMAIN snapshots'
  PROVE  SessionsOK' /\ AllPlaced'
<1> DEFINE w  == sess[s]
           at == [w EXCEPT !.base = snapshot]
<1>0. w \in Session /\ Placed(w, DOMAIN snapshots)
  BY DEF TypeInv, SessionsOK, AllPlaced
<1>1. w.op \in Commands /\ w.pc \notin Away
  BY <1>0 DEF Placed, Away
<1>2. /\ at \in Session /\ at.mission = w.mission /\ at.phase = w.phase
      /\ at.run = w.run
  BY <1>0 DEF Session
<1> DEFINE notes    == [at EXCEPT !.pc = "refresh", !.op = "note"]
           approves == [at EXCEPT !.pc = "get", !.op = "approve"]
           records  == [at EXCEPT !.pc = "refresh", !.op = "approved"]
<1>3. \/ Become(s, notes) \/ Become(s, approves) \/ Become(s, records)
      \/ Finish(s)
  BY DEF Applied, Finish
<1> HIDE DEF at
<1>4. notes \in Session /\ approves \in Session /\ records \in Session
  BY <1>2, MoveType, PointsAndOperations
<1>5. /\ \A v \in {notes, approves, records} :
           v.mission = w.mission /\ v.phase = w.phase /\ v.run = w.run
      /\ notes.pc = "refresh" /\ notes.op = "note"
      /\ approves.pc = "get" /\ approves.op = "approve"
      /\ records.pc = "refresh" /\ records.op = "approved"
  BY <1>2 DEF Session
<1>6. w.op \notin {"none", "start", "plan"}
  BY <1>1 DEF Commands
<1>7. CASE Become(s, notes)
  BY <1>1, <1>4, <1>5, <1>6, <1>7, WorkMoves
<1>8. CASE Become(s, approves)
  BY <1>1, <1>4, <1>5, <1>6, <1>8, WorkMoves DEF Commands
<1>9. CASE Become(s, records)
  BY <1>1, <1>4, <1>5, <1>6, <1>9, WorkMoves
<1>10. QED
  BY <1>3, <1>7, <1>8, <1>9, FinishMoves

(* The key of a run that executes a command. *)
LEMMA KeyType ==
  ASSUME NEW w \in Session, w.mission \in Missions, w.op \in Commands,
         w.phase \in Phases, w.run \in Runs
  PROVE  KeyOf(w) \in Key
<1>1. w.run.scope \in Scopes
  BY RunsAssumption DEF Run
<1>2. w.base.version \in Nat /\ w.output \in Outputs \cup {NoOutput}
  BY DEF Session, Snapshot
<1>3. QED
  BY <1>1, <1>2 DEF KeyOf, Key

LEMMA TypeReplay ==
  ASSUME TypeInv, NEW s \in Sessions, ReplayKey(s) \/ NewKey(s) \/ LoadMission(s)
  PROVE  TypeInv'
<1> DEFINE w == sess[s]
<1>0. w \in Session /\ Placed(w, DOMAIN snapshots)
  BY DEF TypeInv, SessionsOK, AllPlaced
<1>1. /\ w.pc \in {"get", "load"} /\ w.pc \notin Away /\ w.op \in Commands
      /\ w.mission \in DOMAIN snapshots
  BY <1>0 DEF ReplayKey, NewKey, LoadMission, Placed, Away
<1>2. snapshots[w.mission] \in Snapshot
  BY <1>1 DEF TypeInv, SnapshotsOK, Documents
<1>3. w.op \notin {"none", "start", "plan"}
  BY <1>1 DEF Commands
<1>4. /\ UNCHANGED <<missionStores, grants, receipts, minted, bounds>>
      /\ DOMAIN snapshots \subseteq DOMAIN snapshots'
      /\ minted' \in Nat /\ faults' \in Nat /\ detours' \in Nat
  BY DEF ReplayKey, NewKey, LoadMission, missionStores, bounds, TypeInv, OthersOK
<1>5. CASE ReplayKey(s)
  <2>1. KeyOf(w) \in DOMAIN idempotency
    BY <1>5 DEF ReplayKey
  <2>2. idempotency[KeyOf(w)].result \in Snapshot
    BY <2>1 DEF TypeInv, KeysOK, Documents, Record
  <2>3. \/ Become(s, Applied(w, idempotency[KeyOf(w)].result))
        \/ Become(s, Applied(w, snapshots[w.mission]))
        \/ Finish(s)
    BY <1>5 DEF ReplayKey
  <2>4. w.pc \in {"get", "seal"}
    BY <1>5 DEF ReplayKey
  <2>5. SessionsOK' /\ AllPlaced'
    BY <1>2, <1>4, <2>2, <2>3, <2>4, AppliedMoves, FinishMoves
  <2>6. QED
    BY <1>4, <2>5, StoresStay
<1>6. CASE NewKey(s)
  <2>1. SessionsOK' /\ AllPlaced'
    BY <1>1, <1>3, <1>4, <1>6, GotoMoves DEF NewKey, PC
  <2>2. QED
    BY <1>4, <2>1, StoresStay
<1>7. CASE LoadMission(s)
  <2> DEFINE v == [w EXCEPT !.pc = "execute", !.next = snapshots[w.mission]]
  <2>1. v \in Session
    BY <1>0, <1>2 DEF Session, PC
  <2>2. v.pc = "execute" /\ v.op = w.op /\ v.mission = w.mission
        /\ v.phase = w.phase /\ v.run = w.run
    BY <1>0 DEF Session
  <2>3. SessionsOK' /\ AllPlaced'
    BY <1>1, <1>3, <1>4, <1>7, <2>1, <2>2, WorkMoves DEF LoadMission
  <2>4. QED
    BY <1>4, <2>3, StoresStay
<1>8. QED
  BY <1>5, <1>6, <1>7

LEMMA TypeExecute ==
  ASSUME TypeInv, NEW s \in Sessions,
         ExecuteCommand(s) \/ SealKey(s) \/ FailKey(s)
  PROVE  TypeInv'
<1> DEFINE w == sess[s]
<1>0. w \in Session /\ Placed(w, DOMAIN snapshots)
  BY DEF TypeInv, SessionsOK, AllPlaced
<1>1. /\ w.pc \in {"execute", "seal", "fail"} /\ w.pc \notin Away
      /\ w.op \in Commands /\ w.mission \in Missions
  BY <1>0 DEF ExecuteCommand, SealKey, FailKey, Placed, Away, TypeInv, SnapshotsOK,
              Documents
<1>2. w.op \notin {"none", "start", "plan"}
  BY <1>1 DEF Commands
<1>3. KeyOf(w) \in Key
  BY <1>0, <1>1, <1>2, KeyType DEF Placed
<1>4. w.next \in Snapshot
  BY <1>0 DEF Session
<1>5. /\ Executing \in Record /\ Failed \in Record /\ Sealed(w.next) \in Record
  <2>1. Blank \in Snapshot
    BY StartedType DEF Blank, EdaIntent, EDA_INTENTS
  <2>2. QED
    BY <1>4, <2>1 DEF Executing, Failed, Sealed, Record
<1>6. \E record \in Record : idempotency' = Put(idempotency, KeyOf(w), record)
  BY <1>5 DEF ExecuteCommand, SealKey, FailKey
<1>7. KeysOK'
  BY <1>3, <1>6, PutType DEF TypeInv, KeysOK
<1>8. SnapshotsOK' /\ GrantsOK' /\ OthersOK'
      /\ DOMAIN snapshots \subseteq DOMAIN snapshots'
  BY DEF ExecuteCommand, SealKey, FailKey, TypeInv, SnapshotsOK, GrantsOK, OthersOK,
         grants, bounds
<1>9. SessionsOK' /\ AllPlaced'
  <2>1. CASE ExecuteCommand(s)
    <3> DEFINE x == Bump(CommandTarget(w.op, w.next))
               v == [w EXCEPT !.pc = "save", !.next = x]
    <3>1. x \in Snapshot
      BY <1>4, CommandTargetType, BumpType
    <3>2. v \in Session
      BY <1>0, <3>1 DEF Session, PC
    <3>3. v.pc = "save" /\ v.op = w.op /\ v.mission = w.mission
          /\ v.phase = w.phase /\ v.run = w.run
      BY <1>0 DEF Session
    <3>4. Become(s, v) \/ Goto(s, "fail")
      BY <2>1 DEF ExecuteCommand
    <3>5. CASE Become(s, v)
      BY <1>1, <1>2, <1>8, <3>2, <3>3, <3>5, WorkMoves
    <3>6. CASE Goto(s, "fail")
      BY <1>1, <1>2, <1>8, <3>6, GotoMoves DEF PC
    <3>7. QED
      BY <3>4, <3>5, <3>6
  <2>2. CASE SealKey(s)
    BY <1>4, <1>8, <2>2, AppliedMoves DEF SealKey
  <2>3. CASE FailKey(s)
    BY <1>8, <2>3, FinishMoves DEF FailKey
  <2>4. QED
    BY <2>1, <2>2, <2>3
<1>10. QED
  BY <1>7, <1>8, <1>9 DEF TypeInv

(***************************************************************************)
(* The environment.                                                        *)
(***************************************************************************)
LEMMA TypeFault ==
  ASSUME TypeInv, NEW s \in Sessions, Crash(s) \/ StoreError(s)
  PROVE  TypeInv'
<1> DEFINE w == sess[s]
<1>0. w \in Session /\ Placed(w, DOMAIN snapshots)
  BY DEF TypeInv, SessionsOK, AllPlaced
<1>1. Fault(s)
  BY DEF Crash, StoreError
<1>2. SnapshotsOK' /\ KeysOK' /\ GrantsOK' /\ DOMAIN snapshots \subseteq DOMAIN snapshots'
  BY <1>1 DEF Fault, TypeInv, SnapshotsOK, KeysOK, GrantsOK
<1>3. \A pc \in {"append", "enter"}, damaged \in SUBSET Missions :
        Cut(s, pc, damaged) \subseteq SUBSET Missions
  BY <1>0 DEF Cut, Placed, Away, TypeInv, SnapshotsOK, Documents
<1>4. torn' \subseteq Missions /\ spoilt' \subseteq Missions
  BY <1>1, <1>3 DEF Fault, TypeInv, OthersOK
<1>5. faults' \in Nat
  BY <1>1 DEF Fault, TypeInv, OthersOK
<1>6. OthersOK'
  BY <1>1, <1>4, <1>5 DEF Fault, TypeInv, OthersOK
<1>7. CASE Crash(s)
  BY <1>2, <1>6, <1>7, FinishMoves DEF Crash, TypeInv
<1>8. CASE StoreError(s)
  <2>1. /\ w.op \in Commands /\ w.pc \notin Away /\ w.op # "none"
        /\ Goto(s, "fail")
    BY <1>8 DEF StoreError, Commands, Away
  <2>2. SessionsOK' /\ AllPlaced'
    BY <1>2, <2>1, GotoMoves DEF PC
  <2>3. QED
    BY <1>2, <1>6, <2>2 DEF TypeInv
<1>9. QED
  BY <1>7, <1>8

LEMMA TypeExpire ==
  ASSUME TypeInv, NEW k \in DOMAIN idempotency, Expire(k)
  PROVE  TypeInv'
<1>1. KeysOK'
  BY DEF Expire, TypeInv, KeysOK, Documents
<1>2. QED
  BY <1>1 DEF Expire, TypeInv, SnapshotsOK, GrantsOK, OthersOK, SessionsOK, AllPlaced,
              grants, bounds

(* Idling, and being refused below the chain's mode, change nothing. *)
LEMMA TypeStutter == ASSUME TypeInv, UNCHANGED vars PROVE TypeInv'
  BY DEF TypeInv, SnapshotsOK, KeysOK, GrantsOK, OthersOK, SessionsOK, AllPlaced,
         vars, missionStores, grants, bounds

LEMMA TypeStep == TypeInv /\ [Next]_vars => TypeInv'
<1> SUFFICES ASSUME TypeInv, [Next]_vars PROVE TypeInv'
  OBVIOUS
<1>1. ASSUME NEW s \in Sessions, NEW i \in Intents, NEW r \in Runs, Begin(s, i, r)
      PROVE  TypeInv'
  BY <1>1, TypeBegin
<1>2. ASSUME NEW s \in Sessions, NEW r \in Runs, BelowMode(s, r)
      PROVE  TypeInv'
  BY <1>2, TypeStutter DEF BelowMode
<1>3. ASSUME NEW s \in Sessions, Step(s)
      PROVE  TypeInv'
  BY <1>3, TypeStart, TypeGrant, TypeGates, TypeCompute, TypeRefresh, TypeSave,
     TypeLog, TypeStore, TypeReplay, TypeExecute DEF Step
<1>4. ASSUME NEW s \in Sessions, Crash(s) \/ StoreError(s)
      PROVE  TypeInv'
  BY <1>4, TypeFault
<1>5. ASSUME NEW k \in DOMAIN idempotency, Expire(k)
      PROVE  TypeInv'
  BY <1>5, TypeExpire
<1>6. CASE UNCHANGED vars
  BY <1>6, TypeStutter
<1>7. QED
  BY <1>1, <1>2, <1>3, <1>4, <1>5, <1>6 DEF Next

(* Every reachable state satisfies the inductive invariant. *)
LEMMA TypeInvariant == Spec => []TypeInv
  BY TypeInit, TypeStep, PTL DEF Spec

(***************************************************************************)
(* Whatever sessions, scopes, approvals, faults and detours there are, the *)
(* mission, idempotency, authority and receipt stores only ever hold       *)
(* documents of their kind under names they may be asked for, and every    *)
(* session is at a point of a run of the pipeline.                         *)
(***************************************************************************)
THEOREM ChainTypeCorrect == Spec => []TypeOK
<1>1. TypeInv => TypeOK
  BY DEF TypeInv, TypeOK, SnapshotsOK, KeysOK, GrantsOK, OthersOK, SessionsOK
<1>2. QED
  BY <1>1, TypeInvariant, PTL

------------------------------------------------------------------------------
(***************************************************************************)
(* No mission is ever silently re-authorized: however many sessions run    *)
(* chains on a workspace, in whatever order their store calls interleave   *)
(* and wherever crashes and errors fall, all authorizations of a mission   *)
(* are bound to one scope.                                                 *)
(***************************************************************************)
(***************************************************************************)
(* The check and the write of an authorization are store calls of their    *)
(* own, so what the check saw must still hold at the write.  It does       *)
(* because a mission has one owner, the run that started it, which grants  *)
(* in its own scope without looking, while every other run has seen an     *)
(* authorization of its scope, and authorizations never disappear.         *)
(***************************************************************************)
Owner(w) == w.pc \notin Away /\ (w.op \in {"start", "plan"} \/ w.startedNow)

Granted(w, records) == \E a \in records : a.scope = w.run.scope
Alone(w, records)   == \A a \in records : a.scope = w.run.scope

MayGrant(w, records) == Owner(w) \/ Granted(w, records)

Unstarted == \A m \in Missions \ DOMAIN snapshots : authorizations[m] = {}
Owned == \A s \in Sessions :
           Owner(sess[s]) => Alone(sess[s], authorizations[sess[s].mission])
Lone == \A s, t \in Sessions :
          s # t /\ Owner(sess[s]) /\ Owner(sess[t])
            => sess[s].mission # sess[t].mission
Granting == \A s \in Sessions :
              sess[s].pc \in {"grant", "enter"} =>
                MayGrant(sess[s], authorizations[sess[s].mission])

ScopeInv == Unstarted /\ Owned /\ Lone /\ Granting /\ OneScopePerMission

LEMMA ScopeInit == Init => ScopeInv
<1> SUFFICES ASSUME Init PROVE ScopeInv
  OBVIOUS
<1>1. \A s \in Sessions : sess[s].pc = "idle"
  BY DEF Init, Idle
<1>2. \A m \in Missions : authorizations[m] = {}
  BY DEF Init
<1>3. QED
  BY <1>1, <1>2 DEF ScopeInv, Unstarted, Owned, Lone, Granting, OneScopePerMission,
     Owner, Away

(***************************************************************************)
(* Steps that leave the authorizations alone.                              *)
(***************************************************************************)

(* A session moves and becomes nobody's owner that it was not before. *)
LEMMA ScopeMoves ==
  ASSUME TypeInv, ScopeInv, NEW s \in Sessions, NEW v, Become(s, v),
         UNCHANGED authorizations, DOMAIN snapshots \subseteq DOMAIN snapshots',
         Owner(v) => /\ Owner(sess[s]) /\ v.mission = sess[s].mission
                     /\ v.run = sess[s].run,
         v.pc \in {"grant", "enter"} => MayGrant(v, authorizations[v.mission])
  PROVE  ScopeInv'
<1>1. /\ sess'[s] = v
      /\ \A t \in Sessions \ {s} : sess'[t] = sess[t]
  BY DEF TypeInv, SessionsOK, Become
<1>2. Unstarted'
  BY DEF ScopeInv, Unstarted
<1>3. Owned'
  BY <1>1 DEF ScopeInv, Owned, Alone, Owner
<1>4. Lone'
  BY <1>1 DEF ScopeInv, Lone, Owner
<1>5. Granting'
  BY <1>1 DEF ScopeInv, Granting, MayGrant, Granted, Owner
<1>6. OneScopePerMission'
  BY DEF ScopeInv, OneScopePerMission
<1>7. QED
  BY <1>2, <1>3, <1>4, <1>5, <1>6 DEF ScopeInv

(* The end of a run is such a move. *)
LEMMA ScopeFinish ==
  ASSUME TypeInv, ScopeInv, NEW s \in Sessions, Finish(s),
         UNCHANGED authorizations, DOMAIN snapshots \subseteq DOMAIN snapshots'
  PROVE  ScopeInv'
<1>1. Idle.pc = "idle"
  BY DEF Idle
<1>2. QED
  BY <1>1, ScopeMoves DEF Finish, Owner, Away

(* So is a move that keeps the run and its mission and grants nothing. *)
LEMMA ScopeWork ==
  ASSUME TypeInv, ScopeInv, NEW s \in Sessions, NEW v, Become(s, v),
         UNCHANGED authorizations, DOMAIN snapshots \subseteq DOMAIN snapshots',
         v.mission = sess[s].mission, v.run = sess[s].run,
         v.startedNow = sess[s].startedNow,
         sess[s].pc \notin Away, v.pc \notin {"grant", "enter"},
         v.op \notin {"start", "plan"} \/ sess[s].op \in {"start", "plan"}
  PROVE  ScopeInv'
  BY ScopeMoves DEF Owner

(* Moving the program counter only keeps the run and its mission. *)
LEMMA ScopeGoto ==
  ASSUME TypeInv, ScopeInv, NEW s \in Sessions, NEW pc, Goto(s, pc),
         UNCHANGED authorizations, DOMAIN snapshots \subseteq DOMAIN snapshots',
         sess[s].pc \notin Away,
         pc \in {"grant", "enter"} =>
           MayGrant(sess[s], authorizations[sess[s].mission])
  PROVE  ScopeInv'
<1> DEFINE w == sess[s]
           v == [w EXCEPT !.pc = pc]
<1>0. w \in Session
  BY DEF TypeInv, SessionsOK
<1>1. v.pc = pc /\ v.op = w.op /\ v.mission = w.mission /\ v.run = w.run
      /\ v.startedNow = w.startedNow
  BY <1>0 DEF Session
<1>2. Become(s, v)
  BY DEF Goto
<1>3. Owner(v) => Owner(w)
  BY <1>1 DEF Owner
<1>4. v.pc \in {"grant", "enter"} => MayGrant(v, authorizations[v.mission])
  BY <1>1 DEF MayGrant, Granted, Owner, Away
<1> HIDE DEF v
<1>5. QED
  BY <1>1, <1>2, <1>3, <1>4, ScopeMoves

(* A run that knows its mission is its owner only if it started it. *)
LEMMA PreparedScope ==
  ASSUME NEW run \in Runs, NEW m \in Missions, NEW snapshot \in Snapshot,
         NEW startedNow \in BOOLEAN
  PROVE  LET v == Prepared(run, m, snapshot, startedNow) IN
         /\ v.pc \notin {"grant", "enter"}
         /\ Owner(v) => startedNow /\ v.mission = m /\ v.run = run
<1> DEFINE prepared == derivePreparedStep(snapshot)
           at == [Idle EXCEPT !.mission = m, !.phase = prepared.phase,
                              !.run = run, !.base = snapshot]
           v  == Prepared(run, m, snapshot, startedNow)
<1>1. Idle \in Session /\ Idle.pc = "idle" /\ Idle.startedNow = FALSE
  BY IdleOK DEF Idle
<1>2. /\ prepared.phase \in Phases \cup {NoPhase}
  BY PreparedStep
<1>3. at \in Session /\ at.mission = m /\ at.run = run /\ at.startedNow = FALSE
  BY <1>1, <1>2 DEF Session
<1>4. \/ v = Idle
      \/ v = [at EXCEPT !.pc = "refresh", !.op = "skip"]
      \/ v = [at EXCEPT !.pc = "get", !.op = "resume"]
      \/ v = [at EXCEPT !.pc = "authorize", !.op = "resolve"]
      \/ v = [at EXCEPT !.pc = "authorize", !.op = "run",
                        !.startedNow = startedNow]
  BY DEF Prepared
<1> HIDE DEF at
<1>5. \/ v.pc = "idle"
      \/ /\ v.pc \in {"refresh", "get", "authorize"}
         /\ v.op \notin {"start", "plan"}
         /\ v.startedNow \in {FALSE, startedNow}
         /\ v.mission = m /\ v.run = run
  BY <1>1, <1>3, <1>4 DEF Session
<1>6. QED
  BY <1>5 DEF Owner, Away

LEMMA ScopeBegin ==
  ASSUME TypeInv, ScopeInv, NEW s \in Sessions, NEW i \in Intents, NEW run \in Runs,
         Begin(s, i, run)
  PROVE  ScopeInv'
<1>1. UNCHANGED authorizations /\ DOMAIN snapshots \subseteq DOMAIN snapshots'
  BY DEF Begin, FindMission, FindNone, missionStores, grants
<1>2. CASE FindMission(s, i, run)
  <2>1. PICK m \in Active(i) : Become(s, Prepared(run, m, snapshots[m], FALSE))
    BY <1>2 DEF FindMission
  <2>2. m \in Missions /\ snapshots[m] \in Snapshot
    BY DEF Active, TypeInv, SnapshotsOK, Documents
  <2> DEFINE v == Prepared(run, m, snapshots[m], FALSE)
  <2>3. v.pc \notin {"grant", "enter"} /\ ~Owner(v)
    BY <2>2, PreparedScope
  <2> HIDE DEF v
  <2>4. Become(s, v)
    BY <2>1 DEF v
  <2>5. QED
    BY <1>1, <2>3, <2>4, ScopeMoves
<1>3. CASE FindNone(s, i, run)
  <2> DEFINE v == [Idle EXCEPT !.pc = "start", !.op = "start", !.run = run,
                               !.next = Started(i)]
  <2>1. v.pc = "start"
    BY IdleOK DEF Session
  <2>2. Become(s, v)
    BY <1>3 DEF FindNone
  <2> HIDE DEF v
  <2>3. QED
    BY <1>1, <2>1, <2>2, ScopeMoves DEF Owner, Away
<1>4. QED
  BY <1>2, <1>3 DEF Begin

LEMMA ScopeAsk ==
  ASSUME TypeInv, ScopeInv, NEW s \in Sessions,
         FindAuthorization(s) \/ ScopeBound(s) \/ CheckConflict(s)
  PROVE  ScopeInv'
<1> DEFINE w == sess[s]
<1>1. UNCHANGED authorizations /\ DOMAIN snapshots \subseteq DOMAIN snapshots'
  BY DEF FindAuthorization, ScopeBound, CheckConflict, missionStores, grants
<1>2. w.pc \notin Away
  BY DEF FindAuthorization, ScopeBound, CheckConflict, Away
<1>3. \/ Finish(s) \/ Goto(s, "gates") \/ Goto(s, "bound")
      \/ Goto(s, "grant") /\ (w.startedNow \/ Granted(w, authorizations[w.mission]))
      \/ Goto(s, "enter") /\ w.pc = "grant"
  BY DEF FindAuthorization, ScopeBound, CheckConflict, CannotRead, Granted
<1>4. CASE Finish(s) \/ Goto(s, "gates") \/ Goto(s, "bound")
  BY <1>1, <1>2, <1>4, ScopeFinish, ScopeGoto
<1>5. CASE Goto(s, "grant") /\ (w.startedNow \/ Granted(w, authorizations[w.mission]))
  <2>1. MayGrant(w, authorizations[w.mission])
    BY <1>2, <1>5 DEF MayGrant, Owner
  <2>2. QED
    BY <1>1, <1>2, <1>5, <2>1, ScopeGoto
<1>6. CASE Goto(s, "enter") /\ w.pc = "grant"
  <2>1. MayGrant(w, authorizations[w.mission])
    BY <1>6 DEF ScopeInv, Granting
  <2>2. QED
    BY <1>1, <1>2, <1>6, <2>1, ScopeGoto
<1>7. QED
  BY <1>3, <1>4, <1>5, <1>6

LEMMA ScopeGates ==
  ASSUME TypeInv, ScopeInv, NEW s \in Sessions,
         Allowed(s) \/ GateBlock(s) \/ Blocked(s)
  PROVE  ScopeInv'
<1> DEFINE w == sess[s]
<1>0. w \in Session
  BY DEF TypeInv, SessionsOK
<1>1. UNCHANGED authorizations /\ DOMAIN snapshots \subseteq DOMAIN snapshots'
  BY DEF Allowed, GateBlock, Blocked, missionStores, grants
<1>2. w.pc \notin Away
  BY DEF Allowed, GateBlock, Blocked, Away
<1> DEFINE computes == [w EXCEPT !.pc = "compute"]
           approves == [w EXCEPT !.pc = "get", !.op = "approve"]
           gates    == [w EXCEPT !.pc = "get", !.op = "gate"]
           executes == [w EXCEPT !.pc = "get"]
<1>3. \/ Finish(s) \/ Become(s, computes) \/ Become(s, approves)
      \/ Become(s, gates) \/ Become(s, executes)
  BY DEF Allowed, GateBlock, Blocked
<1>4. \A v \in {computes, approves, gates, executes} :
        /\ v.mission = w.mission /\ v.run = w.run /\ v.startedNow = w.startedNow
        /\ v.pc \in {"compute", "get"}
        /\ v.op \in {w.op, "approve", "gate"}
  BY <1>0 DEF Session
<1>5. ASSUME NEW v \in {computes, approves, gates, executes}, Become(s, v)
      PROVE  ScopeInv'
  BY <1>1, <1>2, <1>4, <1>5, ScopeWork
<1>6. QED
  BY <1>1, <1>3, <1>5, ScopeFinish

LEMMA ScopeCompute ==
  ASSUME TypeInv, ScopeInv, NEW s \in Sessions,
         ComputeThrows(s) \/ ComputeWaits(s) \/ ComputeDone(s)
  PROVE  ScopeInv'
<1> DEFINE w == sess[s]
<1>0. w \in Session
  BY DEF TypeInv, SessionsOK
<1>1. UNCHANGED authorizations /\ DOMAIN snapshots \subseteq DOMAIN snapshots'
  BY DEF ComputeThrows, ComputeWaits, ComputeDone, missionStores, grants
<1>2. w.pc \notin Away
  BY DEF ComputeThrows, ComputeWaits, ComputeDone, Away
<1>3. CASE ComputeThrows(s)
  BY <1>1, <1>3, ScopeFinish DEF ComputeThrows
<1>4. CASE ComputeWaits(s)
  <2>1. PICK o \in Outputs :
          Become(s, [w EXCEPT !.pc = "get", !.op = "wait", !.output = o])
    BY <1>4 DEF ComputeWaits
  <2> DEFINE v == [w EXCEPT !.pc = "get", !.op = "wait", !.output = o]
  <2>2. v.pc = "get" /\ v.op = "wait" /\ v.mission = w.mission
        /\ v.run = w.run /\ v.startedNow = w.startedNow
    BY <1>0 DEF Session
  <2>3. QED
    BY <1>1, <1>2, <2>1, <2>2, ScopeWork
<1>5. CASE ComputeDone(s)
  <2> DEFINE receipt == IF Warrants(w.base.intent, w.phase) THEN minted' ELSE 0
             done(o, alarm) == [w EXCEPT !.output = o, !.alarm = alarm,
                                         !.receipt = receipt]
  <2>1. PICK o \in Outputs, alarm \in {FALSE, MayAlarm(w.base.intent, w.phase)} :
          Become(s, CASE w.phase \in {INTAKE, BIND_SCOPE, ARCHIVE} ->
                           [done(o, alarm) EXCEPT !.pc = "get", !.op = "apply"]
                      [] w.phase = APPROVE ->
                           [done(o, alarm) EXCEPT !.pc = "get", !.op = "ask"]
                      [] OTHER -> [done(o, alarm) EXCEPT !.pc = "refresh"])
    BY <1>5 DEF ComputeDone
  <2> DEFINE d       == done(o, alarm)
             applies == [d EXCEPT !.pc = "get", !.op = "apply"]
             asks    == [d EXCEPT !.pc = "get", !.op = "ask"]
             works   == [d EXCEPT !.pc = "refresh"]
  <2>2. /\ d.mission = w.mission /\ d.run = w.run /\ d.op = w.op
        /\ d.startedNow = w.startedNow
        /\ {"pc", "op", "mission", "run", "startedNow"} \subseteq DOMAIN d
    BY <1>0 DEF Session
  <2>3. Become(s, applies) \/ Become(s, asks) \/ Become(s, works)
    BY <2>1
  <2> HIDE DEF d
  <2>4. \A v \in {applies, asks, works} :
          /\ v.mission = w.mission /\ v.run = w.run /\ v.startedNow = w.startedNow
          /\ v.pc \in {"get", "refresh"}
          /\ v.op \in {w.op, "apply", "ask"}
    BY <2>2
  <2>5. ASSUME NEW v \in {applies, asks, works}, Become(s, v)
        PROVE  ScopeInv'
    BY <1>1, <1>2, <2>4, <2>5, ScopeWork
  <2>6. QED
    BY <2>3, <2>5
<1>6. QED
  BY <1>3, <1>4, <1>5

LEMMA ScopeUpdate ==
  ASSUME TypeInv, ScopeInv, NEW s \in Sessions,
         Refresh(s) \/ SaveSnapshot(s) \/ StoreReceipt(s)
  PROVE  ScopeInv'
<1> DEFINE w == sess[s]
<1>0. w \in Session /\ Placed(w, DOMAIN snapshots)
  BY DEF TypeInv, SessionsOK, AllPlaced
<1>1. UNCHANGED authorizations
  BY DEF Refresh, SaveSnapshot, StoreReceipt, grants
<1>2. w.pc \notin Away
  BY DEF Refresh, SaveSnapshot, StoreReceipt, Away
<1>3. DOMAIN snapshots \subseteq DOMAIN snapshots'
  <2>1. \/ UNCHANGED snapshots
        \/ snapshots' = Put(snapshots, w.mission, w.next)
    BY DEF Refresh, SaveSnapshot, StoreReceipt, missionStores
  <2>2. DOMAIN Put(snapshots, w.mission, w.next) = DOMAIN snapshots \cup {w.mission}
    BY PutDomain
  <2>3. QED
    BY <2>1, <2>2
<1>4. CASE Refresh(s)
  <2> DEFINE v == [w EXCEPT !.pc = "save",
                            !.next = Bump(Mutated(w, snapshots[w.mission]))]
  <2>1. v.pc = "save" /\ v.op = w.op /\ v.mission = w.mission
        /\ v.run = w.run /\ v.startedNow = w.startedNow
    BY <1>0 DEF Session
  <2>2. Finish(s) \/ Become(s, v)
    BY <1>4 DEF Refresh
  <2>3. CASE Become(s, v)
    BY <1>1, <1>2, <1>3, <2>1, <2>3, ScopeWork
  <2>4. QED
    BY <1>1, <1>3, <2>2, <2>3, ScopeFinish
<1>5. CASE SaveSnapshot(s)
  <2>1. Goto(s, "append")
    BY <1>5 DEF SaveSnapshot
  <2>2. QED
    BY <1>1, <1>2, <1>3, <2>1, ScopeGoto
<1>6. CASE StoreReceipt(s)
  BY <1>1, <1>3, <1>6, ScopeFinish DEF StoreReceipt
<1>7. QED
  BY <1>4, <1>5, <1>6

LEMMA ScopeLog ==
  ASSUME TypeInv, ScopeInv, NEW s \in Sessions, LogEvent(s)
  PROVE  ScopeInv'
<1> DEFINE w == sess[s]
<1>0. w \in Session /\ Placed(w, DOMAIN snapshots)
  BY DEF TypeInv, SessionsOK, AllPlaced
<1>1. UNCHANGED authorizations /\ DOMAIN snapshots \subseteq DOMAIN snapshots'
  BY DEF LogEvent, grants
<1>2. w.pc \notin Away /\ w.mission \in Missions
  BY <1>0 DEF LogEvent, Placed, Away, TypeInv, SnapshotsOK, Documents
<1> DEFINE plans  == [w EXCEPT !.pc = "refresh", !.op = "plan", !.base = w.next]
           begins == Prepared(w.run, w.mission, w.next, TRUE)
           seals  == [w EXCEPT !.pc = "seal"]
           stores == [w EXCEPT !.pc = "receipt"]
<1>3. \/ w.op = "start" /\ Become(s, plans)
      \/ w.op = "plan" /\ Become(s, begins)
      \/ Become(s, seals)
      \/ Become(s, stores)
      \/ Finish(s)
  BY DEF LogEvent, Finish
<1>4. /\ \A v \in {plans, seals, stores} :
           /\ v.mission = w.mission /\ v.run = w.run /\ v.startedNow = w.startedNow
           /\ v.pc \in {"refresh", "seal", "receipt"}
      /\ seals.op = w.op /\ stores.op = w.op
  BY <1>0 DEF Session
<1>5. CASE w.op = "start" /\ Become(s, plans)
  BY <1>1, <1>2, <1>4, <1>5, ScopeWork
<1>6. CASE w.op = "plan" /\ Become(s, begins)
  <2>1. w.run \in Runs /\ w.next \in Snapshot
    BY <1>0, <1>6 DEF Placed, Session
  <2>2. /\ begins.pc \notin {"grant", "enter"}
        /\ Owner(begins) => begins.mission = w.mission /\ begins.run = w.run
    <3>1. \A now \in BOOLEAN :
            LET v == Prepared(w.run, w.mission, w.next, now) IN
            /\ v.pc \notin {"grant", "enter"}
            /\ Owner(v) => v.mission = w.mission /\ v.run = w.run
      BY <1>2, <2>1, PreparedScope
    <3>2. QED
      BY <3>1
  <2>3. Owner(w)
    BY <1>2, <1>6 DEF Owner
  <2> HIDE DEF begins
  <2>4. QED
    BY <1>1, <1>6, <2>2, <2>3, ScopeMoves
<1>7. CASE Become(s, seals)
  BY <1>1, <1>2, <1>4, <1>7, ScopeWork
<1>8. CASE Become(s, stores)
  BY <1>1, <1>2, <1>4, <1>8, ScopeWork
<1>9. CASE Finish(s)
  BY <1>1, <1>9, ScopeFinish
<1>10. QED
  BY <1>3, <1>5, <1>6, <1>7, <1>8, <1>9

LEMMA ScopeApplied ==
  ASSUME TypeInv, ScopeInv, NEW s \in Sessions, NEW snapshot,
         Become(s, Applied(sess[s], snapshot)), sess[s].pc \notin Away,
         UNCHANGED authorizations, DOMAIN snapshots \subseteq DOMAIN snapshots'
  PROVE  ScopeInv'
<1> DEFINE w  == sess[s]
           at == [w EXCEPT !.base = snapshot]
           notes    == [at EXCEPT !.pc = "refresh", !.op = "note"]
           approves == [at EXCEPT !.pc = "get", !.op = "approve"]
           records  == [at EXCEPT !.pc = "refresh", !.op = "approved"]
<1>0. w \in Session
  BY DEF TypeInv, SessionsOK
<1>1. \/ Become(s, notes) \/ Become(s, approves) \/ Become(s, records)
      \/ Finish(s)
  BY DEF Applied, Finish
<1>2. \A v \in {notes, approves, records} :
        /\ v.mission = w.mission /\ v.run = w.run /\ v.startedNow = w.startedNow
        /\ v.pc \in {"get", "refresh"}
        /\ v.op \in {"note", "approve", "approved"}
  BY <1>0 DEF Session
<1>3. ASSUME NEW v \in {notes, approves, records}, Become(s, v)
      PROVE  ScopeInv'
  BY <1>2, <1>3, ScopeWork
<1>4. QED
  BY <1>1, <1>3, ScopeFinish

LEMMA ScopeCommand ==
  ASSUME TypeInv, ScopeInv, NEW s \in Sessions,
         \/ ReplayKey(s) \/ NewKey(s) \/ LoadMission(s) \/ ExecuteCommand(s)
         \/ SealKey(s) \/ FailKey(s)
  PROVE  ScopeInv'
<1> DEFINE w == sess[s]
<1>0. w \in Session
  BY DEF TypeInv, SessionsOK
<1>1. UNCHANGED authorizations /\ DOMAIN snapshots \subseteq DOMAIN snapshots'
  BY DEF ReplayKey, NewKey, LoadMission, ExecuteCommand, SealKey, FailKey,
         missionStores, grants
<1>2. w.pc \notin Away
  BY DEF ReplayKey, NewKey, LoadMission, ExecuteCommand, SealKey, FailKey, Away
<1> DEFINE loads == [w EXCEPT !.pc = "execute", !.next = snapshots[w.mission]]
           saves == [w EXCEPT !.pc = "save",
                              !.next = Bump(CommandTarget(w.op, w.next))]
<1>3. \/ \E snapshot : Become(s, Applied(w, snapshot))
      \/ Finish(s) \/ Goto(s, "load") \/ Goto(s, "fail")
      \/ Become(s, loads) \/ Become(s, saves)
  BY DEF ReplayKey, NewKey, LoadMission, ExecuteCommand, SealKey, FailKey
<1>4. \A v \in {loads, saves} :
        /\ v.mission = w.mission /\ v.run = w.run /\ v.startedNow = w.startedNow
        /\ v.pc \in {"execute", "save"} /\ v.op = w.op
  BY <1>0 DEF Session
<1>5. CASE Become(s, loads) \/ Become(s, saves)
  BY <1>1, <1>2, <1>4, <1>5, ScopeWork
<1>6. CASE \E snapshot : Become(s, Applied(w, snapshot))
  BY <1>1, <1>2, <1>6, ScopeApplied
<1>7. CASE Finish(s) \/ Goto(s, "load") \/ Goto(s, "fail")
  BY <1>1, <1>2, <1>7, ScopeFinish, ScopeGoto
<1>8. QED
  BY <1>3, <1>5, <1>6, <1>7

LEMMA ScopeFault ==
  ASSUME TypeInv, ScopeInv, NEW s \in Sessions, Crash(s) \/ StoreError(s)
  PROVE  ScopeInv'
<1>1. UNCHANGED authorizations /\ DOMAIN snapshots \subseteq DOMAIN snapshots'
  BY DEF Crash, StoreError, Fault
<1>2. CASE Crash(s)
  BY <1>1, <1>2, ScopeFinish DEF Crash
<1>3. CASE StoreError(s)
  <2>1. sess[s].pc \notin Away /\ Goto(s, "fail")
    BY <1>3 DEF StoreError, Away
  <2>2. QED
    BY <1>1, <2>1, ScopeGoto
<1>4. QED
  BY <1>2, <1>3

LEMMA ScopeStutter ==
  ASSUME ScopeInv, UNCHANGED <<snapshots, authorizations, sess>>
  PROVE  ScopeInv'
  BY DEF ScopeInv, Unstarted, Owned, Lone, Granting, OneScopePerMission

(***************************************************************************)
(* A mission is started, and an authorization granted.                     *)
(***************************************************************************)

(* Nobody can own a mission that does not exist, or have been granted it. *)
LEMMA ScopeStart ==
  ASSUME TypeInv, ScopeInv, NEW s \in Sessions, NEW m \in Missions,
         StartMission(s, m)
  PROVE  ScopeInv'
<1> DEFINE w == sess[s]
           v == [w EXCEPT !.pc = "append", !.mission = m]
<1>0. w \in Session
  BY DEF TypeInv, SessionsOK
<1>1. v.pc = "append" /\ v.mission = m
  BY <1>0 DEF Session
<1>2. Become(s, v) /\ m \notin DOMAIN snapshots /\ UNCHANGED authorizations
  BY DEF StartMission, grants
<1>3. DOMAIN snapshots' = DOMAIN snapshots \cup {m}
  BY PutDomain DEF StartMission
<1> HIDE DEF v
<1>4. /\ sess'[s] = v
      /\ \A t \in Sessions \ {s} : sess'[t] = sess[t]
  BY <1>2 DEF TypeInv, SessionsOK, Become
<1>5. \A t \in Sessions : Owner(sess[t]) => sess[t].mission # m
  BY <1>2 DEF TypeInv, AllPlaced, Placed, Owner
<1>6. authorizations[m] = {}
  BY <1>2 DEF ScopeInv, Unstarted
<1>7. Unstarted'
  BY <1>2, <1>3 DEF ScopeInv, Unstarted
<1>8. Owned'
  BY <1>1, <1>2, <1>4, <1>6 DEF ScopeInv, Owned, Alone
<1>9. Lone'
  BY <1>1, <1>4, <1>5 DEF ScopeInv, Lone
<1>10. Granting'
  BY <1>1, <1>2, <1>4 DEF ScopeInv, Granting
<1>11. OneScopePerMission'
  BY <1>2 DEF ScopeInv, OneScopePerMission
<1>12. QED
  BY <1>7, <1>8, <1>9, <1>10, <1>11 DEF ScopeInv

LEMMA ScopeGrant ==
  ASSUME TypeInv, ScopeInv, NEW s \in Sessions, AppendAuthorization(s)
  PROVE  ScopeInv'
<1> DEFINE w == sess[s]
           m == w.mission
           b == Bound(w)
           v == [w EXCEPT !.pc = "gates"]
<1>0. w \in Session /\ w.pc = "enter" /\ m \in DOMAIN snapshots /\ m \in Missions
  BY DEF AppendAuthorization, TypeInv, SessionsOK, AllPlaced, Placed, Away,
         SnapshotsOK, Documents
<1>1. /\ v.pc = "gates" /\ v.mission = m /\ v.run = w.run /\ v.op = w.op
      /\ v.startedNow = w.startedNow
  BY <1>0 DEF Session
<1>2. Become(s, v) /\ UNCHANGED snapshots
  BY DEF AppendAuthorization, Goto, missionStores
<1>3. b.scope = w.run.scope
  BY DEF Bound
<1> HIDE DEF v, b
<1>4. /\ sess'[s] = v
      /\ \A t \in Sessions \ {s} : sess'[t] = sess[t]
  BY <1>2 DEF TypeInv, SessionsOK, Become
<1>5. /\ authorizations'[m] = authorizations[m] \cup {b}
      /\ \A n \in Missions \ {m} : authorizations'[n] = authorizations[n]
  BY <1>0 DEF AppendAuthorization, TypeInv, GrantsOK, b
<1>6. MayGrant(w, authorizations[m])
  BY <1>0 DEF ScopeInv, Granting
<1>7. Alone(w, authorizations[m])
  <2>1. CASE Owner(w)
    BY <2>1 DEF ScopeInv, Owned
  <2>2. CASE Granted(w, authorizations[m])
    BY <1>0, <2>2 DEF ScopeInv, OneScopePerMission, Granted, Alone
  <2>3. QED
    BY <1>6, <2>1, <2>2 DEF MayGrant
<1>8. Owner(v) => Owner(w)
  BY <1>0, <1>1 DEF Owner, Away
<1>9. \A t \in Sessions : Owner(sess'[t]) =>
        /\ Owner(sess[t]) /\ sess'[t].mission = sess[t].mission
        /\ sess'[t].run = sess[t].run
  BY <1>1, <1>4, <1>8
<1>10. \A t \in Sessions : Owner(sess[t]) /\ sess[t].mission = m =>
         b.scope = sess[t].run.scope
  <2> SUFFICES ASSUME NEW t \in Sessions, Owner(sess[t]), sess[t].mission = m
               PROVE  b.scope = sess[t].run.scope
    OBVIOUS
  <2>1. CASE t = s
    BY <1>3, <2>1
  <2>2. CASE t # s
    <3>1. ~Owner(w)
      BY <2>2 DEF ScopeInv, Lone
    <3>2. PICK a \in authorizations[m] : a.scope = w.run.scope
      BY <1>6, <3>1 DEF MayGrant, Granted
    <3>3. a.scope = sess[t].run.scope
      BY <3>2 DEF ScopeInv, Owned, Alone
    <3>4. QED
      BY <1>3, <3>2, <3>3
  <2>3. QED
    BY <2>1, <2>2
<1>11. \A t \in Sessions : Owner(sess[t]) => sess[t].mission \in Missions
  BY DEF TypeInv, AllPlaced, Placed, Owner, SnapshotsOK, Documents
<1>12. Unstarted'
  BY <1>0, <1>2, <1>5 DEF ScopeInv, Unstarted
<1>13. Owned'
  BY <1>5, <1>9, <1>10, <1>11 DEF ScopeInv, Owned, Alone
<1>14. Lone'
  BY <1>9 DEF ScopeInv, Lone
<1>15. Granting'
  <2> SUFFICES ASSUME NEW t \in Sessions, sess'[t].pc \in {"grant", "enter"}
               PROVE  MayGrant(sess'[t], authorizations'[sess'[t].mission])
    BY DEF Granting
  <2>1. t # s /\ sess'[t] = sess[t]
    BY <1>1, <1>4
  <2>2. sess[t].mission \in Missions
    BY <2>1 DEF TypeInv, AllPlaced, Placed, Away, SnapshotsOK, Documents
  <2>3. MayGrant(sess[t], authorizations[sess[t].mission])
    BY <2>1 DEF ScopeInv, Granting
  <2>4. authorizations[sess[t].mission] \subseteq authorizations'[sess[t].mission]
    BY <1>5, <2>2
  <2>5. QED
    BY <2>1, <2>3, <2>4 DEF MayGrant, Granted
<1>16. OneScopePerMission'
  BY <1>3, <1>5, <1>7 DEF ScopeInv, OneScopePerMission, Alone
<1>17. QED
  BY <1>12, <1>13, <1>14, <1>15, <1>16 DEF ScopeInv

(***************************************************************************)
(* The theorem.                                                            *)
(***************************************************************************)
LEMMA ScopeStep == TypeInv /\ ScopeInv /\ [Next]_vars => ScopeInv'
<1> SUFFICES ASSUME TypeInv, ScopeInv, [Next]_vars PROVE ScopeInv'
  OBVIOUS
<1>1. ASSUME NEW s \in Sessions, NEW i \in Intents, NEW r \in Runs, Begin(s, i, r)
      PROVE  ScopeInv'
  BY <1>1, ScopeBegin
<1>2. ASSUME NEW s \in Sessions, NEW r \in Runs, BelowMode(s, r)
      PROVE  ScopeInv'
  BY <1>2, ScopeStutter DEF BelowMode, vars, missionStores, grants
<1>3. ASSUME NEW s \in Sessions, Step(s)
      PROVE  ScopeInv'
  BY <1>3, ScopeStart, ScopeAsk, ScopeGrant, ScopeGates, ScopeCompute, ScopeUpdate,
     ScopeLog, ScopeCommand DEF Step
<1>4. ASSUME NEW s \in Sessions, Crash(s) \/ StoreError(s)
      PROVE  ScopeInv'
  BY <1>4, ScopeFault
<1>5. ASSUME NEW k \in DOMAIN idempotency, Expire(k)
      PROVE  ScopeInv'
  BY <1>5, ScopeStutter DEF Expire, grants
<1>6. CASE UNCHANGED vars
  BY <1>6, ScopeStutter DEF vars, missionStores, grants
<1>7. QED
  BY <1>1, <1>2, <1>3, <1>4, <1>5, <1>6 DEF Next

(***************************************************************************)
(* All authorizations of a mission are bound to the scope of the run that  *)
(* started it, though appendAuthorization checks for conflicts by mission  *)
(* and action family only and the checks before it are separate reads.     *)
(***************************************************************************)
THEOREM OneScope == Spec => []OneScopePerMission
<1>1. ScopeInv => OneScopePerMission
  BY DEF ScopeInv
<1>2. QED
  BY <1>1, ScopeInit, ScopeStep, TypeInvariant, PTL DEF Spec

(***************************************************************************)
(* No phase is completed unauthorized.                                     *)
(*                                                                         *)
(* A run is let through the gates on the snapshot it began with, and what  *)
(* it writes later is made from another one that has the same version.     *)
(* Two runs that have both read a mission may give different snapshots the *)
(* same version, so a run may complete a step that it never asked leave    *)
(* for: an engine command completes the step that is next in the snapshot  *)
(* it loads.  The plan saves it.  That step is INTAKE or BIND_SCOPE, of    *)
(* the family whoever got past INTAKE was granted; or it is ARCHIVE, and   *)
(* then CLOSE is behind it under the same family; or CLOSE is skipped, and *)
(* then the chain knows no wait, so that a version does tell how far it is. *)
(***************************************************************************)
Asking == {"authorize", "bound", "grant", "enter", "gates"}

(* What AuthorizedSteps asks for a completed step, of a set of records. *)
Earned(records, p) ==
  \E a \in records :
    /\ a.family = familyForPhase(p)
    /\ ModeOf[a.scope] >= ACTION_REQUIRED_MODE[a.family]

Covered(records, d) == \A p \in Phases : d.steps[p] = "COMPLETED" => Earned(records, p)

(* The first version of a mission has no plan yet, the second an untouched one. *)
Fresh(d) ==
  /\ d.current = NoPhase /\ d.status = "DRAFT" /\ ~d.alarmed /\ ~d.proposal
  /\ d.steps = [p \in Phases |-> "ABSENT"]

Untouched(d) ==
  d.current = INTAKE /\ d.status = "DRAFT" /\ d.steps = [p \in Phases |-> "PENDING"]

Planned(d) ==
  /\ d.current \in Phases
  /\ \A p \in Phases : /\ d.steps[p] # "ABSENT"
                       /\ d.steps[p] = "SKIPPED" => p \in Conditional(d.intent)
  /\ d.current = ARCHIVE => d.steps[ARCHIVE] = "COMPLETED"

(* The verify and evidence chains only move forward, a phase a version. *)
Linear(d) == d.intent \in HARNESS_INTENTS

Straight(d) ==
  /\ d.status \in {"DRAFT", "QUEUED", "RUNNING", "COMPLETED"}
  /\ ~d.alarmed /\ ~d.proposal
  /\ d.current < d.version
  /\ \A p \in Phases : IF p < d.version - 1 THEN d.steps[p] \in Passed
                                            ELSE d.steps[p] = "PENDING"

(* A snapshot of a mission, stored or about to be, and its authorizations. *)
Good(records, d) ==
  /\ d.intent \in CHAIN_INTENTS
  /\ d.version >= 1
  /\ d.version = 1 => Fresh(d)
  /\ d.version >= 2 => Planned(d)
  /\ d.version = 2 => Untouched(d)
  /\ d.version >= 3 => Earned(records, INTAKE)
  /\ d.version >= 2 /\ Linear(d) => Straight(d)
  /\ Covered(records, d)

StoredGood == \A m \in DOMAIN snapshots : Good(authorizations[m], snapshots[m])

(* A session at work on a mission whose stored snapshot is d. *)
Beginning(w) ==
  w.op = "start" /\ Fresh(w.next) /\ w.next.version = 1 /\ w.next.intent \in CHAIN_INTENTS

Carries(w, d, records) ==
  /\ w.pc \in {"execute", "save", "append", "seal"} =>
       Good(records, w.next) /\ w.next.intent = d.intent
  /\ w.pc \in {"execute", "save"} => w.next.version >= 2
  /\ w.pc = "append" /\ w.op = "plan" => d.version >= 2
  /\ w.pc = "append" /\ w.op = "start" => w.next.version = 1
  /\ w.op = "start" => w.pc = "append"
  /\ w.op = "plan" => w.base.version = 1 /\ w.pc \in {"refresh", "save", "append"}

Entitled(w, d, records) ==
  /\ d.version >= 2
  /\ Earned(records, INTAKE) \/ (w.phase = INTAKE /\ w.pc \in Asking)
  /\ w.op = "resolve" => w.phase = APPROVE
  /\ w.op = "skip" => w.phase \in Conditional(d.intent)
  /\ w.pc = "gates" => Bound(w) \in records
  /\ w.pc \in {"compute", "refresh"} /\ w.op = "run" => Earned(records, w.phase)
  /\ w.pc = "refresh" /\ w.op = "run"
       => w.phase \notin {INTAKE, BIND_SCOPE, APPROVE, ARCHIVE}
  /\ w.op \in {"ask", "resolve", "approve", "approved"} /\ w.pc \notin Asking =>
       Earned(records, APPROVE)

OnLine(w, d, records) ==
  /\ w.op \in {"run", "skip", "apply"}
  /\ w.op = "apply" =>
       w.phase \in {INTAKE, BIND_SCOPE, ARCHIVE} /\ Earned(records, w.phase)
  /\ w.phase = w.base.version - 1
  /\ w.base.intent = d.intent
  /\ ~w.alarm
  /\ w.op # "skip" => w.phase \notin Conditional(d.intent)

Backed(w, d, records) ==
  /\ Carries(w, d, records)
  /\ w.op \notin {"start", "plan"} => Entitled(w, d, records)
  /\ w.op \notin {"start", "plan"} /\ Linear(d) => OnLine(w, d, records)

SessionsBacked ==
  \A s \in Sessions : LET w == sess[s] IN
    /\ w.pc = "start" => Beginning(w)
    /\ w.pc \notin Away => Backed(w, snapshots[w.mission], authorizations[w.mission])

AuthInv == StoredGood /\ SessionsBacked

(***************************************************************************)
(* Snapshots.                                                              *)
(***************************************************************************)

(* The phases a chain may skip. *)
LEMMA ConditionalOf ==
  ASSUME NEW d \in Snapshot, d.intent \in CHAIN_INTENTS
  PROVE  /\ Linear(d) => Conditional(d.intent) = {PROPOSE, APPROVE, EXECUTE, CLOSE}
         /\ ~Linear(d) => /\ d.intent = "reconciliation"
                          /\ Conditional(d.intent) = {PROPOSE, APPROVE, EXECUTE}
         /\ {INTAKE, BIND_SCOPE, ARCHIVE} \cap Conditional(d.intent) = {}
<1>1. /\ Linear(d) => d.intent \in {"verify", "evidence"}
      /\ ~Linear(d) => d.intent = "reconciliation"
  BY DEF Linear, HARNESS_INTENTS, CHAIN_INTENTS
<1>2. /\ Linear(d) => Conditional(d.intent) = {PROPOSE, APPROVE, EXECUTE, CLOSE}
      /\ ~Linear(d) => Conditional(d.intent) = {PROPOSE, APPROVE, EXECUTE}
  BY <1>1 DEF Conditional, HARNESS_INTENTS
<1>3. QED
  BY <1>1, <1>2, PhaseNumbers

(* The phases of one family, and the mode every authorization has. *)
LEMMA SameFamily ==
  /\ familyForPhase(INTAKE) = "QUERY" /\ familyForPhase(BIND_SCOPE) = "QUERY"
  /\ familyForPhase(CLOSE) = familyForPhase(ARCHIVE)
  /\ familyForPhase(APPROVE) = "APPROVE"
  BY DEF familyForPhase, INTAKE, BIND_SCOPE, INGEST, INVESTIGATE, VERIFY, PROPOSE,
         APPROVE, EXECUTE, CLOSE, ARCHIVE

LEMMA EarnedTogether ==
  ASSUME NEW records
  PROVE  /\ Earned(records, INTAKE) => Earned(records, BIND_SCOPE)
         /\ Earned(records, CLOSE) => Earned(records, ARCHIVE)
  BY SameFamily DEF Earned

(* What is earned stays earned: authorizations are never taken back. *)
LEMMA EarnedStays ==
  ASSUME NEW records, NEW more, records \subseteq more, NEW p, Earned(records, p)
  PROVE  Earned(more, p)
  BY DEF Earned

LEMMA GoodStays ==
  ASSUME NEW records, NEW more, records \subseteq more, NEW d, Good(records, d)
  PROVE  Good(more, d)
  BY EarnedStays DEF Good, Covered

(* The plan is injected into a mission that has none. *)
LEMMA GoodPlan ==
  ASSUME NEW records, NEW m \in Snapshot, Good(records, m), m.version = 1
  PROVE  LET d == Bump(WithPlan(m)) IN
         Good(records, d) /\ d.version = 2 /\ d.intent = m.intent
<1> DEFINE d == Bump(WithPlan(m))
<1>1. /\ d.steps = [p \in Phases |-> "PENDING"] /\ d.current = INTAKE
      /\ d.version = 2 /\ d.intent = m.intent /\ d.status = m.status
      /\ d.alarmed = m.alarmed /\ d.proposal = m.proposal
  BY DEF Bump, WithPlan, Snapshot
<1>2. Fresh(m) /\ m.intent \in CHAIN_INTENTS
  BY DEF Good
<1> HIDE DEF d
<1>3. Planned(d) /\ Untouched(d) /\ Covered(records, d)
  BY <1>1, <1>2, PhaseNumbers DEF Planned, Untouched, Covered, Fresh
<1>4. Straight(d)
  BY <1>1, <1>2, PhaseNumbers DEF Straight, Fresh
<1>5. Good(records, d)
  BY <1>1, <1>2, <1>3, <1>4 DEF Good
<1>6. QED
  BY <1>1, <1>5 DEF d

(* A step is passed for which there is an authorization, or which may be   *)
(* skipped: on a straight mission, the next one.                           *)
LEMMA GoodMark ==
  ASSUME NEW records, NEW m \in Snapshot, Good(records, m), m.version >= 2,
         Earned(records, INTAKE),
         NEW p \in Phases, NEW mark \in Passed,
         mark = "COMPLETED" => Earned(records, p),
         mark = "SKIPPED" => p \in Conditional(m.intent),
         Linear(m) => p = m.version - 1,
         NEW d, d.version = m.version + 1, d.intent = m.intent, d.current = p,
         d.steps = [m.steps EXCEPT ![p] = mark],
         Linear(m) => /\ d.status \in {"DRAFT", "QUEUED", "RUNNING", "COMPLETED"}
                      /\ ~d.alarmed /\ ~d.proposal
  PROVE  Good(records, d)
<1>1. m.version \in Nat /\ m.steps \in [Phases -> StepStatus]
     /\ m.intent \in CHAIN_INTENTS
  BY DEF Snapshot, Good
<1>2. /\ d.steps[p] = mark /\ mark \in {"COMPLETED", "SKIPPED"}
      /\ \A q \in Phases \ {p} : d.steps[q] = m.steps[q]
  BY <1>1 DEF Passed
<1>3. ARCHIVE \notin Conditional(m.intent)
  BY <1>1, ConditionalOf
<1>4. Planned(m) /\ Covered(records, m) /\ (Linear(m) => Straight(m))
  BY DEF Good
<1>5. Planned(d)
  BY <1>2, <1>3, <1>4 DEF Planned
<1>6. Covered(records, d)
  BY <1>2, <1>4 DEF Covered
<1>7. Linear(d) => Straight(d)
  <2> SUFFICES ASSUME Linear(d) PROVE Straight(d)
    OBVIOUS
  <2>1. Linear(m) /\ Straight(m) /\ p = m.version - 1 /\ p \in 1 .. 13
    BY <1>4, PhaseNumbers DEF Linear
  <2>2. d.current < d.version
    BY <1>1, <2>1
  <2>3. \A q \in Phases : IF q < d.version - 1 THEN d.steps[q] \in Passed
                                               ELSE d.steps[q] = "PENDING"
    <3> SUFFICES ASSUME NEW q \in Phases
                 PROVE  IF q < d.version - 1 THEN d.steps[q] \in Passed
                                             ELSE d.steps[q] = "PENDING"
      OBVIOUS
    <3>1. q \in 1 .. 13
      BY PhaseNumbers
    <3>2. CASE q = p
      BY <1>1, <1>2, <2>1, <3>1, <3>2
    <3>3. CASE q # p
      <4>1. (q < d.version - 1) <=> (q < m.version - 1)
        BY <1>1, <2>1, <3>1, <3>3
      <4>2. QED
        BY <1>2, <2>1, <3>3, <4>1 DEF Straight
    <3>4. QED
      BY <3>2, <3>3
  <2>4. QED
    BY <2>1, <2>2, <2>3 DEF Straight
<1>8. QED
  BY <1>1, <1>5, <1>6, <1>7 DEF Good

(* A mission that may wait is marked as it stands, or as being in a step.  *)
LEMMA GoodHold ==
  ASSUME NEW records, NEW m \in Snapshot, Good(records, m), m.version >= 2,
         Earned(records, INTAKE), ~Linear(m),
         NEW d, d.version = m.version + 1, d.intent = m.intent,
         \/ d.steps = m.steps /\ d.current = m.current
         \/ \E p \in Phases \ {ARCHIVE} :
              d.current = p /\ d.steps = [m.steps EXCEPT ![p] = "IN_PROGRESS"]
  PROVE  Good(records, d)
<1>1. m.version \in Nat /\ m.steps \in [Phases -> StepStatus]
  BY DEF Snapshot
<1>2. Planned(m) /\ Covered(records, m) /\ ~Linear(d) /\ d.intent \in CHAIN_INTENTS
  BY DEF Good, Linear
<1>3. \A q \in Phases : d.steps[q] = m.steps[q] \/ d.steps[q] = "IN_PROGRESS"
  BY <1>1
<1>4. Planned(d)
  BY <1>1, <1>2, <1>3 DEF Planned
<1>5. Covered(records, d)
  BY <1>2, <1>3 DEF Covered
<1>6. QED
  BY <1>1, <1>2, <1>4, <1>5 DEF Good

(* Of a straight mission the version tells the next phase. *)
LEMMA StraightNext ==
  ASSUME NEW m \in Snapshot, m.version >= 2, Planned(m), Straight(m)
  PROVE  /\ m.version - 1 \in Phases => nextPendingPhase(m) = m.version - 1
         /\ m.version - 1 \notin Phases => nextPendingPhase(m) = NoPhase
<1>1. m.version \in Nat /\ m.current \in 1 .. 13
  BY PhaseNumbers DEF Snapshot, Planned
<1>2. CASE m.version - 1 \in Phases
  <2>1. m.current <= m.version - 1
    BY <1>1 DEF Straight
  <2>2. m.steps[m.version - 1] = "PENDING"
    BY <1>1, <1>2 DEF Straight
  <2>3. \A q \in Phases : q < m.version - 1 => m.steps[q] \in Passed
    BY DEF Straight
  <2>4. QED
    BY <1>2, <2>1, <2>2, <2>3, NextIs
<1>3. CASE m.version - 1 \notin Phases
  <2>1. \A q \in Phases : q < m.version - 1
    BY <1>1, <1>3, PhaseNumbers
  <2>2. \A q \in Phases : m.steps[q] \in Passed
    BY <2>1 DEF Straight
  <2>3. QED
    BY <1>3, <2>2, NextNone DEF Passed
<1>4. QED
  BY <1>2, <1>3

(***************************************************************************)
(* Sessions.                                                               *)
(***************************************************************************)

(* A session is still backed when its mission is stored anew, or more is   *)
(* authorized on it.                                                       *)
LEMMA BackedStays ==
  ASSUME NEW w, NEW d, NEW records, Backed(w, d, records),
         NEW e, NEW more, records \subseteq more,
         e.intent = d.intent, d.version >= 2 => e.version >= 2
  PROVE  Backed(w, e, more)
<1>1. Carries(w, e, more)
  BY GoodStays DEF Backed, Carries
<1>2. w.op \notin {"start", "plan"} => Entitled(w, e, more)
  BY EarnedStays DEF Backed, Entitled
<1>3. w.op \notin {"start", "plan"} /\ Linear(e) => OnLine(w, e, more)
  BY EarnedStays DEF Backed, OnLine, Linear
<1>4. QED
  BY <1>1, <1>2, <1>3 DEF Backed

(* A session moves, while missions are created, moved on or authorized.    *)
LEMMA AuthMoves ==
  ASSUME TypeInv, AuthInv, NEW s \in Sessions, NEW v, Become(s, v),
         \A m \in DOMAIN snapshots :
           /\ m \in DOMAIN snapshots'
           /\ snapshots'[m].intent = snapshots[m].intent
           /\ snapshots[m].version >= 2 => snapshots'[m].version >= 2,
         \A m \in Missions : authorizations[m] \subseteq authorizations'[m],
         StoredGood',
         v.pc = "start" => Beginning(v),
         v.pc \notin Away => Backed(v, snapshots'[v.mission], authorizations'[v.mission])
  PROVE  AuthInv'
<1>1. /\ sess'[s] = v
      /\ \A t \in Sessions \ {s} : sess'[t] = sess[t]
  BY DEF TypeInv, SessionsOK, Become
<1>2. ASSUME NEW t \in Sessions \ {s}
      PROVE  /\ sess[t].pc = "start" => Beginning(sess[t])
             /\ sess[t].pc \notin Away =>
                  Backed(sess[t], snapshots'[sess[t].mission],
                         authorizations'[sess[t].mission])
  <2>1. sess[t].pc = "start" => Beginning(sess[t])
    BY DEF AuthInv, SessionsBacked
  <2>2. ASSUME sess[t].pc \notin Away
        PROVE  Backed(sess[t], snapshots'[sess[t].mission],
                      authorizations'[sess[t].mission])
    <3>1. Backed(sess[t], snapshots[sess[t].mission], authorizations[sess[t].mission])
      BY <2>2 DEF AuthInv, SessionsBacked
    <3>2. sess[t].mission \in DOMAIN snapshots /\ sess[t].mission \in Missions
      BY <2>2 DEF TypeInv, AllPlaced, Placed, SnapshotsOK, Documents
    <3>3. QED
      BY <3>1, <3>2, BackedStays
  <2>3. QED
    BY <2>1, <2>2
<1>3. SessionsBacked'
  BY <1>1, <1>2 DEF SessionsBacked
<1>4. QED
  BY <1>3 DEF AuthInv

(* A session moves, and the stores of missions and authorizations stay.    *)
LEMMA AuthWork ==
  ASSUME TypeInv, AuthInv, NEW s \in Sessions, NEW v, Become(s, v),
         UNCHANGED <<snapshots, authorizations>>,
         v.pc = "start" => Beginning(v),
         v.pc \notin Away => Backed(v, snapshots[v.mission], authorizations[v.mission])
  PROVE  AuthInv'
<1>1. StoredGood'
  BY DEF AuthInv, StoredGood
<1>2. QED
  BY <1>1, AuthMoves

LEMMA AuthFinish ==
  ASSUME TypeInv, AuthInv, NEW s \in Sessions, Finish(s),
         UNCHANGED <<snapshots, authorizations>>
  PROVE  AuthInv'
<1>1. Idle.pc = "idle"
  BY DEF Idle
<1>2. QED
  BY <1>1, AuthWork DEF Finish, Away

(* What is known of a session at work. *)
LEMMA AtWork ==
  ASSUME TypeInv, AuthInv, NEW s \in Sessions, sess[s].pc \notin Away
  PROVE  LET w == sess[s] IN
         /\ w \in Session /\ Placed(w, DOMAIN snapshots)
         /\ w.mission \in DOMAIN snapshots /\ w.mission \in Missions
         /\ snapshots[w.mission] \in Snapshot
         /\ Good(authorizations[w.mission], snapshots[w.mission])
         /\ Backed(w, snapshots[w.mission], authorizations[w.mission])
  BY DEF TypeInv, SessionsOK, AllPlaced, Placed, SnapshotsOK, Documents,
         AuthInv, StoredGood, SessionsBacked

LEMMA AuthInit == Init => AuthInv
<1>1. Idle.pc = "idle"
  BY DEF Idle
<1>2. Init => StoredGood /\ SessionsBacked
  BY <1>1 DEF Init, StoredGood, SessionsBacked, Away
<1>3. QED
  BY <1>2 DEF AuthInv

(* A run that knows its mission prepares the step its snapshot is at.      *)
LEMMA PreparedBacked ==
  ASSUME NEW run \in Runs, NEW m \in Missions, NEW b \in BOOLEAN, NEW records,
         NEW d \in Snapshot, Good(records, d),
         NEW e \in Snapshot, e.intent = d.intent, d.version >= 2 => e.version >= 2
  PROVE  LET v == Prepared(run, m, d, b) IN
         /\ v.pc # "start"
         /\ v.pc \notin Away => Backed(v, e, records) /\ v.mission = m
<1> DEFINE prepared == derivePreparedStep(d)
           at == [Idle EXCEPT !.mission = m, !.phase = prepared.phase,
                              !.run = run, !.base = d]
           v  == Prepared(run, m, d, b)
<1>0. /\ Idle \in Session /\ Idle.pc = "idle" /\ Idle.alarm = FALSE
  BY IdleOK DEF Idle
<1>1. /\ prepared.disposition # "NONE" =>
           prepared.phase \in Phases /\ prepared.phase = nextPendingPhase(d)
      /\ prepared.disposition = "SKIP" => prepared.phase \in Conditional(d.intent)
      /\ prepared.disposition = "SKIP" => d.status \notin Waiting
      /\ prepared.disposition = "RUN" =>
           prepared.phase \notin Conditional(d.intent) \/ hasTriggeringCondition(d)
  BY PreparedStep
<1>2. prepared.disposition = "WAIT" => d.status \in Waiting
  BY DEF derivePreparedStep, Nothing
<1>3. v = Idle \/ (/\ v.mission = m /\ v.phase = prepared.phase /\ v.base = d
                   /\ v.alarm = FALSE)
  BY <1>0 DEF Prepared, Session
<1>4. \/ v = Idle
      \/ /\ v.pc = "refresh" /\ v.op = "skip" /\ prepared.disposition = "SKIP"
      \/ /\ v.pc = "get" /\ v.op = "resume" /\ prepared.disposition = "WAIT"
      \/ /\ v.pc = "authorize" /\ v.op = "resolve" /\ prepared.disposition = "WAIT"
         /\ prepared.phase = APPROVE
      \/ /\ v.pc = "authorize" /\ v.op = "run" /\ prepared.disposition = "RUN"
  BY <1>0, <1>1 DEF Prepared, Session, Resolves
<1> HIDE DEF prepared, at, v
<1>5. d.version \in Nat /\ d.version >= 1 /\ d.intent \in CHAIN_INTENTS
  BY DEF Good, Snapshot
<1>6. CASE v = Idle
  BY <1>0, <1>6 DEF v, Away
<1>7. CASE v # Idle
  <2>1. d.version # 1
    <3> SUFFICES ASSUME d.version = 1 PROVE FALSE
      OBVIOUS
    <3>1. Fresh(d)
      BY DEF Good
    <3>2. nextPendingPhase(d) = NoPhase
      BY <3>1, NextNone DEF Fresh
    <3>3. prepared.disposition = "NONE"
      BY <1>1, <3>2, PhaseNumbers DEF prepared, derivePreparedStep, Nothing
    <3>4. QED
      BY <1>4, <1>7, <3>3
  <2>2. d.version >= 2 /\ e.version >= 2 /\ Planned(d)
    BY <1>5, <2>1 DEF Good
  <2>3. Earned(records, INTAKE) \/ (v.phase = INTAKE /\ v.pc = "authorize")
    <3>1. CASE d.version >= 3
      BY <3>1 DEF Good
    <3>2. CASE d.version = 2
      <4>1. Untouched(d)
        BY <3>2 DEF Good
      <4>2. d.steps[INTAKE] = "PENDING" /\ d.current = INTAKE
        BY <4>1, PhaseNumbers DEF Untouched
      <4>3. nextPendingPhase(d) = INTAKE
        BY <4>2, NextIs, PhaseNumbers
      <4>4. INTAKE \notin Conditional(d.intent)
        BY <1>5, ConditionalOf
      <4>5. d.status \notin Waiting
        BY <4>1 DEF Untouched, Waiting
      <4>6. QED
        BY <1>1, <1>2, <1>3, <1>4, <1>7, <4>3, <4>4, <4>5
    <3>3. QED
      BY <1>5, <2>2, <3>1, <3>2
  <2>4. Entitled(v, e, records)
    BY <1>1, <1>3, <1>4, <1>7, <2>2, <2>3 DEF Entitled, Asking
  <2>5. Carries(v, e, records)
    BY <1>4, <1>7 DEF Carries
  <2>6. ASSUME Linear(e) PROVE OnLine(v, e, records)
    <3>1. Linear(d) /\ Straight(d)
      BY <2>2, <2>6 DEF Good, Linear
    <3>2. d.status \notin Waiting /\ ~hasTriggeringCondition(d)
      BY <3>1 DEF Straight, Waiting, hasTriggeringCondition
    <3>3. v.op \in {"skip", "run"} /\ prepared.disposition # "NONE"
      BY <1>2, <1>4, <1>7, <3>2
    <3>4. nextPendingPhase(d) # NoPhase
      BY <1>1, <3>3, PhaseNumbers
    <3>5. v.phase = d.version - 1
      BY <1>1, <1>3, <1>7, <2>2, <3>1, <3>3, <3>4, StraightNext
    <3>6. v.op = "run" => v.phase \notin Conditional(d.intent)
      BY <1>1, <1>3, <1>4, <1>7, <3>2
    <3>7. QED
      BY <1>3, <1>7, <3>3, <3>5, <3>6 DEF OnLine
  <2>7. v.pc # "start"
    BY <1>4, <1>7
  <2>8. QED
    BY <1>3, <1>7, <2>4, <2>5, <2>6, <2>7 DEF Backed, v
<1>8. QED
  BY <1>6, <1>7

LEMMA AuthBegin ==
  ASSUME TypeInv, AuthInv, NEW s \in Sessions, NEW i \in Intents, NEW r \in Runs,
         Begin(s, i, r)
  PROVE  AuthInv'
<1>1. UNCHANGED <<snapshots, authorizations>>
  BY DEF Begin, FindMission, FindNone, missionStores, grants
<1>2. CASE FindMission(s, i, r)
  <2>1. PICK m \in Active(i) : Become(s, Prepared(r, m, snapshots[m], FALSE))
    BY <1>2 DEF FindMission
  <2>2. m \in DOMAIN snapshots /\ m \in Missions /\ snapshots[m] \in Snapshot
        /\ Good(authorizations[m], snapshots[m])
    BY DEF Active, TypeInv, SnapshotsOK, Documents, AuthInv, StoredGood
  <2> DEFINE v == Prepared(r, m, snapshots[m], FALSE)
  <2> HIDE DEF v
  <2>3. /\ v.pc # "start"
        /\ v.pc \notin Away => /\ Backed(v, snapshots[m], authorizations[m])
                               /\ v.mission = m
    <3>1. ASSUME NEW b \in BOOLEAN
          PROVE  LET u == Prepared(r, m, snapshots[m], b) IN
                 /\ u.pc # "start"
                 /\ u.pc \notin Away => /\ Backed(u, snapshots[m], authorizations[m])
                                        /\ u.mission = m
      BY <2>2, PreparedBacked
    <3>2. QED
      BY <3>1 DEF v
  <2>4. QED
    BY <1>1, <2>1, <2>3, AuthWork DEF v
<1>3. CASE FindNone(s, i, r)
  <2> DEFINE v == [Idle EXCEPT !.pc = "start", !.op = "start", !.run = r,
                               !.next = Started(i)]
  <2>1. v.pc = "start" /\ v.op = "start" /\ v.next = Started(i)
    BY DEF Idle
  <2>2. Beginning(v)
    BY <2>1, ChainIntentsAssumption DEF Beginning, Fresh, Started
  <2>3. Become(s, v)
    BY <1>3 DEF FindNone
  <2> HIDE DEF v
  <2>4. QED
    BY <1>1, <2>1, <2>2, <2>3, AuthWork DEF Away
<1>4. QED
  BY <1>2, <1>3 DEF Begin

LEMMA AuthStart ==
  ASSUME TypeInv, AuthInv, NEW s \in Sessions, NEW m \in Missions, StartMission(s, m)
  PROVE  AuthInv'
<1> DEFINE w == sess[s]
           v == [w EXCEPT !.pc = "append", !.mission = m]
<1>0. /\ w.pc = "start" /\ Beginning(w) /\ w \in Session
      /\ m \notin DOMAIN snapshots /\ snapshots' = Put(snapshots, m, w.next)
      /\ Become(s, v) /\ UNCHANGED authorizations
  BY DEF StartMission, AuthInv, SessionsBacked, TypeInv, SessionsOK, grants
<1>1. v.pc = "append" /\ v.mission = m /\ v.op = "start" /\ v.next = w.next
  BY <1>0 DEF Session, Beginning
<1>2. /\ DOMAIN snapshots' = DOMAIN snapshots \cup {m} /\ snapshots'[m] = w.next
      /\ \A n \in DOMAIN snapshots : snapshots'[n] = snapshots[n]
  BY <1>0 DEF Put
<1>3. Good(authorizations[m], w.next)
  BY <1>0 DEF Beginning, Good, Covered, Fresh
<1>4. StoredGood'
  BY <1>0, <1>2, <1>3 DEF AuthInv, StoredGood
<1>5. Backed(v, snapshots'[v.mission], authorizations'[v.mission])
  BY <1>0, <1>1, <1>2, <1>3 DEF Backed, Carries, Beginning
<1> HIDE DEF v
<1>6. QED
  BY <1>0, <1>1, <1>2, <1>4, <1>5, AuthMoves DEF Away

(***************************************************************************)
(* Authorization and gates.                                                *)
(***************************************************************************)
LEMMA AuthAsk ==
  ASSUME TypeInv, AuthInv, NEW s \in Sessions,
         FindAuthorization(s) \/ ScopeBound(s) \/ CheckConflict(s)
  PROVE  AuthInv'
<1> DEFINE w == sess[s]
<1>0. /\ w.pc \in {"authorize", "bound", "grant"}
      /\ UNCHANGED <<snapshots, authorizations>>
  BY DEF FindAuthorization, ScopeBound, CheckConflict, missionStores, grants
<1>1. /\ w \in Session /\ w.op \in {"run", "resolve"} /\ w.pc \notin Away
      /\ Backed(w, snapshots[w.mission], authorizations[w.mission])
  BY <1>0, AtWork DEF Placed, Away
<1>2. ASSUME NEW pc \in {"bound", "grant", "enter", "gates"}, Goto(s, pc),
             pc = "gates" => Bound(w) \in authorizations[w.mission]
      PROVE  AuthInv'
  <2> DEFINE v == [w EXCEPT !.pc = pc]
  <2>1. /\ v.pc = pc /\ v.op = w.op /\ v.mission = w.mission /\ v.phase = w.phase
        /\ v.run = w.run /\ v.base = w.base /\ v.alarm = w.alarm
    BY <1>1 DEF Session
  <2>2. Become(s, v)
    BY <1>2 DEF Goto
  <2> HIDE DEF v
  <2>3. Carries(v, snapshots[w.mission], authorizations[w.mission])
    BY <1>1, <1>2, <2>1 DEF Carries
  <2>4. Entitled(v, snapshots[w.mission], authorizations[w.mission])
    BY <1>0, <1>1, <1>2, <2>1 DEF Backed, Entitled, Asking, Bound, Family
  <2>5. Linear(snapshots[w.mission]) =>
          OnLine(v, snapshots[w.mission], authorizations[w.mission])
    BY <1>1, <2>1 DEF Backed, OnLine
  <2>6. v.pc # "start"
    BY <1>2, <2>1
  <2>7. QED
    BY <1>0, <2>1, <2>2, <2>3, <2>4, <2>5, <2>6, AuthWork DEF Backed
<1>3. \/ Finish(s)
      \/ \E pc \in {"bound", "grant", "enter", "gates"} :
           Goto(s, pc) /\ (pc = "gates" => Bound(w) \in authorizations[w.mission])
  BY DEF FindAuthorization, ScopeBound, CheckConflict, CannotRead
<1>4. QED
  BY <1>0, <1>2, <1>3, AuthFinish

LEMMA AuthGrant ==
  ASSUME TypeInv, AuthInv, NEW s \in Sessions, AppendAuthorization(s)
  PROVE  AuthInv'
<1> DEFINE w == sess[s]
           v == [w EXCEPT !.pc = "gates"]
<1>0. /\ w.pc = "enter" /\ UNCHANGED snapshots /\ Become(s, v)
      /\ authorizations'
           = [authorizations EXCEPT ![w.mission] = @ \cup {Bound(w)}]
  BY DEF AppendAuthorization, Goto, missionStores
<1>1. /\ w \in Session /\ w.op \in {"run", "resolve"} /\ w.mission \in Missions
      /\ w.mission \in DOMAIN snapshots
      /\ Backed(w, snapshots[w.mission], authorizations[w.mission])
  BY <1>0, AtWork DEF Placed, Away
<1>2. /\ \A m \in Missions : authorizations[m] \subseteq authorizations'[m]
      /\ Bound(w) \in authorizations'[w.mission]
  BY <1>0, <1>1 DEF TypeInv, GrantsOK
<1>3. /\ v.pc = "gates" /\ v.op = w.op /\ v.mission = w.mission /\ v.phase = w.phase
      /\ v.run = w.run /\ v.base = w.base /\ v.alarm = w.alarm
  BY <1>1 DEF Session
<1> HIDE DEF v
<1>4. Backed(w, snapshots[w.mission], authorizations'[w.mission])
  BY <1>1, <1>2, BackedStays
<1>5. Backed(v, snapshots[w.mission], authorizations'[w.mission])
  <2>1. Carries(v, snapshots[w.mission], authorizations'[w.mission])
    BY <1>1, <1>3 DEF Carries
  <2>2. Entitled(v, snapshots[w.mission], authorizations'[w.mission])
    BY <1>0, <1>1, <1>2, <1>3, <1>4 DEF Backed, Entitled, Asking, Bound, Family
  <2>3. Linear(snapshots[w.mission]) =>
          OnLine(v, snapshots[w.mission], authorizations'[w.mission])
    BY <1>1, <1>3, <1>4 DEF Backed, OnLine
  <2>4. QED
    BY <2>1, <2>2, <2>3 DEF Backed
<1>6. StoredGood'
  <2> SUFFICES ASSUME NEW m \in DOMAIN snapshots
               PROVE  Good(authorizations'[m], snapshots[m])
    BY <1>0 DEF StoredGood
  <2>1. m \in Missions /\ Good(authorizations[m], snapshots[m])
    BY DEF AuthInv, StoredGood, TypeInv, SnapshotsOK, Documents
  <2>2. QED
    BY <1>2, <2>1, GoodStays
<1>7. QED
  BY <1>0, <1>2, <1>3, <1>5, <1>6, AuthMoves

(* Whoever gets past the first gate has the mode its family requires.      *)
LEMMA PassedMode ==
  ASSUME NEW r, r.mode \in Int, ACTION_REQUIRED_MODE[r.family] \in Int,
         FirstBlocked(r) # "mode"
  PROVE  r.mode >= ACTION_REQUIRED_MODE[r.family]
<1> DEFINE stops == {i \in DOMAIN Stages : Blocks(Stages[i], r)}
           First(i) == i \in stops /\ \A j \in stops : i <= j
<1>1. DOMAIN Stages = 1 .. 5 /\ Stages[1] = "mode"
  BY DEF Stages
<1>2. ASSUME 1 \in stops PROVE FALSE
  <2>1. First(1)
    BY <1>1, <1>2
  <2>2. First(CHOOSE i \in stops : \A j \in stops : i <= j)
    BY <2>1
  <2>3. (CHOOSE i \in stops : \A j \in stops : i <= j) = 1
    BY <1>1, <1>2, <2>2
  <2>4. FirstBlocked(r) = "mode"
    BY <1>1, <1>2, <2>3 DEF FirstBlocked
  <2>5. QED
    BY <2>4
<1>3. ~Blocks("mode", r)
  BY <1>1, <1>2
<1>4. QED
  BY <1>3 DEF Blocks

(* A run that passed the gates has earned its phase.                       *)
LEMMA AllowedEarned ==
  ASSUME NEW w \in Session, w.run \in Runs, w.phase \in Phases, NEW records,
         Bound(w) \in records, FirstBlocked(RequestOf(w)) = "none"
  PROVE  Earned(records, w.phase)
<1>1. w.run.scope \in Scopes
  BY RunsAssumption DEF Run
<1>2. ModeOf[w.run.scope] \in 0 .. 3
  BY <1>1, ScopesAssumption DEF AuthorityMode, ASK, EXECUTE_MODE
<1>3. ACTION_REQUIRED_MODE[Family(w)] \in 0 .. 3
  BY FamilyType DEF Family, ACTION_FAMILY, ACTION_REQUIRED_MODE, ASK, ANALYZE, PREPARE,
                    EXECUTE_MODE
<1>4. RequestOf(w).mode = ModeOf[w.run.scope] /\ RequestOf(w).family = Family(w)
  BY DEF RequestOf
<1>5. ModeOf[w.run.scope] >= ACTION_REQUIRED_MODE[Family(w)]
  BY <1>2, <1>3, <1>4, PassedMode
<1>6. QED
  BY <1>5 DEF Earned, Bound, Family

LEMMA AuthGates ==
  ASSUME TypeInv, AuthInv, NEW s \in Sessions, Allowed(s) \/ GateBlock(s) \/ Blocked(s)
  PROVE  AuthInv'
<1> DEFINE w == sess[s]
           d == snapshots[w.mission]
           records == authorizations[w.mission]
<1>0. w.pc = "gates" /\ UNCHANGED <<snapshots, authorizations>>
  BY DEF Allowed, GateBlock, Blocked, missionStores, grants
<1>1. /\ w \in Session /\ w.op \in {"run", "resolve"} /\ w.run \in Runs
      /\ w.phase \in Phases /\ Backed(w, d, records) /\ Good(records, d)
      /\ d \in Snapshot
  BY <1>0, AtWork DEF Placed, Away
<1> HIDE DEF d, records
<1>2. /\ Entitled(w, d, records) /\ (Linear(d) => OnLine(w, d, records))
      /\ Bound(w) \in records /\ (w.op = "resolve" => w.phase = APPROVE)
  BY <1>0, <1>1 DEF Backed, Entitled
<1>3. ASSUME NEW v \in Session, Become(s, v), v.mission = w.mission, v.run = w.run,
             v.phase = w.phase, v.base = w.base, v.alarm = w.alarm,
             \/ v.pc = "compute" /\ v.op = "run" /\ Earned(records, w.phase)
             \/ /\ v.pc = "get" /\ v.op \in {"resolve", "approve"}
                /\ Earned(records, APPROVE) /\ w.phase = APPROVE
             \/ v.pc = "get" /\ v.op = "gate",
             Earned(records, INTAKE),
             Linear(d) => v.op = "run" /\ OnLine(w, d, records) /\ w.op = "run"
      PROVE  AuthInv'
  <2>1. Carries(v, d, records)
    BY <1>3 DEF Carries
  <2>2. Entitled(v, d, records)
    BY <1>2, <1>3 DEF Entitled
  <2>3. Linear(d) => OnLine(v, d, records)
    BY <1>3 DEF OnLine
  <2>4. v.pc # "start"
    BY <1>3
  <2>5. Backed(v, d, records)
    BY <2>1, <2>2, <2>3 DEF Backed
  <2>6. QED
    BY <1>0, <1>3, <2>4, <2>5, AuthWork DEF d, records
<1>4. CASE Blocked(s)
  BY <1>0, <1>4, AuthFinish DEF Blocked
<1>5. CASE GateBlock(s)
  <2> DEFINE v == [w EXCEPT !.pc = "get", !.op = "gate"]
  <2>1. v \in Session
    BY <1>1, MoveType, PointsAndOperations
  <2>2. /\ v.pc = "get" /\ v.op = "gate" /\ v.mission = w.mission /\ v.run = w.run
        /\ v.phase = w.phase /\ v.base = w.base /\ v.alarm = w.alarm
    BY <1>1 DEF Session
  <2>3. Become(s, v) /\ w.op = "run" /\ w.phase = APPROVE
    BY <1>5 DEF GateBlock, RecordsBlock
  <2>4. Earned(records, INTAKE)
    BY <1>2, <2>3, PhaseNumbers DEF Entitled
  <2>5. ~Linear(d)
    BY <1>1, <1>2, <2>3, ConditionalOf DEF OnLine, Good
  <2> HIDE DEF v
  <2>6. QED
    BY <1>3, <2>1, <2>2, <2>3, <2>4, <2>5
<1>6. CASE Allowed(s)
  <2> DEFINE run == [w EXCEPT !.pc = "compute"]
             approve == [w EXCEPT !.pc = "get", !.op = "approve"]
             resolve == [w EXCEPT !.pc = "get"]
  <2>1. run \in Session /\ approve \in Session /\ resolve \in Session
    BY <1>1, MoveType, PointsAndOperations
  <2>2. \A v \in {run, approve, resolve} :
          /\ v.mission = w.mission /\ v.phase = w.phase /\ v.run = w.run
          /\ v.base = w.base /\ v.alarm = w.alarm
    BY <1>1 DEF Session
  <2>3. /\ run.pc = "compute" /\ run.op = w.op
        /\ approve.pc = "get" /\ approve.op = "approve"
        /\ resolve.pc = "get" /\ resolve.op = w.op
    BY <1>1 DEF Session
  <2>4. \/ w.op = "run" /\ Become(s, run)
        \/ w.op # "run" /\ Become(s, approve)
        \/ w.op # "run" /\ Become(s, resolve)
    BY <1>6 DEF Allowed
  <2>5. Earned(records, w.phase)
    BY <1>1, <1>2, <1>6, AllowedEarned DEF Allowed
  <2>6. Earned(records, INTAKE)
    BY <1>2, <2>5 DEF Entitled
  <2> HIDE DEF run, approve, resolve
  <2>7. CASE w.op = "run" /\ Become(s, run)
    BY <1>2, <1>3, <2>1, <2>2, <2>3, <2>5, <2>6, <2>7
  <2>8. CASE w.op # "run"
    <3>1. w.op = "resolve" /\ w.phase = APPROVE
      BY <1>1, <1>2, <2>8
    <3>2. ~Linear(d)
      BY <1>2, <3>1 DEF OnLine
    <3>3. Become(s, approve) \/ Become(s, resolve)
      BY <2>4, <2>8
    <3>4. QED
      BY <1>3, <2>1, <2>2, <2>3, <2>5, <2>6, <3>1, <3>2, <3>3
  <2>9. QED
    BY <2>4, <2>7, <2>8
<1>7. QED
  BY <1>4, <1>5, <1>6

(***************************************************************************)
(* The chain's computation, and phaseOnlyUpdate.                           *)
(***************************************************************************)
LEMMA AuthCompute ==
  ASSUME TypeInv, AuthInv, NEW s \in Sessions,
         ComputeThrows(s) \/ ComputeWaits(s) \/ ComputeDone(s)
  PROVE  AuthInv'
<1> DEFINE w == sess[s]
           d == snapshots[w.mission]
           records == authorizations[w.mission]
<1>0. w.pc = "compute" /\ UNCHANGED <<snapshots, authorizations>>
  BY DEF ComputeThrows, ComputeWaits, ComputeDone, missionStores, grants
<1>1. /\ w \in Session /\ w.op = "run" /\ w.phase \in Phases
      /\ Backed(w, d, records) /\ Good(records, d) /\ d \in Snapshot
  BY <1>0, AtWork DEF Placed, Away
<1> HIDE DEF d, records
<1>2. /\ Entitled(w, d, records) /\ (Linear(d) => OnLine(w, d, records))
      /\ Earned(records, INTAKE) /\ Earned(records, w.phase)
  BY <1>0, <1>1 DEF Backed, Entitled, Asking
<1>3. Linear(d) => /\ w.base.intent \in {"verify", "evidence"}
                   /\ w.phase # APPROVE
  BY <1>1, <1>2, ConditionalOf DEF OnLine, Linear, HARNESS_INTENTS, Good
<1>4. ASSUME NEW v, Become(s, v), v.mission = w.mission, v.phase = w.phase,
             v.base = w.base, Linear(d) => ~v.alarm,
             \/ v.pc = "get" /\ v.op = "wait" /\ ~Linear(d)
             \/ v.pc = "get" /\ v.op = "ask" /\ w.phase = APPROVE
             \/ /\ v.pc = "get" /\ v.op = "apply"
                /\ w.phase \in {INTAKE, BIND_SCOPE, ARCHIVE}
             \/ /\ v.pc = "refresh" /\ v.op = "run"
                /\ w.phase \notin {INTAKE, BIND_SCOPE, APPROVE, ARCHIVE}
      PROVE  AuthInv'
  <2>1. Carries(v, d, records)
    BY <1>4 DEF Carries
  <2>2. Entitled(v, d, records)
    BY <1>2, <1>4 DEF Entitled
  <2>3. Linear(d) => OnLine(v, d, records)
    BY <1>1, <1>2, <1>3, <1>4 DEF OnLine
  <2>4. v.pc # "start"
    BY <1>4
  <2>5. Backed(v, d, records)
    BY <2>1, <2>2, <2>3 DEF Backed
  <2>6. QED
    BY <1>0, <1>4, <2>4, <2>5, AuthWork DEF d, records
<1>5. CASE ComputeThrows(s)
  BY <1>0, <1>5, AuthFinish DEF ComputeThrows
<1>6. CASE ComputeWaits(s)
  <2>1. PICK o \in Outputs : Become(s, [w EXCEPT !.pc = "get", !.op = "wait",
                                                 !.output = o])
    BY <1>6 DEF ComputeWaits
  <2> DEFINE v == [w EXCEPT !.pc = "get", !.op = "wait", !.output = o]
  <2>2. /\ v.pc = "get" /\ v.op = "wait" /\ v.mission = w.mission
        /\ v.phase = w.phase /\ v.base = w.base /\ v.alarm = w.alarm
    BY <1>1 DEF Session
  <2>3. ~Linear(d)
    BY <1>3, <1>6 DEF ComputeWaits, MayWait
  <2> HIDE DEF v
  <2>4. QED
    BY <1>4, <2>1, <2>2, <2>3 DEF v
<1>7. CASE ComputeDone(s)
  <2> DEFINE warranted == Warrants(w.base.intent, w.phase)
             receipt == IF warranted THEN minted' ELSE 0
  <2>1. PICK o \in Outputs, alarm \in {FALSE, MayAlarm(w.base.intent, w.phase)} :
          Become(s, CASE w.phase \in {INTAKE, BIND_SCOPE, ARCHIVE} ->
                           [[w EXCEPT !.output = o, !.alarm = alarm,
                                      !.receipt = receipt]
                              EXCEPT !.pc = "get", !.op = "apply"]
                      [] w.phase = APPROVE ->
                           [[w EXCEPT !.output = o, !.alarm = alarm,
                                      !.receipt = receipt]
                              EXCEPT !.pc = "get", !.op = "ask"]
                      [] OTHER -> [[w EXCEPT !.output = o, !.alarm = alarm,
                                             !.receipt = receipt]
                                     EXCEPT !.pc = "refresh"])
    BY <1>7 DEF ComputeDone
  <2> HIDE DEF receipt
  <2> DEFINE applies == [w EXCEPT !.output = o, !.alarm = alarm, !.receipt = receipt,
                                  !.pc = "get", !.op = "apply"]
             asks    == [w EXCEPT !.output = o, !.alarm = alarm, !.receipt = receipt,
                                  !.pc = "get", !.op = "ask"]
             writes  == [w EXCEPT !.output = o, !.alarm = alarm, !.receipt = receipt,
                                  !.pc = "refresh"]
  <2>2. \/ w.phase \in {INTAKE, BIND_SCOPE, ARCHIVE} /\ Become(s, applies)
        \/ w.phase = APPROVE /\ Become(s, asks)
        \/ w.phase \notin {INTAKE, BIND_SCOPE, APPROVE, ARCHIVE} /\ Become(s, writes)
    BY <2>1, PhaseNumbers
  <2>3. /\ \A v \in {applies, asks, writes} :
             /\ v.mission = w.mission /\ v.phase = w.phase /\ v.base = w.base
             /\ v.alarm = alarm
        /\ applies.pc = "get" /\ applies.op = "apply"
        /\ asks.pc = "get" /\ asks.op = "ask"
        /\ writes.pc = "refresh" /\ writes.op = "run"
    BY <1>1 DEF Session
  <2>4. Linear(d) => ~alarm
    BY <1>3 DEF MayAlarm
  <2> HIDE DEF applies, asks, writes
  <2>5. QED
    BY <1>4, <2>2, <2>3, <2>4
<1>8. QED
  BY <1>5, <1>6, <1>7

(* What a phase-only update writes. *)
LEMMA GoodUpdate ==
  ASSUME NEW w \in Session, NEW d \in Snapshot, NEW records,
         Good(records, d), Backed(w, d, records), d.version = w.base.version,
         w.pc = "refresh", w.op \in {"plan", "skip", "run", "note", "approved"},
         w.op # "plan" => w.phase \in Phases
  PROVE  LET n == Bump(Mutated(w, d)) IN
         Good(records, n) /\ n.version >= 2 /\ n.intent = d.intent
<1> DEFINE n == Bump(Mutated(w, d))
<1>0. d.version \in Nat /\ d.intent \in CHAIN_INTENTS
  BY DEF Snapshot, Good
<1>1. CASE w.op = "plan"
  <2>1. d.version = 1 /\ n = Bump(WithPlan(d))
    BY <1>1 DEF Backed, Carries, Mutated
  <2>2. QED
    BY <2>1, GoodPlan
<1>2. ASSUME w.op # "plan"
      PROVE  /\ w.phase \in Phases /\ d.version >= 2 /\ Entitled(w, d, records)
             /\ Earned(records, INTAKE) /\ (Linear(d) => OnLine(w, d, records))
             /\ (Linear(d) => Straight(d) /\ w.phase = d.version - 1)
  BY <1>2 DEF Backed, Entitled, Asking, OnLine, Good
<1>3. CASE w.op = "skip"
  <2>1. /\ n.steps = [d.steps EXCEPT ![w.phase] = "SKIPPED"] /\ n.current = w.phase
        /\ n.version = d.version + 1 /\ n.intent = d.intent /\ n.status = d.status
        /\ n.alarmed = d.alarmed /\ n.proposal = d.proposal
    BY <1>3 DEF Mutated, completeStep, Bump, Snapshot
  <2>2. w.phase \in Conditional(d.intent)
    BY <1>2, <1>3 DEF Entitled
  <2>3. "SKIPPED" \in Passed /\ (Linear(d) => Straight(d))
    BY <1>2, <1>3 DEF Passed
  <2> HIDE DEF n
  <2>4. Good(records, n)
    BY <1>2, <1>3, <2>1, <2>2, <2>3, GoodMark DEF Straight
  <2>5. QED
    BY <1>0, <1>2, <1>3, <2>1, <2>4 DEF n
<1>4. CASE w.op = "run"
  <2> DEFINE c == Completed(w, d)
  <2>1. /\ c.steps = [d.steps EXCEPT ![w.phase] = "COMPLETED"] /\ c.current = w.phase
        /\ c.version = d.version /\ c.intent = d.intent /\ c.status = d.status
        /\ c.alarmed = (d.alarmed \/ w.alarm)
        /\ c.proposal = (d.proposal \/ w.phase = PROPOSE)
    BY DEF Completed, completeStep, Snapshot
  <2>2. /\ n = [c EXCEPT !.version = c.version + 1]
        /\ c = [c EXCEPT !.version = c.version]
    BY <1>4 DEF Mutated, Bump, Completed, completeStep, Snapshot
  <2>3. c \in Snapshot
    BY <1>2, <1>4, MutatedType DEF Mutated
  <2> HIDE DEF c, n
  <2>4. /\ n.steps = c.steps /\ n.current = c.current /\ n.version = c.version + 1
        /\ n.intent = c.intent /\ n.status = c.status /\ n.alarmed = c.alarmed
        /\ n.proposal = c.proposal
    BY <2>2, <2>3 DEF Snapshot
  <2>5. Earned(records, w.phase)
    BY <1>2, <1>4 DEF Entitled
  <2>6. Linear(d) => ~w.alarm /\ w.phase # PROPOSE /\ Straight(d)
    BY <1>0, <1>2, <1>4, ConditionalOf DEF OnLine
  <2>7. Linear(d) => n.status \in {"DRAFT", "QUEUED", "RUNNING", "COMPLETED"}
                     /\ ~n.alarmed /\ ~n.proposal
    BY <2>1, <2>4, <2>6 DEF Straight
  <2>8. "COMPLETED" \in Passed
    BY DEF Passed
  <2>9. Good(records, n)
    BY <1>2, <1>4, <2>1, <2>4, <2>5, <2>7, <2>8, GoodMark
  <2>10. QED
    BY <1>0, <1>2, <1>4, <2>1, <2>4, <2>9 DEF n
<1>5. CASE w.op = "note"
  <2>1. /\ n.steps = d.steps /\ n.current = d.current
        /\ n.version = d.version + 1 /\ n.intent = d.intent
    BY <1>5 DEF Mutated, Bump, Snapshot
  <2>2. ~Linear(d)
    BY <1>2, <1>5 DEF OnLine
  <2> HIDE DEF n
  <2>3. Good(records, n)
    BY <1>2, <1>5, <2>1, <2>2, GoodHold
  <2>4. QED
    BY <1>0, <1>2, <1>5, <2>1, <2>3 DEF n
<1>6. CASE w.op = "approved"
  <2>1. /\ n.steps = [d.steps EXCEPT ![APPROVE] = "COMPLETED"] /\ n.current = APPROVE
        /\ n.version = d.version + 1 /\ n.intent = d.intent
    BY <1>6 DEF Mutated, completeStep, Bump, Snapshot
  <2>2. ~Linear(d)
    BY <1>2, <1>6 DEF OnLine
  <2>3. Earned(records, APPROVE) /\ APPROVE \in Phases /\ "COMPLETED" \in Passed
    BY <1>2, <1>6, PhaseNumbers DEF Entitled, Asking, Passed
  <2> HIDE DEF n
  <2>4. Good(records, n)
    BY <1>2, <1>6, <2>1, <2>2, <2>3, GoodMark
  <2>5. QED
    BY <1>0, <1>2, <1>6, <2>1, <2>4 DEF n
<1>7. QED
  BY <1>1, <1>3, <1>4, <1>5, <1>6

LEMMA AuthRefresh ==
  ASSUME TypeInv, AuthInv, NEW s \in Sessions, Refresh(s)
  PROVE  AuthInv'
<1> DEFINE w == sess[s]
           d == snapshots[w.mission]
           records == authorizations[w.mission]
           n == Bump(Mutated(w, d))
           v == [w EXCEPT !.pc = "save", !.next = n]
<1>0. w.pc = "refresh" /\ UNCHANGED <<snapshots, authorizations>>
  BY DEF Refresh, missionStores, grants
<1>1. /\ w \in Session /\ w.op \in {"plan", "skip", "run", "note", "approved"}
      /\ (w.op # "plan" => w.phase \in Phases)
      /\ Backed(w, d, records) /\ Good(records, d) /\ d \in Snapshot
  BY <1>0, AtWork DEF Placed, Away
<1>2. CASE Finish(s)
  BY <1>0, <1>2, AuthFinish
<1>3. CASE d.version = w.base.version /\ Become(s, v)
  <2>1. Good(records, n) /\ n.version >= 2 /\ n.intent = d.intent
    BY <1>0, <1>1, <1>3, GoodUpdate
  <2> HIDE DEF n, d, records
  <2>2. /\ v.pc = "save" /\ v.op = w.op /\ v.mission = w.mission /\ v.phase = w.phase
        /\ v.base = w.base /\ v.alarm = w.alarm /\ v.next = n
    BY <1>1 DEF Session
  <2> HIDE DEF v
  <2>3. Carries(v, d, records)
    BY <1>0, <1>1, <2>1, <2>2 DEF Backed, Carries
  <2>4. v.op \notin {"start", "plan"} => Entitled(v, d, records)
    BY <1>0, <1>1, <2>2 DEF Backed, Entitled, Asking
  <2>5. v.op \notin {"start", "plan"} /\ Linear(d) => OnLine(v, d, records)
    BY <1>1, <2>2 DEF Backed, OnLine
  <2>6. Backed(v, d, records)
    BY <2>3, <2>4, <2>5 DEF Backed
  <2>7. QED
    BY <1>0, <1>3, <2>2, <2>6, AuthWork DEF d, records
<1>4. QED
  BY <1>2, <1>3 DEF Refresh

LEMMA AuthSave ==
  ASSUME TypeInv, AuthInv, NEW s \in Sessions, SaveSnapshot(s)
  PROVE  AuthInv'
<1> DEFINE w == sess[s]
           d == snapshots[w.mission]
           records == authorizations[w.mission]
           v == [w EXCEPT !.pc = "append"]
<1>0. /\ w.pc = "save" /\ UNCHANGED authorizations /\ Become(s, v)
      /\ snapshots' = Put(snapshots, w.mission, w.next)
  BY DEF SaveSnapshot, grants, Goto
<1>1. /\ w \in Session /\ w.mission \in DOMAIN snapshots
      /\ Backed(w, d, records)
  BY <1>0, AtWork DEF Away
<1>2. /\ Good(records, w.next) /\ w.next.intent = d.intent /\ w.next.version >= 2
      /\ w.op # "start"
  BY <1>0, <1>1 DEF Backed, Carries
<1>3. /\ DOMAIN snapshots' = DOMAIN snapshots /\ snapshots'[w.mission] = w.next
      /\ \A m \in DOMAIN snapshots \ {w.mission} : snapshots'[m] = snapshots[m]
  BY <1>0, <1>1 DEF Put
<1>4. StoredGood'
  BY <1>0, <1>2, <1>3 DEF AuthInv, StoredGood
<1>5. /\ v.pc = "append" /\ v.op = w.op /\ v.mission = w.mission /\ v.phase = w.phase
      /\ v.base = w.base /\ v.alarm = w.alarm /\ v.next = w.next
  BY <1>1 DEF Session
<1> HIDE DEF v
<1>6. Backed(w, w.next, records)
  BY <1>1, <1>2, BackedStays
<1>7. Backed(v, w.next, records)
  <2>1. Carries(v, w.next, records)
    BY <1>0, <1>2, <1>5, <1>6 DEF Backed, Carries
  <2>2. v.op \notin {"start", "plan"} => Entitled(v, w.next, records)
    BY <1>0, <1>5, <1>6 DEF Backed, Entitled, Asking
  <2>3. v.op \notin {"start", "plan"} /\ Linear(w.next) => OnLine(v, w.next, records)
    BY <1>5, <1>6 DEF Backed, OnLine
  <2>4. QED
    BY <2>1, <2>2, <2>3 DEF Backed
<1>8. \A m \in DOMAIN snapshots :
        /\ m \in DOMAIN snapshots' /\ snapshots'[m].intent = snapshots[m].intent
        /\ snapshots[m].version >= 2 => snapshots'[m].version >= 2
  BY <1>2, <1>3
<1>9. QED
  BY <1>0, <1>3, <1>4, <1>5, <1>7, <1>8, AuthMoves

(* What follows the event of a snapshot. *)
LEMMA AuthLog ==
  ASSUME TypeInv, AuthInv, NEW s \in Sessions, LogEvent(s)
  PROVE  AuthInv'
<1> DEFINE w == sess[s]
           d == snapshots[w.mission]
           records == authorizations[w.mission]
           plans   == [w EXCEPT !.pc = "refresh", !.op = "plan", !.base = w.next]
           begins  == Prepared(w.run, w.mission, w.next, TRUE)
           seals   == [w EXCEPT !.pc = "seal"]
           stores  == [w EXCEPT !.pc = "receipt"]
<1>0. w.pc = "append" /\ UNCHANGED <<snapshots, authorizations>>
  BY DEF LogEvent, grants
<1>1. /\ w \in Session /\ Placed(w, DOMAIN snapshots) /\ w.mission \in Missions
      /\ Backed(w, d, records) /\ Good(records, d) /\ d \in Snapshot
  BY <1>0, AtWork DEF Away
<1>2. /\ w.next \in Snapshot /\ Good(records, w.next) /\ w.next.intent = d.intent
      /\ (w.op = "start" => w.next.version = 1)
      /\ (w.op = "plan" => d.version >= 2)
  BY <1>0, <1>1 DEF Backed, Carries, Session
<1>3. \/ w.op = "start" /\ Become(s, plans)
      \/ w.op = "plan" /\ Become(s, begins)
      \/ w.op \in Commands /\ Become(s, seals)
      \/ w.op = "run" /\ Become(s, stores)
      \/ Finish(s)
  BY DEF LogEvent, Finish
<1>4. /\ plans.pc = "refresh" /\ plans.op = "plan" /\ plans.base = w.next
      /\ plans.mission = w.mission
      /\ \A v \in {seals, stores} :
           /\ v.mission = w.mission /\ v.op = w.op /\ v.phase = w.phase
           /\ v.base = w.base /\ v.alarm = w.alarm /\ v.next = w.next
      /\ seals.pc = "seal" /\ stores.pc = "receipt"
  BY <1>1 DEF Session
<1> HIDE DEF d, records, plans, begins, seals, stores
<1>5. CASE w.op = "start" /\ Become(s, plans)
  <2>1. Backed(plans, d, records)
    BY <1>2, <1>4, <1>5 DEF Backed, Carries
  <2>2. QED
    BY <1>0, <1>4, <1>5, <2>1, AuthWork DEF d, records
<1>6. CASE w.op = "plan" /\ Become(s, begins)
  <2>1. w.run \in Runs
    BY <1>1, <1>6 DEF Placed
  <2> HIDE DEF w
  <2>2. /\ w.next \in Snapshot /\ Good(records, w.next) /\ d \in Snapshot
        /\ d.intent = w.next.intent /\ (w.next.version >= 2 => d.version >= 2)
        /\ w.mission \in Missions
    BY <1>1, <1>2, <1>6
  <2>3. /\ begins.pc # "start"
        /\ begins.pc \notin Away => /\ Backed(begins, d, records)
                                    /\ begins.mission = w.mission
    <3>1. ASSUME NEW b \in BOOLEAN
          PROVE  LET v == Prepared(w.run, w.mission, w.next, b) IN
                 /\ v.pc # "start"
                 /\ v.pc \notin Away => Backed(v, d, records) /\ v.mission = w.mission
      BY <2>1, <2>2, PreparedBacked
    <3>2. QED
      BY <3>1 DEF begins
  <2>4. QED
    BY <1>0, <1>6, <2>3, AuthWork DEF d, records, w
<1>7. ASSUME NEW v \in {seals, stores}, Become(s, v), w.op \in Commands \cup {"run"}
      PROVE  AuthInv'
  <2>1. w.op \notin {"start", "plan"}
    BY <1>7 DEF Commands
  <2>2. v.mission = w.mission /\ v.op = w.op /\ v.phase = w.phase
        /\ v.base = w.base /\ v.alarm = w.alarm /\ v.next = w.next
        /\ v.pc \in {"seal", "receipt"}
    BY <1>4, <1>7
  <2>3. Carries(v, d, records)
    BY <1>2, <2>1, <2>2 DEF Carries
  <2>4. Entitled(v, d, records)
    BY <1>0, <1>1, <2>1, <2>2 DEF Backed, Entitled, Asking
  <2>5. Linear(d) => OnLine(v, d, records)
    BY <1>1, <2>1, <2>2 DEF Backed, OnLine
  <2>6. Backed(v, d, records)
    BY <2>3, <2>4, <2>5 DEF Backed
  <2>7. QED
    BY <1>0, <1>7, <2>2, <2>6, AuthWork DEF d, records
<1>8. QED
  BY <1>0, <1>3, <1>5, <1>6, <1>7, AuthFinish

(***************************************************************************)
(* The engine's commands.                                                  *)
(***************************************************************************)

(* What a run does with the snapshot a command returns. *)
LEMMA AuthApplied ==
  ASSUME TypeInv, AuthInv, NEW s \in Sessions, NEW snapshot \in Snapshot,
         sess[s].pc \in {"get", "seal"}, Become(s, Applied(sess[s], snapshot)),
         UNCHANGED <<snapshots, authorizations>>
  PROVE  AuthInv'
<1> DEFINE w  == sess[s]
           d == snapshots[w.mission]
           records == authorizations[w.mission]
           at == [w EXCEPT !.base = snapshot]
           notes    == [at EXCEPT !.pc = "refresh", !.op = "note"]
           approves == [at EXCEPT !.pc = "get", !.op = "approve"]
           writes   == [at EXCEPT !.pc = "refresh", !.op = "approved"]
<1>1. /\ w \in Session /\ w.op \in Commands /\ Backed(w, d, records)
  BY AtWork DEF Placed, Away
<1>2. \/ w.op = "wait" /\ Become(s, notes)
      \/ w.op \in {"ask", "resolve", "approve"} /\ Become(s, approves)
      \/ w.op = "approve" /\ Become(s, writes)
      \/ Finish(s)
  BY DEF Applied, Finish
<1>3. /\ \A v \in {notes, approves, writes} :
           v.mission = w.mission /\ v.phase = w.phase
      /\ notes.pc = "refresh" /\ notes.op = "note"
      /\ approves.pc = "get" /\ approves.op = "approve"
      /\ writes.pc = "refresh" /\ writes.op = "approved"
  BY <1>1 DEF Session
<1> HIDE DEF d, records, at, notes, approves, writes
<1>4. Entitled(w, d, records) /\ (Linear(d) => OnLine(w, d, records))
      /\ Earned(records, INTAKE)
      /\ (w.op \in {"ask", "resolve", "approve"} => Earned(records, APPROVE))
  BY <1>1 DEF Backed, Entitled, Asking, Commands
<1>5. ASSUME NEW v \in {notes, approves, writes}, Become(s, v),
             w.op \in {"wait", "ask", "resolve", "approve"},
             v # notes => Earned(records, APPROVE)
      PROVE  AuthInv'
  <2>1. ~Linear(d)
    BY <1>4, <1>5 DEF OnLine
  <2>2. Carries(v, d, records)
    BY <1>3, <1>5 DEF Carries
  <2>3. Entitled(v, d, records)
    BY <1>3, <1>4, <1>5 DEF Entitled
  <2>4. Backed(v, d, records)
    BY <2>1, <2>2, <2>3 DEF Backed
  <2>5. v.mission = w.mission /\ v.pc # "start"
    BY <1>3, <1>5
  <2>6. QED
    BY <1>5, <2>4, <2>5, AuthWork DEF d, records
<1>6. QED
  BY <1>2, <1>4, <1>5, AuthFinish

LEMMA AuthReplay ==
  ASSUME TypeInv, AuthInv, NEW s \in Sessions, ReplayKey(s) \/ NewKey(s) \/ LoadMission(s)
  PROVE  AuthInv'
<1> DEFINE w == sess[s]
           d == snapshots[w.mission]
           records == authorizations[w.mission]
<1>0. w.pc \in {"get", "load"} /\ UNCHANGED <<snapshots, authorizations>>
  BY DEF ReplayKey, NewKey, LoadMission, missionStores, grants
<1>1. /\ w \in Session /\ w.op \in Commands
      /\ Backed(w, d, records) /\ Good(records, d) /\ d \in Snapshot
  BY <1>0, AtWork DEF Placed, Away
<1>2. CASE ReplayKey(s)
  <2>1. KeyOf(w) \in DOMAIN idempotency /\ w.pc = "get"
    BY <1>2 DEF ReplayKey
  <2>2. idempotency[KeyOf(w)].result \in Snapshot
    BY <2>1 DEF TypeInv, KeysOK, Documents, Record
  <2>3. \/ Become(s, Applied(w, idempotency[KeyOf(w)].result))
        \/ Become(s, Applied(w, d))
        \/ Finish(s)
    BY <1>2 DEF ReplayKey
  <2>4. QED
    BY <1>0, <1>1, <2>1, <2>2, <2>3, AuthApplied, AuthFinish
<1> HIDE DEF d, records
<1>3. ASSUME NEW v, Become(s, v), v.mission = w.mission, v.op = w.op,
             v.phase = w.phase, v.base = w.base, v.alarm = w.alarm,
             v.pc = "load" \/ (v.pc = "execute" /\ v.next = d)
      PROVE  AuthInv'
  <2>1. v.op \notin {"start", "plan"}
    BY <1>1, <1>3 DEF Commands
  <2>2. Entitled(v, d, records)
    BY <1>0, <1>1, <1>3, <2>1 DEF Backed, Entitled, Asking
  <2>3. Carries(v, d, records)
    BY <1>1, <1>3, <2>1, <2>2 DEF Carries, Entitled
  <2>4. Linear(d) => OnLine(v, d, records)
    BY <1>1, <1>3, <2>1 DEF Backed, OnLine
  <2>5. Backed(v, d, records)
    BY <2>2, <2>3, <2>4 DEF Backed
  <2>6. v.pc # "start"
    BY <1>3
  <2>7. QED
    BY <1>0, <1>3, <2>5, <2>6, AuthWork DEF d, records
<1>4. CASE NewKey(s)
  <2> DEFINE v == [w EXCEPT !.pc = "load"]
  <2>1. /\ v.pc = "load" /\ v.op = w.op /\ v.mission = w.mission
        /\ v.phase = w.phase /\ v.base = w.base /\ v.alarm = w.alarm
    BY <1>1 DEF Session
  <2>2. Become(s, v)
    BY <1>4 DEF NewKey, Goto
  <2> HIDE DEF v
  <2>3. QED
    BY <1>3, <2>1, <2>2
<1>5. CASE LoadMission(s)
  <2> DEFINE v == [w EXCEPT !.pc = "execute", !.next = d]
  <2>1. /\ v.pc = "execute" /\ v.op = w.op /\ v.mission = w.mission
        /\ v.phase = w.phase /\ v.base = w.base /\ v.alarm = w.alarm /\ v.next = d
    BY <1>1 DEF Session
  <2>2. Become(s, v)
    BY <1>5 DEF LoadMission, d
  <2> HIDE DEF v
  <2>3. QED
    BY <1>3, <2>1, <2>2
<1>6. QED
  BY <1>2, <1>4, <1>5

(* The generic handler passes a lifecycle phase.                           *)
LEMMA HandlerMarks ==
  ASSUME NEW m \in Snapshot, NEW p \in {INTAKE, BIND_SCOPE, ARCHIVE}
  PROVE  LET d == Bump(genericIntentHandler(m, p)) IN
         /\ d.steps = [m.steps EXCEPT ![p] = "COMPLETED"] /\ d.current = p
         /\ d.version = m.version + 1 /\ d.intent = m.intent
         /\ d.status \in {"QUEUED", "RUNNING", "COMPLETED"}
         /\ d.alarmed = m.alarmed /\ d.proposal = m.proposal
<1>1. \E status \in {"QUEUED", "RUNNING", "COMPLETED"} :
        genericIntentHandler(m, p) = [completeStep(m, p, "COMPLETED")
                                        EXCEPT !.status = status]
  BY PhaseNumbers DEF genericIntentHandler
<1>2. QED
  BY <1>1 DEF completeStep, Bump, Snapshot

LEMMA TargetMarks ==
  ASSUME NEW m \in Snapshot, NEW op
  PROVE  LET prepared == derivePreparedStep(m)
             d == Bump(CommandTarget(op, m))
         IN  \/ /\ op # "approve" /\ prepared.disposition = "RUN"
                /\ prepared.phase \in {INTAKE, BIND_SCOPE, ARCHIVE}
                /\ d = Bump(genericIntentHandler(m, prepared.phase))
             \/ /\ op = "approve" \/ prepared.disposition # "RUN"
                   \/ prepared.phase \notin {INTAKE, BIND_SCOPE, ARCHIVE}
                /\ d.version = m.version + 1 /\ d.intent = m.intent
                /\ \/ d.steps = m.steps /\ d.current = m.current
                   \/ \E p \in Phases \ {ARCHIVE} :
                        d.current = p /\ d.steps = [m.steps EXCEPT ![p] = "IN_PROGRESS"]
<1> DEFINE prepared == derivePreparedStep(m)
           p == prepared.phase
           t == CommandTarget(op, m)
           d == Bump(t)
<1>1. CASE op # "approve" /\ prepared.disposition = "RUN"
           /\ p \in {INTAKE, BIND_SCOPE, ARCHIVE}
  <2>1. t = genericIntentHandler(m, p)
    BY <1>1, PhaseNumbers DEF CommandTarget
  <2>2. QED
    BY <1>1, <2>1
<1>2. CASE op = "approve" \/ prepared.disposition # "RUN"
           \/ p \notin {INTAKE, BIND_SCOPE, ARCHIVE}
  <2>1. \/ t = [m EXCEPT !.status = "APPROVED"]
        \/ t = [m EXCEPT !.status = "RUNNING"]
        \/ p \in {INGEST, RECONCILE} /\ t = Asked(m, p)
        \/ t = [m EXCEPT !.status = "BLOCKED_BY_GATE", !.alarmed = TRUE]
        \/ t = genericIntentHandler(m, APPROVE)
    BY <1>2 DEF CommandTarget
  <2>2. CASE \/ t = [m EXCEPT !.status = "APPROVED"]
             \/ t = [m EXCEPT !.status = "RUNNING"]
             \/ t = [m EXCEPT !.status = "BLOCKED_BY_GATE", !.alarmed = TRUE]
    <3>1. /\ d.version = m.version + 1 /\ d.intent = m.intent
          /\ d.steps = m.steps /\ d.current = m.current
      BY <2>2 DEF Bump, Snapshot
    <3>2. QED
      BY <1>2, <3>1
  <2>4. CASE p \in {INGEST, RECONCILE} /\ t = Asked(m, p)
    <3>1. t = [completeStep(m, p, "IN_PROGRESS")
                 EXCEPT !.status = "WAITING_FOR_EVIDENCE", !.alarmed = TRUE]
      BY <2>4 DEF Asked, markInProgress
    <3>2. /\ d.version = m.version + 1 /\ d.intent = m.intent
          /\ d.current = p /\ d.steps = [m.steps EXCEPT ![p] = "IN_PROGRESS"]
      BY <3>1 DEF completeStep, Bump, Snapshot
    <3>3. p \in Phases \ {ARCHIVE}
      BY <2>4, PhaseNumbers
    <3>4. QED
      BY <1>2, <3>2, <3>3
  <2>5. CASE t = genericIntentHandler(m, APPROVE)
    <3>1. t = [completeStep(m, APPROVE, "IN_PROGRESS")
                 EXCEPT !.status = "AWAITING_APPROVAL"]
      BY <2>5, PhaseNumbers DEF genericIntentHandler, markInProgress
    <3>2. /\ d.version = m.version + 1 /\ d.intent = m.intent
          /\ d.current = APPROVE /\ d.steps = [m.steps EXCEPT ![APPROVE] = "IN_PROGRESS"]
      BY <3>1 DEF completeStep, Bump, Snapshot
    <3>3. APPROVE \in Phases \ {ARCHIVE}
      BY PhaseNumbers
    <3>4. QED
      BY <1>2, <3>2, <3>3
  <2>6. QED
    BY <2>1, <2>2, <2>4, <2>5
<1>3. QED
  BY <1>1, <1>2

(* A command completes the step that is next in the snapshot it loaded,    *)
(* and there is an authorization for that.                                 *)
LEMMA GoodTarget ==
  ASSUME NEW w \in Session, NEW d, NEW records, w.op \in Commands,
         Backed(w, d, records), w.pc = "execute", w.phase \in Phases,
         w.next.version = w.base.version,
         LegalTarget(w.next, CommandTarget(w.op, w.next))
  PROVE  LET n == Bump(CommandTarget(w.op, w.next)) IN
         Good(records, n) /\ n.version >= 2 /\ n.intent = d.intent
<1> DEFINE m == w.next
           n == Bump(CommandTarget(w.op, m))
           prepared == derivePreparedStep(m)
           p == prepared.phase
<1>1. /\ m \in Snapshot /\ Good(records, m) /\ m.intent = d.intent
      /\ w.op \notin {"start", "plan"}
  BY DEF Backed, Carries, Session, Commands
<1>2. /\ Earned(records, INTAKE) /\ (Linear(m) => OnLine(w, d, records))
      /\ d.version >= 2
  BY <1>1 DEF Backed, Entitled, Asking, Linear
<1>3. ~isTerminal(m.status)
  BY DEF LegalTarget
<1> HIDE DEF n
<1>4. m.version \in Nat /\ m.version >= 2 /\ m.intent \in CHAIN_INTENTS
      /\ Planned(m) /\ Covered(records, m) /\ (Linear(m) => Straight(m))
  BY <1>1 DEF Backed, Carries, Snapshot, Good
<1>5. Linear(m) =>
        /\ p = w.phase /\ w.phase = m.version - 1
        /\ w.phase \in {INTAKE, BIND_SCOPE, ARCHIVE} /\ Earned(records, w.phase)
        /\ w.op = "apply" /\ prepared.disposition = "RUN"
  <2> SUFFICES ASSUME Linear(m)
               PROVE  /\ p = w.phase /\ w.phase = m.version - 1
                      /\ w.phase \in {INTAKE, BIND_SCOPE, ARCHIVE}
                      /\ Earned(records, w.phase)
                      /\ w.op = "apply" /\ prepared.disposition = "RUN"
    OBVIOUS
  <2>1. /\ w.op = "apply" /\ w.phase = m.version - 1
        /\ w.phase \in {INTAKE, BIND_SCOPE, ARCHIVE} /\ Earned(records, w.phase)
        /\ w.phase \notin Conditional(m.intent)
    BY <1>1, <1>2 DEF OnLine, Commands
  <2>2. nextPendingPhase(m) = w.phase /\ w.phase # NoPhase
    BY <1>1, <1>4, <2>1, StraightNext, PhaseNumbers
  <2>3. m.status \notin Waiting \cup {"UNKNOWN"}
    BY <1>4 DEF Straight, Waiting
  <2>4. prepared = [phase |-> w.phase, disposition |-> "RUN"]
    BY <1>3, <2>1, <2>2, <2>3 DEF derivePreparedStep
  <2>5. QED
    BY <2>1, <2>4
<1>6. CASE /\ w.op # "approve" /\ prepared.disposition = "RUN"
           /\ p \in {INTAKE, BIND_SCOPE, ARCHIVE}
           /\ n = Bump(genericIntentHandler(m, p))
  <2>1. /\ n.steps = [m.steps EXCEPT ![p] = "COMPLETED"] /\ n.current = p
        /\ n.version = m.version + 1 /\ n.intent = m.intent
        /\ n.status \in {"QUEUED", "RUNNING", "COMPLETED"}
        /\ n.alarmed = m.alarmed /\ n.proposal = m.proposal
    BY <1>1, <1>6, HandlerMarks
  <2>2. p \in Phases /\ p = nextPendingPhase(m) /\ "COMPLETED" \in Passed
    BY <1>1, <1>6, PreparedStep, PhaseNumbers DEF Passed
  <2>3. ASSUME p = ARCHIVE, ~Linear(m) PROVE Earned(records, ARCHIVE)
    <3>1. ARCHIVE \in OpenPhases(m) /\ \A q \in OpenPhases(m) : ARCHIVE <= q
      BY <1>1, <2>2, <2>3, NextPending, PhaseNumbers
    <3>2. m.current \in 1 .. 13 /\ m.current # ARCHIVE
      BY <1>4, <3>1, PhaseNumbers DEF Planned, OpenPhases
    <3>3. CLOSE \in Phases /\ CLOSE >= m.current /\ CLOSE \notin OpenPhases(m)
      BY <3>1, <3>2, PhaseNumbers
    <3>4. m.steps[CLOSE] \notin {"PENDING", "IN_PROGRESS"}
      BY <3>3 DEF OpenPhases
    <3>5. m.steps[CLOSE] \notin {"ABSENT", "SKIPPED"}
      <4>1. CLOSE \notin Conditional(m.intent)
        BY <1>1, <1>4, <2>3, ConditionalOf, PhaseNumbers
      <4>2. QED
        BY <1>4, <3>3, <4>1 DEF Planned
    <3>6. m.steps[CLOSE] \in StepStatus
      BY <1>1, <3>3 DEF Snapshot
    <3>7. m.steps[CLOSE] = "COMPLETED"
      BY <3>4, <3>5, <3>6 DEF StepStatus
    <3>8. QED
      BY <1>4, <3>3, <3>7, EarnedTogether DEF Covered
  <2>4. Earned(records, p)
    BY <1>2, <1>5, <1>6, <2>3, EarnedTogether
  <2>5. Linear(m) => /\ n.status \in {"DRAFT", "QUEUED", "RUNNING", "COMPLETED"}
                     /\ ~n.alarmed /\ ~n.proposal
    BY <1>4, <2>1 DEF Straight
  <2>6. Linear(m) => p = m.version - 1
    BY <1>5
  <2> HIDE DEF prepared, p, m
  <2>7. Good(records, n)
    BY <1>1, <1>2, <1>4, <2>1, <2>2, <2>4, <2>5, <2>6, GoodMark
  <2>8. QED
    BY <1>1, <1>4, <2>1, <2>7 DEF n, m
<1>7. CASE /\ w.op = "approve" \/ prepared.disposition # "RUN"
              \/ p \notin {INTAKE, BIND_SCOPE, ARCHIVE}
           /\ n.version = m.version + 1 /\ n.intent = m.intent
           /\ \/ n.steps = m.steps /\ n.current = m.current
              \/ \E q \in Phases \ {ARCHIVE} :
                   n.current = q /\ n.steps = [m.steps EXCEPT ![q] = "IN_PROGRESS"]
  <2>1. ~Linear(m)
    BY <1>5, <1>7
  <2>2. Good(records, n)
    BY <1>1, <1>2, <1>4, <1>7, <2>1, GoodHold
  <2>3. QED
    BY <1>1, <1>4, <1>7, <2>2 DEF n
<1>8. \/ /\ w.op # "approve" /\ prepared.disposition = "RUN"
         /\ p \in {INTAKE, BIND_SCOPE, ARCHIVE}
         /\ n = Bump(genericIntentHandler(m, p))
      \/ /\ \/ w.op = "approve" \/ prepared.disposition # "RUN"
            \/ p \notin {INTAKE, BIND_SCOPE, ARCHIVE}
         /\ n.version = m.version + 1 /\ n.intent = m.intent
         /\ \/ n.steps = m.steps /\ n.current = m.current
            \/ \E q \in Phases \ {ARCHIVE} :
                 n.current = q /\ n.steps = [m.steps EXCEPT ![q] = "IN_PROGRESS"]
  BY <1>1, TargetMarks DEF n
<1>9. QED
  BY <1>6, <1>7, <1>8

LEMMA AuthExecute ==
  ASSUME TypeInv, AuthInv, NEW s \in Sessions,
         ExecuteCommand(s) \/ SealKey(s) \/ FailKey(s)
  PROVE  AuthInv'
<1> DEFINE w == sess[s]
           d == snapshots[w.mission]
           records == authorizations[w.mission]
<1>0. /\ w.pc \in {"execute", "seal", "fail"} /\ w.pc \notin Away
      /\ UNCHANGED <<snapshots, authorizations>>
  BY DEF ExecuteCommand, SealKey, FailKey, grants, Away
<1>1. /\ w \in Session /\ w.op \in Commands /\ w.phase \in Phases
      /\ Backed(w, d, records) /\ Good(records, d) /\ d \in Snapshot
  BY <1>0, AtWork DEF Placed, Commands
<1>2. w.op \notin {"start", "plan"}
  BY <1>1 DEF Commands
<1> HIDE DEF d, records
<1>3. CASE ExecuteCommand(s)
  <2> DEFINE target == CommandTarget(w.op, w.next)
             n == Bump(target)
             v == [w EXCEPT !.pc = "save", !.next = n]
             f == [w EXCEPT !.pc = "fail"]
  <2>1. /\ w.pc = "execute"
        /\ \/ /\ w.next.version = w.base.version /\ LegalTarget(w.next, target)
              /\ Become(s, v)
           \/ Become(s, f)
    BY <1>3 DEF ExecuteCommand, Goto
  <2>2. /\ \A x \in {v, f} : /\ x.mission = w.mission /\ x.op = w.op /\ x.phase = w.phase
                             /\ x.base = w.base /\ x.alarm = w.alarm
        /\ v.pc = "save" /\ v.next = n /\ f.pc = "fail"
    BY <1>1 DEF Session
  <2>3. ASSUME NEW x \in {v, f}, Become(s, x),
               x = v => Good(records, n) /\ n.version >= 2 /\ n.intent = d.intent
        PROVE  AuthInv'
    <3> HIDE DEF v, f, n
    <3>1. Carries(x, d, records)
      BY <1>2, <2>2, <2>3 DEF Carries
    <3>2. Entitled(x, d, records)
      BY <1>1, <1>2, <2>1, <2>2, <2>3 DEF Backed, Entitled, Asking
    <3>3. Linear(d) => OnLine(x, d, records)
      BY <1>1, <1>2, <2>2, <2>3 DEF Backed, OnLine
    <3>4. Backed(x, d, records)
      BY <3>1, <3>2, <3>3 DEF Backed
    <3>5. x.mission = w.mission /\ x.pc # "start"
      BY <2>2, <2>3
    <3>6. QED
      BY <1>0, <2>3, <3>4, <3>5, AuthWork DEF d, records
  <2>4. CASE w.next.version = w.base.version /\ LegalTarget(w.next, target)
             /\ Become(s, v)
    <3>1. Good(records, n) /\ n.version >= 2 /\ n.intent = d.intent
      BY <1>1, <2>1, <2>4, GoodTarget
    <3> HIDE DEF v, n
    <3>2. QED
      BY <2>3, <2>4, <3>1
  <2>5. CASE Become(s, f)
    <3>1. f # v
      BY <2>2
    <3> HIDE DEF f, v
    <3>2. QED
      BY <2>3, <2>5, <3>1
  <2>6. QED
    BY <2>1, <2>4, <2>5
<1>4. CASE SealKey(s)
  <2>1. w.next \in Snapshot /\ w.pc = "seal" /\ Become(s, Applied(w, w.next))
    BY <1>1, <1>4 DEF SealKey, Session
  <2>2. QED
    BY <1>0, <2>1, AuthApplied
<1>5. CASE FailKey(s)
  BY <1>0, <1>5, AuthFinish DEF FailKey
<1>6. QED
  BY <1>3, <1>4, <1>5

(***************************************************************************)
(* The environment, and the theorem.                                       *)
(***************************************************************************)
LEMMA AuthFault ==
  ASSUME TypeInv, AuthInv, NEW s \in Sessions, Crash(s) \/ StoreError(s)
  PROVE  AuthInv'
<1> DEFINE w == sess[s]
           d == snapshots[w.mission]
           records == authorizations[w.mission]
<1>0. UNCHANGED <<snapshots, authorizations>>
  BY DEF Crash, StoreError, Fault
<1>1. CASE Crash(s)
  BY <1>0, <1>1, AuthFinish DEF Crash
<1>2. CASE StoreError(s)
  <2> DEFINE v == [w EXCEPT !.pc = "fail"]
  <2>1. /\ w.op \in Commands /\ w.pc \in {"save", "append", "seal"} /\ Become(s, v)
    BY <1>2 DEF StoreError, Goto
  <2>2. w \in Session /\ Backed(w, d, records)
    BY <2>1, AtWork DEF Away
  <2>3. w.op \notin {"start", "plan"}
    BY <2>1 DEF Commands
  <2>4. /\ v.pc = "fail" /\ v.op = w.op /\ v.mission = w.mission /\ v.phase = w.phase
        /\ v.base = w.base /\ v.alarm = w.alarm
    BY <2>2 DEF Session
  <2> HIDE DEF v, d, records
  <2>5. Carries(v, d, records)
    BY <2>3, <2>4 DEF Carries
  <2>6. Entitled(v, d, records)
    BY <2>1, <2>2, <2>3, <2>4 DEF Backed, Entitled, Asking
  <2>7. Linear(d) => OnLine(v, d, records)
    BY <2>2, <2>3, <2>4 DEF Backed, OnLine
  <2>8. Backed(v, d, records)
    BY <2>5, <2>6, <2>7 DEF Backed
  <2>9. QED
    BY <1>0, <2>1, <2>4, <2>8, AuthWork DEF d, records
<1>3. QED
  BY <1>1, <1>2

LEMMA AuthStutter ==
  ASSUME AuthInv, UNCHANGED <<snapshots, authorizations, sess>>
  PROVE  AuthInv'
  BY DEF AuthInv, StoredGood, SessionsBacked

LEMMA AuthStep == TypeInv /\ AuthInv /\ [Next]_vars => AuthInv'
<1> SUFFICES ASSUME TypeInv, AuthInv, [Next]_vars PROVE AuthInv'
  OBVIOUS
<1>1. ASSUME NEW s \in Sessions, NEW i \in Intents, NEW r \in Runs, Begin(s, i, r)
      PROVE  AuthInv'
  BY <1>1, AuthBegin
<1>2. ASSUME NEW s \in Sessions, NEW r \in Runs, BelowMode(s, r)
      PROVE  AuthInv'
  BY <1>2, AuthStutter DEF BelowMode, vars, missionStores, grants
<1>3. ASSUME NEW s \in Sessions, StoreReceipt(s)
      PROVE  AuthInv'
  BY <1>3, AuthFinish DEF StoreReceipt, missionStores, grants
<1>4. ASSUME NEW s \in Sessions, Step(s)
      PROVE  AuthInv'
  BY <1>3, <1>4, AuthStart, AuthAsk, AuthGrant, AuthGates, AuthCompute, AuthRefresh,
     AuthSave, AuthLog, AuthReplay, AuthExecute DEF Step
<1>5. ASSUME NEW s \in Sessions, Crash(s) \/ StoreError(s)
      PROVE  AuthInv'
  BY <1>5, AuthFault
<1>6. ASSUME NEW k \in DOMAIN idempotency, Expire(k)
      PROVE  AuthInv'
  BY <1>6, AuthStutter DEF Expire, grants
<1>7. CASE UNCHANGED vars
  BY <1>7, AuthStutter DEF vars, missionStores, grants
<1>8. QED
  BY <1>1, <1>2, <1>4, <1>5, <1>6, <1>7 DEF Next

(***************************************************************************)
(* However many sessions run chains on a mission, whatever versions of it  *)
(* they have read and wherever crashes and errors fall, no stored snapshot *)
(* has a phase COMPLETED without an authorization of its action family on  *)
(* record, at a mode that family requires.                                 *)
(***************************************************************************)
THEOREM NoUnauthorizedStep == Spec => []AuthorizedSteps
<1>1. AuthInv => AuthorizedSteps
  BY DEF AuthInv, StoredGood, Good, Covered, Earned, AuthorizedSteps
<1>2. QED
  BY <1>1, AuthInit, AuthStep, TypeInvariant, PTL DEF Spec

(***************************************************************************)
(* A receipt is lost by a fault only.                                      *)
(*                                                                         *)
(* Nothing in the stores tells a lost receipt from one that is still to be *)
(* stored, or the missions that a fault has bereft of theirs from those it *)
(* has not: there is a set of missions, no larger than the number of       *)
(* faults, outside of which the receipt of every snapshot that is stored   *)
(* or about to be stored is in the store or in the hands of a session.     *)
(***************************************************************************)
InHand(m, r, runs) ==
  \E s \in Sessions : /\ runs[s].pc \in {"append", "receipt"}
                      /\ runs[s].mission = m /\ runs[s].receipt = r

Accounted(m, r, store, runs) == r \in store \cup {0} \/ InHand(m, r, runs)

(* Only a run that completes a phase holds a receipt, until it stores it. *)
Holding == \A s \in Sessions : LET w == sess[s] IN
  /\ w.pc = "start" => w.next.receipt = 0
  /\ w.receipt # 0 => w.op = "run" /\ w.pc \in {"refresh", "save", "append", "receipt"}

AccountedBut(lost) ==
  /\ \A m \in DOMAIN snapshots \ lost :
       Accounted(m, snapshots[m].receipt, receipts, sess)
  /\ \A s \in Sessions : LET w == sess[s] IN
       w.pc \in {"execute", "save"} /\ w.mission \notin lost =>
         \/ Accounted(w.mission, w.next.receipt, receipts, sess)
         \/ w.pc = "save" /\ w.next.receipt = w.receipt

Losses(lost) ==
  IsFiniteSet(lost) /\ Cardinality(lost) <= faults /\ AccountedBut(lost)

(* What is accounted for before the step is so after it. *)
Kept == \A m, r : Accounted(m, r, receipts, sess) => Accounted(m, r, receipts', sess')

LossInv == Holding /\ \E lost \in SUBSET (Missions \cup {NoMission}) : Losses(lost)

LEMMA LossInit == Init => LossInv
<1> SUFFICES ASSUME Init PROVE LossInv
  OBVIOUS
<1>1. Idle.pc = "idle" /\ Idle.receipt = 0
  BY DEF Idle
<1>2. Holding
  BY <1>1 DEF Init, Holding
<1>3. Losses({})
  BY <1>1, FS_EmptySet DEF Init, Losses, AccountedBut
<1>4. QED
  BY <1>2, <1>3 DEF LossInv

(* What is accounted for stays so while a session moves that keeps its     *)
(* receipt in hand, or has stored it.                                      *)
LEMMA AccountedStays ==
  ASSUME TypeInv, NEW s \in Sessions, NEW v, Become(s, v), receipts \subseteq receipts',
         sess[s].pc \in {"append", "receipt"} =>
           \/ sess[s].receipt \in receipts' \cup {0}
           \/ /\ v.pc \in {"append", "receipt"} /\ v.receipt = sess[s].receipt
              /\ v.mission = sess[s].mission
  PROVE  Kept
<1>1. /\ sess'[s] = v
      /\ \A t \in Sessions \ {s} : sess'[t] = sess[t]
  BY DEF TypeInv, SessionsOK, Become
<1> SUFFICES ASSUME NEW m, NEW r, Accounted(m, r, receipts, sess)
             PROVE Accounted(m, r, receipts', sess')
  BY DEF Kept
<1>2. CASE r \in receipts \cup {0}
  BY <1>2 DEF Accounted
<1>3. CASE InHand(m, r, sess)
  <2>1. PICK t \in Sessions : /\ sess[t].pc \in {"append", "receipt"}
                              /\ sess[t].mission = m /\ sess[t].receipt = r
    BY <1>3 DEF InHand
  <2>2. CASE t # s
    BY <1>1, <2>1, <2>2 DEF Accounted, InHand
  <2>3. CASE t = s
    BY <1>1, <2>1, <2>3 DEF Accounted, InHand
  <2>4. QED
    BY <2>2, <2>3
<1>4. QED
  BY <1>2, <1>3 DEF Accounted

(* Whatever the missions that lost theirs, a move keeps the receipts of    *)
(* the others accounted for, if that of what it writes is.                 *)
LEMMA AccountedMoves ==
  ASSUME TypeInv, NEW lost, AccountedBut(lost), NEW s \in Sessions, NEW v, Become(s, v),
         Kept,
         \A m \in DOMAIN snapshots' \ lost :
           \/ m \in DOMAIN snapshots /\ snapshots'[m] = snapshots[m]
           \/ Accounted(m, snapshots'[m].receipt, receipts', sess'),
         v.pc \in {"execute", "save"} /\ v.mission \notin lost =>
           \/ Accounted(v.mission, v.next.receipt, receipts, sess)
           \/ v.pc = "save" /\ v.next.receipt = v.receipt
  PROVE  AccountedBut(lost)'
<1>1. /\ sess'[s] = v
      /\ \A t \in Sessions \ {s} : sess'[t] = sess[t]
  BY DEF TypeInv, SessionsOK, Become
<1>2. \A m \in DOMAIN snapshots' \ lost :
        Accounted(m, snapshots'[m].receipt, receipts', sess')
  BY DEF AccountedBut, Kept
<1>3. ASSUME NEW t \in Sessions, sess'[t].pc \in {"execute", "save"},
             sess'[t].mission \notin lost
      PROVE  \/ Accounted(sess'[t].mission, sess'[t].next.receipt, receipts', sess')
             \/ sess'[t].pc = "save" /\ sess'[t].next.receipt = sess'[t].receipt
  <2>1. CASE t = s
    BY <1>1, <1>3, <2>1 DEF Kept
  <2>2. CASE t # s
    BY <1>1, <1>3, <2>2 DEF AccountedBut, Kept
  <2>3. QED
    BY <2>1, <2>2
<1>4. QED
  BY <1>2, <1>3 DEF AccountedBut

LEMMA HoldingMoves ==
  ASSUME TypeInv, Holding, NEW s \in Sessions, NEW v, Become(s, v),
         v.pc = "start" => v.next.receipt = 0,
         v.receipt # 0 =>
           v.op = "run" /\ v.pc \in {"refresh", "save", "append", "receipt"}
  PROVE  Holding'
<1>1. /\ sess'[s] = v
      /\ \A t \in Sessions \ {s} : sess'[t] = sess[t]
  BY DEF TypeInv, SessionsOK, Become
<1>2. QED
  BY <1>1 DEF Holding

(* A session moves that has no receipt to lose, and the stores stay.       *)
LEMMA LossWork ==
  ASSUME TypeInv, LossInv, NEW s \in Sessions, NEW v, Become(s, v),
         UNCHANGED <<snapshots, receipts, faults>>,
         sess[s].receipt = 0 \/ sess[s].pc \notin {"append", "receipt"},
         v.pc = "start" => v.next.receipt = 0,
         v.receipt # 0 => v.op = "run" /\ v.pc = "refresh",
         \A lost : AccountedBut(lost) /\ v.pc \in {"execute", "save"}
                     /\ v.mission \notin lost =>
           Accounted(v.mission, v.next.receipt, receipts, sess)
  PROVE  LossInv'
<1>1. PICK lost \in SUBSET (Missions \cup {NoMission}) : Losses(lost)
  BY DEF LossInv
<1>2. Kept
  BY AccountedStays
<1>3. AccountedBut(lost)'
  BY <1>1, <1>2, AccountedMoves DEF Losses
<1>4. Holding'
  BY HoldingMoves DEF LossInv
<1>5. QED
  BY <1>1, <1>3, <1>4 DEF LossInv, Losses

LEMMA LossFinish ==
  ASSUME TypeInv, LossInv, NEW s \in Sessions, Finish(s),
         UNCHANGED <<snapshots, receipts, faults>>,
         sess[s].receipt = 0 \/ sess[s].pc \notin {"append", "receipt"}
  PROVE  LossInv'
<1>1. Idle.pc = "idle" /\ Idle.receipt = 0
  BY DEF Idle
<1>2. QED
  BY <1>1, LossWork DEF Finish

(* A session that has no receipt moves on without one.                     *)
LEMMA LossGoto ==
  ASSUME TypeInv, LossInv, NEW s \in Sessions, NEW pc, Goto(s, pc),
         UNCHANGED <<snapshots, receipts, faults>>, sess[s].receipt = 0,
         pc \notin {"start", "execute", "save"}
  PROVE  LossInv'
<1> DEFINE v == [sess[s] EXCEPT !.pc = pc]
<1>1. sess[s] \in Session
  BY DEF TypeInv, SessionsOK
<1>2. v.pc = pc /\ v.receipt = 0
  BY <1>1 DEF Session
<1>3. Become(s, v)
  BY DEF Goto
<1> HIDE DEF v
<1>4. QED
  BY <1>2, <1>3, LossWork

(* A run that knows its mission has no receipt yet. *)
LEMMA PreparedLoss ==
  ASSUME NEW run \in Runs, NEW m \in Missions, NEW d \in Snapshot, NEW b \in BOOLEAN
  PROVE  LET v == Prepared(run, m, d, b) IN
         v.receipt = 0 /\ v.pc \notin {"start", "execute", "save"}
<1> DEFINE prepared == derivePreparedStep(d)
           at == [Idle EXCEPT !.mission = m, !.phase = prepared.phase,
                              !.run = run, !.base = d]
           v  == Prepared(run, m, d, b)
<1>1. /\ Idle \in Session /\ Idle.pc = "idle" /\ Idle.receipt = 0
  BY IdleOK DEF Idle
<1>2. v = Idle \/ (v.receipt = 0 /\ v.pc \in {"refresh", "get", "authorize"})
  BY <1>1 DEF Prepared, Session
<1>3. QED
  BY <1>1, <1>2

LEMMA LossBegin ==
  ASSUME TypeInv, LossInv, NEW s \in Sessions, NEW i \in Intents, NEW r \in Runs,
         Begin(s, i, r)
  PROVE  LossInv'
<1>1. UNCHANGED <<snapshots, receipts, faults>> /\ sess[s].pc = "idle"
  BY DEF Begin, FindMission, FindNone, missionStores, bounds, MayBegin, Working
<1>2. CASE FindMission(s, i, r)
  <2>1. PICK m \in Active(i) : Become(s, Prepared(r, m, snapshots[m], FALSE))
    BY <1>2 DEF FindMission
  <2>2. m \in Missions /\ snapshots[m] \in Snapshot
    BY DEF Active, TypeInv, SnapshotsOK, Documents
  <2> DEFINE v == Prepared(r, m, snapshots[m], FALSE)
  <2> HIDE DEF v
  <2>3. v.receipt = 0 /\ v.pc \notin {"start", "execute", "save"}
    BY <2>2, PreparedLoss DEF v
  <2>4. QED
    BY <1>1, <2>1, <2>3, LossWork DEF v
<1>3. CASE FindNone(s, i, r)
  <2> DEFINE v == [Idle EXCEPT !.pc = "start", !.op = "start", !.run = r,
                               !.next = Started(i)]
  <2>1. v.pc = "start" /\ v.receipt = 0 /\ v.next.receipt = 0
    BY DEF Idle, Started
  <2>2. Become(s, v)
    BY <1>3 DEF FindNone
  <2> HIDE DEF v
  <2>3. QED
    BY <1>1, <2>1, <2>2, LossWork
<1>4. QED
  BY <1>2, <1>3 DEF Begin

LEMMA LossStart ==
  ASSUME TypeInv, LossInv, NEW s \in Sessions, NEW m \in Missions, StartMission(s, m)
  PROVE  LossInv'
<1> DEFINE w == sess[s]
           v == [w EXCEPT !.pc = "append", !.mission = m]
<1>1. /\ w.pc = "start" /\ w \in Session
      /\ m \notin DOMAIN snapshots /\ snapshots' = Put(snapshots, m, w.next)
      /\ Become(s, v) /\ UNCHANGED <<receipts, faults>>
  BY DEF StartMission, TypeInv, SessionsOK, bounds
<1>2. w.next.receipt = 0 /\ w.receipt = 0
  BY <1>1 DEF LossInv, Holding
<1>3. v.pc = "append" /\ v.receipt = 0
  BY <1>1, <1>2 DEF Session
<1>4. /\ DOMAIN snapshots' = DOMAIN snapshots \cup {m} /\ snapshots'[m] = w.next
      /\ \A n \in DOMAIN snapshots : snapshots'[n] = snapshots[n]
  BY <1>1 DEF Put
<1> HIDE DEF v
<1>5. PICK lost \in SUBSET (Missions \cup {NoMission}) : Losses(lost)
  BY DEF LossInv
<1>6. Kept
  BY <1>1, AccountedStays
<1>7. Accounted(m, snapshots'[m].receipt, receipts', sess')
  BY <1>2, <1>4 DEF Accounted
<1>8. AccountedBut(lost)'
  BY <1>1, <1>3, <1>4, <1>5, <1>6, <1>7, AccountedMoves DEF Losses
<1>9. Holding'
  BY <1>1, <1>3, HoldingMoves DEF LossInv
<1>10. QED
  BY <1>1, <1>5, <1>8, <1>9 DEF LossInv, Losses

LEMMA LossAsk ==
  ASSUME TypeInv, LossInv, NEW s \in Sessions,
         \/ FindAuthorization(s) \/ ScopeBound(s) \/ CheckConflict(s)
         \/ AppendAuthorization(s)
  PROVE  LossInv'
<1>1. /\ sess[s].pc \in {"authorize", "bound", "grant", "enter"}
      /\ UNCHANGED <<snapshots, receipts, faults>>
  BY DEF FindAuthorization, ScopeBound, CheckConflict, AppendAuthorization,
         missionStores, bounds
<1>2. sess[s].receipt = 0
  BY <1>1 DEF LossInv, Holding
<1>3. Finish(s) \/ \E pc \in {"bound", "grant", "enter", "gates"} : Goto(s, pc)
  BY DEF FindAuthorization, ScopeBound, CheckConflict, AppendAuthorization, CannotRead
<1>4. QED
  BY <1>1, <1>2, <1>3, LossFinish, LossGoto

(* Of the gates and the computation only the latter brings a receipt, and  *)
(* the next thing to do is to complete the phase.                          *)
LEMMA LossGates ==
  ASSUME TypeInv, LossInv, NEW s \in Sessions, Allowed(s) \/ GateBlock(s) \/ Blocked(s)
  PROVE  LossInv'
<1> DEFINE w == sess[s]
<1>1. /\ w.pc = "gates" /\ UNCHANGED <<snapshots, receipts, faults>> /\ w \in Session
  BY DEF Allowed, GateBlock, Blocked, missionStores, bounds, TypeInv, SessionsOK
<1>2. w.receipt = 0
  BY <1>1 DEF LossInv, Holding
<1> DEFINE run == [w EXCEPT !.pc = "compute"]
           approve == [w EXCEPT !.pc = "get", !.op = "approve"]
           gate == [w EXCEPT !.pc = "get", !.op = "gate"]
           resolve == [w EXCEPT !.pc = "get"]
<1>3. \A v \in {run, approve, gate, resolve} :
        v.receipt = 0 /\ v.pc \in {"compute", "get"}
  BY <1>1, <1>2 DEF Session
<1>4. Finish(s) \/ \E v \in {run, approve, gate, resolve} : Become(s, v)
  BY DEF Allowed, GateBlock, Blocked
<1> HIDE DEF run, approve, gate, resolve
<1>5. QED
  BY <1>1, <1>2, <1>3, <1>4, LossFinish, LossWork

LEMMA LossCompute ==
  ASSUME TypeInv, LossInv, NEW s \in Sessions,
         ComputeThrows(s) \/ ComputeWaits(s) \/ ComputeDone(s)
  PROVE  LossInv'
<1> DEFINE w == sess[s]
<1>1. /\ w.pc = "compute" /\ UNCHANGED <<snapshots, receipts, faults>> /\ w \in Session
  BY DEF ComputeThrows, ComputeWaits, ComputeDone, missionStores, bounds, TypeInv,
         SessionsOK
<1>2. w.receipt = 0 /\ w.op = "run"
  BY <1>1 DEF LossInv, Holding, TypeInv, AllPlaced, Placed
<1>3. CASE ComputeThrows(s)
  BY <1>1, <1>2, <1>3, LossFinish DEF ComputeThrows
<1>4. CASE ComputeWaits(s)
  <2>1. PICK o \in Outputs : Become(s, [w EXCEPT !.pc = "get", !.op = "wait",
                                                 !.output = o])
    BY <1>4 DEF ComputeWaits
  <2> DEFINE v == [w EXCEPT !.pc = "get", !.op = "wait", !.output = o]
  <2>2. v.pc = "get" /\ v.receipt = 0
    BY <1>1, <1>2 DEF Session
  <2> HIDE DEF v
  <2>3. QED
    BY <1>1, <1>2, <2>1, <2>2, LossWork DEF v
<1>5. CASE ComputeDone(s)
  <2> DEFINE warranted == Warrants(w.base.intent, w.phase)
             receipt == IF warranted THEN minted' ELSE 0
  <2>1. PICK o \in Outputs, alarm \in {FALSE, MayAlarm(w.base.intent, w.phase)} :
          Become(s, CASE w.phase \in {INTAKE, BIND_SCOPE, ARCHIVE} ->
                           [[w EXCEPT !.output = o, !.alarm = alarm,
                                      !.receipt = receipt]
                              EXCEPT !.pc = "get", !.op = "apply"]
                      [] w.phase = APPROVE ->
                           [[w EXCEPT !.output = o, !.alarm = alarm,
                                      !.receipt = receipt]
                              EXCEPT !.pc = "get", !.op = "ask"]
                      [] OTHER -> [[w EXCEPT !.output = o, !.alarm = alarm,
                                             !.receipt = receipt]
                                     EXCEPT !.pc = "refresh"])
    BY <1>5 DEF ComputeDone
  <2>2. receipt # 0 => w.phase = CLOSE
    BY DEF Warrants
  <2> HIDE DEF receipt
  <2> DEFINE applies == [w EXCEPT !.output = o, !.alarm = alarm, !.receipt = receipt,
                                  !.pc = "get", !.op = "apply"]
             asks    == [w EXCEPT !.output = o, !.alarm = alarm, !.receipt = receipt,
                                  !.pc = "get", !.op = "ask"]
             writes  == [w EXCEPT !.output = o, !.alarm = alarm, !.receipt = receipt,
                                  !.pc = "refresh"]
  <2>3. \/ receipt = 0 /\ Become(s, applies)
        \/ receipt = 0 /\ Become(s, asks)
        \/ Become(s, writes)
    BY <2>1, <2>2, PhaseNumbers
  <2>4. /\ applies.pc = "get" /\ applies.receipt = receipt
        /\ asks.pc = "get" /\ asks.receipt = receipt
        /\ writes.pc = "refresh" /\ writes.op = "run"
    BY <1>1, <1>2 DEF Session
  <2> HIDE DEF applies, asks, writes
  <2>5. QED
    BY <1>1, <1>2, <2>3, <2>4, LossWork
<1>6. QED
  BY <1>3, <1>4, <1>5

(***************************************************************************)
(* A phase-only update, its save, its event and its receipt.               *)
(***************************************************************************)

(* An update keeps the receipt a snapshot cites, or cites that of the run. *)
LEMMA MutatedReceipt ==
  ASSUME NEW w \in Session, NEW d \in Snapshot,
         w.op \in {"plan", "skip", "run", "note", "approved"}
  PROVE  LET n == Bump(Mutated(w, d)) IN
         n.receipt = d.receipt \/ n.receipt = w.receipt
<1> DEFINE n == Bump(Mutated(w, d))
<1>1. CASE w.op = "plan"
  BY <1>1 DEF Mutated, WithPlan, Bump, Snapshot
<1>2. CASE w.op = "skip"
  BY <1>2 DEF Mutated, completeStep, Bump, Snapshot
<1>3. CASE w.op = "run"
  <2> DEFINE c == Completed(w, d)
  <2>1. c.receipt = d.receipt \/ c.receipt = w.receipt
    BY DEF Completed, completeStep, Snapshot
  <2>2. n = [c EXCEPT !.version = c.version + 1]
    BY <1>3 DEF Mutated, Bump
  <2>3. n.receipt = c.receipt
    BY <2>2 DEF Completed, completeStep, Snapshot
  <2>4. QED
    BY <2>1, <2>3
<1>4. CASE w.op = "note"
  BY <1>4 DEF Mutated, Bump, Snapshot
<1>5. CASE w.op = "approved"
  BY <1>5 DEF Mutated, completeStep, Bump, Snapshot
<1>6. QED
  BY <1>1, <1>2, <1>3, <1>4, <1>5

(* A session moves and keeps what it has in hand; the stores stay.         *)
LEMMA LossMoves ==
  ASSUME TypeInv, LossInv, NEW s \in Sessions, NEW v, Become(s, v), Kept,
         UNCHANGED <<snapshots, faults>>,
         v.pc = "start" => v.next.receipt = 0,
         v.receipt # 0 =>
           v.op = "run" /\ v.pc \in {"refresh", "save", "append", "receipt"},
         \A lost : AccountedBut(lost) /\ v.pc \in {"execute", "save"}
                     /\ v.mission \notin lost =>
           \/ Accounted(v.mission, v.next.receipt, receipts, sess)
           \/ v.pc = "save" /\ v.next.receipt = v.receipt
  PROVE  LossInv'
<1>1. PICK lost \in SUBSET (Missions \cup {NoMission}) : Losses(lost)
  BY DEF LossInv
<1>2. AccountedBut(lost)'
  BY <1>1, AccountedMoves DEF Losses
<1>3. Holding'
  BY HoldingMoves DEF LossInv
<1>4. QED
  BY <1>1, <1>2, <1>3 DEF LossInv, Losses

LEMMA LossRefresh ==
  ASSUME TypeInv, LossInv, NEW s \in Sessions, Refresh(s)
  PROVE  LossInv'
<1> DEFINE w == sess[s]
           d == snapshots[w.mission]
           n == Bump(Mutated(w, d))
           v == [w EXCEPT !.pc = "save", !.next = n]
<1>1. w.pc = "refresh" /\ UNCHANGED <<snapshots, receipts, faults>>
  BY DEF Refresh, missionStores, bounds
<1>2. /\ w \in Session /\ w.op \in {"plan", "skip", "run", "note", "approved"}
      /\ w.mission \in DOMAIN snapshots /\ d \in Snapshot
  BY <1>1 DEF TypeInv, SessionsOK, AllPlaced, Placed, Away, SnapshotsOK, Documents
<1>3. w.receipt # 0 => w.op = "run"
  BY DEF LossInv, Holding
<1>4. CASE Finish(s)
  BY <1>1, <1>4, LossFinish
<1>5. CASE Become(s, v)
  <2>1. n.receipt = d.receipt \/ n.receipt = w.receipt
    BY <1>2, MutatedReceipt
  <2> HIDE DEF n
  <2>2. /\ v.pc = "save" /\ v.op = w.op /\ v.mission = w.mission
        /\ v.receipt = w.receipt /\ v.next = n
    BY <1>2 DEF Session
  <2> HIDE DEF v
  <2>3. Kept
    BY <1>1, <1>5, AccountedStays
  <2>4. \A lost : AccountedBut(lost) /\ w.mission \notin lost =>
          Accounted(w.mission, d.receipt, receipts, sess)
    BY <1>2 DEF AccountedBut
  <2>5. QED
    BY <1>1, <1>3, <1>5, <2>1, <2>2, <2>3, <2>4, LossMoves
<1>6. QED
  BY <1>4, <1>5 DEF Refresh

LEMMA LossSave ==
  ASSUME TypeInv, LossInv, NEW s \in Sessions, SaveSnapshot(s)
  PROVE  LossInv'
<1> DEFINE w == sess[s]
           v == [w EXCEPT !.pc = "append"]
<1>1. /\ w.pc = "save" /\ w \in Session /\ Become(s, v)
      /\ snapshots' = Put(snapshots, w.mission, w.next)
      /\ UNCHANGED <<receipts, faults>>
  BY DEF SaveSnapshot, Goto, TypeInv, SessionsOK, bounds
<1>2. w.receipt # 0 => w.op = "run"
  BY DEF LossInv, Holding
<1>3. /\ v.pc = "append" /\ v.op = w.op /\ v.mission = w.mission
      /\ v.receipt = w.receipt
  BY <1>1 DEF Session
<1>4. /\ DOMAIN snapshots' = DOMAIN snapshots \cup {w.mission}
      /\ snapshots'[w.mission] = w.next
      /\ \A m \in DOMAIN snapshots \ {w.mission} : snapshots'[m] = snapshots[m]
  BY <1>1 DEF Put
<1> HIDE DEF v
<1>5. Kept
  BY <1>1, AccountedStays
<1>6. Accounted(w.mission, w.receipt, receipts', sess')
  <2>1. sess'[s] = v
    BY <1>1 DEF Become, TypeInv, SessionsOK
  <2>2. QED
    BY <1>3, <2>1 DEF Accounted, InHand
<1>7. PICK lost \in SUBSET (Missions \cup {NoMission}) : Losses(lost)
  BY DEF LossInv
<1>8. w.mission \notin lost => Accounted(w.mission, w.next.receipt, receipts', sess')
  BY <1>1, <1>5, <1>6, <1>7 DEF Losses, AccountedBut, Kept
<1>9. AccountedBut(lost)'
  BY <1>1, <1>3, <1>4, <1>5, <1>7, <1>8, AccountedMoves DEF Losses
<1>10. Holding'
  BY <1>1, <1>2, <1>3, HoldingMoves DEF LossInv
<1>11. QED
  BY <1>1, <1>7, <1>9, <1>10 DEF LossInv, Losses

LEMMA LossLog ==
  ASSUME TypeInv, LossInv, NEW s \in Sessions, LogEvent(s)
  PROVE  LossInv'
<1> DEFINE w == sess[s]
           plans  == [w EXCEPT !.pc = "refresh", !.op = "plan", !.base = w.next]
           begins == Prepared(w.run, w.mission, w.next, TRUE)
           seals  == [w EXCEPT !.pc = "seal"]
           stores == [w EXCEPT !.pc = "receipt"]
<1>1. w.pc = "append" /\ UNCHANGED <<snapshots, receipts, faults>>
  BY DEF LogEvent, bounds
<1>2. /\ w \in Session /\ w.mission \in Missions
      /\ (w.op = "plan" => w.run \in Runs)
  BY <1>1 DEF TypeInv, SessionsOK, AllPlaced, Placed, Away, SnapshotsOK, Documents
<1>3. w.receipt # 0 => w.op = "run"
  BY DEF LossInv, Holding
<1>4. \/ w.op = "start" /\ Become(s, plans)
      \/ w.op = "plan" /\ Become(s, begins)
      \/ w.op \in Commands /\ Become(s, seals)
      \/ w.op = "run" /\ w.receipt # 0 /\ Become(s, stores)
      \/ w.receipt = 0 /\ Finish(s)
  BY <1>3 DEF LogEvent, Finish, Commands
<1>5. /\ plans.pc = "refresh" /\ plans.receipt = w.receipt
      /\ seals.pc = "seal" /\ seals.receipt = w.receipt
      /\ stores.pc = "receipt" /\ stores.receipt = w.receipt
      /\ stores.op = w.op /\ stores.mission = w.mission
  BY <1>2 DEF Session
<1>6. w.op = "plan" =>
        begins.receipt = 0 /\ begins.pc \notin {"start", "execute", "save"}
  BY <1>2, PreparedLoss DEF Session
<1> HIDE DEF plans, begins, seals, stores
<1>7. CASE w.receipt = 0 /\ Finish(s)
  BY <1>1, <1>7, LossFinish
<1>8. CASE w.op = "run" /\ w.receipt # 0 /\ Become(s, stores)
  <2>1. Kept
    BY <1>1, <1>5, <1>8, AccountedStays
  <2>2. QED
    BY <1>1, <1>5, <1>8, <2>1, LossMoves
<1>9. ASSUME NEW v, Become(s, v), w.op # "run", v.receipt = 0,
             v.pc \notin {"start", "execute", "save"}
      PROVE  LossInv'
  BY <1>1, <1>3, <1>9, LossWork
<1>10. QED
  BY <1>3, <1>4, <1>5, <1>6, <1>7, <1>8, <1>9 DEF Commands

LEMMA LossStore ==
  ASSUME TypeInv, LossInv, NEW s \in Sessions, StoreReceipt(s)
  PROVE  LossInv'
<1>1. /\ receipts' = receipts \cup {sess[s].receipt} /\ Become(s, Idle)
      /\ UNCHANGED <<snapshots, faults>>
  BY DEF StoreReceipt, Finish, missionStores, bounds
<1>2. Idle.pc = "idle" /\ Idle.receipt = 0
  BY DEF Idle
<1>3. Kept
  BY <1>1, AccountedStays
<1>4. QED
  BY <1>1, <1>2, <1>3, LossMoves

(***************************************************************************)
(* The commands of the engine, which neither sign a receipt nor drop one.  *)
(***************************************************************************)

(* What a command aims at cites the receipt its mission does.              *)
LEMMA TargetReceipt ==
  ASSUME NEW m \in Snapshot, NEW op
  PROVE  Bump(CommandTarget(op, m)).receipt = m.receipt
<1> DEFINE p == derivePreparedStep(m).phase
           t == CommandTarget(op, m)
<1>1. \/ t = [m EXCEPT !.status = "APPROVED"]
      \/ t = genericIntentHandler(m, p) /\ p \in {INTAKE, BIND_SCOPE, ARCHIVE}
      \/ t = Asked(m, p)
      \/ t = [m EXCEPT !.status = "BLOCKED_BY_GATE", !.alarmed = TRUE]
      \/ t = genericIntentHandler(m, APPROVE)
      \/ t = [m EXCEPT !.status = "RUNNING"]
  BY DEF CommandTarget
<1> HIDE DEF p, t
<1>2. ASSUME NEW q \in {INTAKE, BIND_SCOPE, ARCHIVE}
      PROVE  Bump(genericIntentHandler(m, q)).receipt = m.receipt
  <2>1. \E status \in {"QUEUED", "RUNNING", "COMPLETED"} :
          genericIntentHandler(m, q) = [completeStep(m, q, "COMPLETED")
                                          EXCEPT !.status = status]
    BY PhaseNumbers DEF genericIntentHandler
  <2>2. QED
    BY <2>1 DEF completeStep, Bump, Snapshot
<1>3. Bump(genericIntentHandler(m, APPROVE)).receipt = m.receipt
  <2>1. genericIntentHandler(m, APPROVE) = [completeStep(m, APPROVE, "IN_PROGRESS")
                                              EXCEPT !.status = "AWAITING_APPROVAL"]
    BY PhaseNumbers DEF genericIntentHandler, markInProgress
  <2>2. QED
    BY <2>1 DEF completeStep, Bump, Snapshot
<1>4. Bump(Asked(m, p)).receipt = m.receipt
  BY DEF Asked, markInProgress, completeStep, Bump, Snapshot
<1>5. /\ Bump([m EXCEPT !.status = "APPROVED"]).receipt = m.receipt
      /\ Bump([m EXCEPT !.status = "BLOCKED_BY_GATE", !.alarmed = TRUE]).receipt
           = m.receipt
      /\ Bump([m EXCEPT !.status = "RUNNING"]).receipt = m.receipt
  BY DEF Bump, Snapshot
<1>6. QED
  BY <1>1, <1>2, <1>4, <1>5, <1>3 DEF t

LEMMA LossApplied ==
  ASSUME TypeInv, LossInv, NEW s \in Sessions, NEW snapshot,
         sess[s].pc \in {"get", "seal"}, Become(s, Applied(sess[s], snapshot)),
         UNCHANGED <<snapshots, receipts, faults>>
  PROVE  LossInv'
<1> DEFINE w  == sess[s]
           at == [w EXCEPT !.base = snapshot]
           notes    == [at EXCEPT !.pc = "refresh", !.op = "note"]
           approves == [at EXCEPT !.pc = "get", !.op = "approve"]
           writes   == [at EXCEPT !.pc = "refresh", !.op = "approved"]
<1>1. w \in Session /\ w.receipt = 0
  BY DEF TypeInv, SessionsOK, LossInv, Holding
<1>2. Finish(s) \/ \E v \in {notes, approves, writes} : Become(s, v)
  BY DEF Applied, Finish
<1>3. \A v \in {notes, approves, writes} : v.receipt = 0 /\ v.pc \in {"refresh", "get"}
  BY <1>1 DEF Session
<1> HIDE DEF notes, approves, writes
<1>4. QED
  BY <1>1, <1>2, <1>3, LossFinish, LossWork

LEMMA LossCommand ==
  ASSUME TypeInv, LossInv, NEW s \in Sessions,
         \/ ReplayKey(s) \/ NewKey(s) \/ LoadMission(s)
         \/ ExecuteCommand(s) \/ SealKey(s) \/ FailKey(s)
  PROVE  LossInv'
<1> DEFINE w == sess[s]
           d == snapshots[w.mission]
           n == Bump(CommandTarget(w.op, w.next))
           loads == [w EXCEPT !.pc = "execute", !.next = d]
           saves == [w EXCEPT !.pc = "save", !.next = n]
<1>1. /\ UNCHANGED <<snapshots, receipts, faults>>
      /\ w.pc \in {"get", "load", "execute", "seal", "fail"}
  BY DEF ReplayKey, NewKey, LoadMission, ExecuteCommand, SealKey, FailKey,
         missionStores, bounds
<1>2. w \in Session /\ w.receipt = 0 /\ w.mission \in DOMAIN snapshots
  BY <1>1 DEF TypeInv, SessionsOK, AllPlaced, Placed, Away, LossInv, Holding
<1>3. CASE ReplayKey(s) \/ SealKey(s)
  <2>1. /\ w.pc \in {"get", "seal"}
        /\ Finish(s) \/ \E snapshot : Become(s, Applied(w, snapshot))
    BY <1>3 DEF ReplayKey, SealKey
  <2>2. QED
    BY <1>1, <1>2, <2>1, LossFinish, LossApplied
<1>4. CASE Goto(s, "load") \/ Goto(s, "fail")
  BY <1>1, <1>2, <1>4, LossGoto
<1>5. CASE LoadMission(s)
  <2>1. Become(s, loads)
    BY <1>5 DEF LoadMission
  <2>2. /\ loads.pc = "execute" /\ loads.mission = w.mission /\ loads.receipt = 0
        /\ loads.next = d
    BY <1>2 DEF Session
  <2> HIDE DEF loads
  <2>3. \A lost : AccountedBut(lost) /\ w.mission \notin lost =>
          Accounted(w.mission, d.receipt, receipts, sess)
    BY <1>2 DEF AccountedBut
  <2>4. QED
    BY <1>1, <1>2, <2>1, <2>2, <2>3, LossWork
<1>6. CASE w.pc = "execute" /\ Become(s, saves)
  <2>1. n.receipt = w.next.receipt
    BY <1>2, TargetReceipt DEF Session
  <2> HIDE DEF n
  <2>2. /\ saves.pc = "save" /\ saves.mission = w.mission /\ saves.receipt = 0
        /\ saves.next = n
    BY <1>2 DEF Session
  <2> HIDE DEF saves
  <2>3. \A lost : AccountedBut(lost) /\ w.mission \notin lost =>
          Accounted(w.mission, w.next.receipt, receipts, sess)
    BY <1>6 DEF AccountedBut
  <2>4. QED
    BY <1>1, <1>2, <1>6, <2>1, <2>2, <2>3, LossWork
<1>7. CASE Finish(s)
  BY <1>1, <1>2, <1>7, LossFinish
<1>8. QED
  BY <1>3, <1>4, <1>5, <1>6, <1>7 DEF NewKey, ExecuteCommand, FailKey

(***************************************************************************)
(* The environment, and the theorem.                                       *)
(***************************************************************************)

(* A fault costs the receipt of one mission at most.                       *)
LEMMA LossFault ==
  ASSUME TypeInv, LossInv, NEW s \in Sessions, Crash(s) \/ StoreError(s)
  PROVE  LossInv'
<1> DEFINE w == sess[s]
           f == [w EXCEPT !.pc = "fail"]
<1>1. UNCHANGED <<snapshots, receipts>> /\ faults' = faults + 1 /\ faults \in Nat
  BY DEF Crash, StoreError, Fault, TypeInv, OthersOK
<1>2. w \in Session
  BY DEF TypeInv, SessionsOK
<1>3. PICK v : Become(s, v) /\ v.receipt = 0 /\ v.pc \in {"idle", "fail"}
  <2>1. CASE Crash(s)
    <3>1. Idle.pc = "idle" /\ Idle.receipt = 0
      BY DEF Idle
    <3>2. QED
      BY <2>1, <3>1 DEF Crash, Finish
  <2>2. CASE StoreError(s)
    <3>1. w.receipt = 0
      BY <2>2 DEF LossInv, Holding, StoreError, Commands
    <3>2. f.pc = "fail" /\ f.receipt = 0 /\ Become(s, f)
      BY <1>2, <2>2, <3>1 DEF Session, StoreError, Goto
    <3>3. QED
      BY <3>2
  <2>3. QED
    BY <2>1, <2>2
<1>4. Holding'
  BY <1>3, HoldingMoves DEF LossInv
<1>5. PICK lost \in SUBSET (Missions \cup {NoMission}) : Losses(lost)
  BY DEF LossInv
<1>6. PICK more : more = lost \cup {w.mission}
  OBVIOUS
<1>7. more \in SUBSET (Missions \cup {NoMission})
  BY <1>2, <1>6 DEF Session
<1>8. IsFiniteSet(more) /\ Cardinality(more) <= faults'
  <2> HIDE DEF w
  <2>1. IsFiniteSet(lost) /\ Cardinality(lost) <= faults
    BY <1>5 DEF Losses
  <2>2. Cardinality(lost) \in Nat
    BY <2>1, FS_CardinalityType
  <2>3. IsFiniteSet(more) /\ Cardinality(more) <= Cardinality(lost) + 1
    <3>1. /\ IsFiniteSet(lost \cup {w.mission})
          /\ Cardinality(lost \cup {w.mission})
               = IF w.mission \in lost THEN Cardinality(lost) ELSE Cardinality(lost) + 1
      BY <2>1, FS_AddElement
    <3>2. QED
      BY <1>6, <2>2, <3>1
  <2>4. Cardinality(more) \in Nat
    BY <2>3, FS_CardinalityType
  <2>5. QED
    BY <1>1, <2>1, <2>2, <2>3, <2>4
<1>9. /\ sess'[s] = v
      /\ \A t \in Sessions \ {s} : sess'[t] = sess[t]
  BY <1>3 DEF TypeInv, SessionsOK, Become
<1>10. \A m, r : m # w.mission /\ Accounted(m, r, receipts, sess)
                  => Accounted(m, r, receipts', sess')
  BY <1>1, <1>9 DEF Accounted, InHand
<1>11. snapshots' = snapshots
  BY <1>1
<1>12. AccountedBut(more)'
  BY <1>3, <1>5, <1>9, <1>10, <1>6, <1>11 DEF Losses, AccountedBut
<1>13. QED
  BY <1>4, <1>7, <1>8, <1>12 DEF LossInv, Losses

LEMMA LossStutter ==
  ASSUME LossInv, UNCHANGED <<snapshots, receipts, sess, faults>>
  PROVE  LossInv'
  BY DEF LossInv, Holding, Losses, AccountedBut

LEMMA LossStep == TypeInv /\ LossInv /\ [Next]_vars => LossInv'
<1> SUFFICES ASSUME TypeInv, LossInv, [Next]_vars PROVE LossInv'
  OBVIOUS
<1>1. ASSUME NEW s \in Sessions, NEW i \in Intents, NEW r \in Runs, Begin(s, i, r)
      PROVE  LossInv'
  BY <1>1, LossBegin
<1>2. ASSUME NEW s \in Sessions, NEW r \in Runs, BelowMode(s, r)
      PROVE  LossInv'
  BY <1>2, LossStutter DEF BelowMode, vars, missionStores, bounds
<1>3. ASSUME NEW s \in Sessions, Step(s)
      PROVE  LossInv'
  BY <1>3, LossStart, LossAsk, LossGates, LossCompute, LossRefresh, LossSave,
     LossLog, LossStore, LossCommand DEF Step
<1>4. ASSUME NEW s \in Sessions, Crash(s) \/ StoreError(s)
      PROVE  LossInv'
  BY <1>4, LossFault
<1>5. ASSUME NEW k \in DOMAIN idempotency, Expire(k)
      PROVE  LossInv'
  BY <1>5, LossStutter DEF Expire, bounds
<1>6. CASE UNCHANGED vars
  BY <1>6, LossStutter DEF vars, missionStores, bounds
<1>7. QED
  BY <1>1, <1>2, <1>3, <1>4, <1>5, <1>6 DEF Next

(* The missions whose receipt is not in the store are those that lost it,  *)
(* and those a session has in hand: one for each such session.             *)
LEMMA CitedBounded ==
  ASSUME IsFiniteSet(Sessions), TypeInv, LossInv
  PROVE  LostReceiptsBounded
<1> DEFINE H == {s \in Sessions : sess[s].pc \in {"append", "receipt"}}
           held == [s \in H |-> sess[s].mission]
           M == {held[s] : s \in H}
<1>1. PICK lost \in SUBSET (Missions \cup {NoMission}) : Losses(lost)
  BY DEF LossInv
<1>2. IsFiniteSet(lost) /\ Cardinality(lost) <= faults /\ AccountedBut(lost)
  BY <1>1 DEF Losses
<1>3. Cited \subseteq lost \cup M
  <2> SUFFICES ASSUME NEW m \in Cited, m \notin lost PROVE m \in M
    OBVIOUS
  <2>1. m \in DOMAIN snapshots /\ snapshots[m].receipt \notin receipts \cup {0}
    BY DEF Cited
  <2>2. InHand(m, snapshots[m].receipt, sess)
    BY <1>2, <2>1 DEF AccountedBut, Accounted
  <2>3. QED
    BY <2>2 DEF InHand
<1>4. IsFiniteSet(H)
  BY FS_Subset
<1>5. IsFiniteSet(M) /\ Cardinality(M) <= Cardinality(H)
  <2> HIDE DEF H
  <2>1. held \in Surjection(H, M)
    BY DEF Surjection
  <2> HIDE DEF held, M
  <2>2. QED
    BY <1>4, <2>1, FS_Surjection
<1> HIDE DEF H, held, M
<1>6. /\ Cardinality(lost) \in Nat /\ Cardinality(M) \in Nat
      /\ Cardinality(H) \in Nat /\ faults \in Nat
  BY <1>2, <1>4, <1>5, FS_CardinalityType DEF TypeInv, OthersOK
<1>7. IsFiniteSet(lost \cup M)
      /\ Cardinality(lost \cup M) <= Cardinality(lost) + Cardinality(M)
  <2>1. IsFiniteSet(lost \cap M)
    BY <1>2, FS_Intersection
  <2>2. Cardinality(lost \cap M) \in Nat
    BY <2>1, FS_CardinalityType
  <2>3. /\ IsFiniteSet(lost \cup M)
        /\ Cardinality(lost \cup M)
             = Cardinality(lost) + Cardinality(M) - Cardinality(lost \cap M)
    BY <1>2, <1>5, FS_Union
  <2>4. QED
    BY <1>6, <2>2, <2>3
<1>8. Cardinality(Cited) <= Cardinality(lost \cup M)
  BY <1>3, <1>7, FS_Subset
<1>9. Cardinality(Cited) <= faults + Cardinality(H)
  <2>1. Cardinality(Cited) \in Nat /\ Cardinality(lost \cup M) \in Nat
    BY <1>3, <1>7, FS_Subset, FS_CardinalityType
  <2>2. QED
    BY <1>2, <1>5, <1>6, <1>7, <1>8, <2>1
<1>10. QED
  BY <1>9 DEF LostReceiptsBounded, H

(***************************************************************************)
(* However many sessions run chains, the snapshots that cite a receipt the *)
(* store does not have are no more than the faults so far and the runs     *)
(* that are about to store theirs: a run that nothing disturbs loses none. *)
(***************************************************************************)
THEOREM ReceiptsLostByFaults ==
  ASSUME IsFiniteSet(Sessions)
  PROVE  Spec => []LostReceiptsBounded
<1>1. TypeInv /\ LossInv => LostReceiptsBounded
  BY CitedBounded
<1>2. QED
  BY <1>1, LossInit, LossStep, TypeInvariant, PTL DEF Spec

(***************************************************************************)
(* With one session, no effect without the ceremony.                       *)
(*                                                                         *)
(* While nobody else writes, what a run decides on is what is stored: the  *)
(* snapshot it began with until it saves, and the one it saved until it is *)
(* done.  No record of a command that completed is in its way, for such a  *)
(* record is of an earlier version; it meets only those of commands that a *)
(* crash cut short.  So the snapshot it writes differs from the stored one *)
(* by the step that was derived from it, under the leave that was asked.   *)
(***************************************************************************)
OneSession == \A s, t \in Sessions : s = t

Unwritten == {"authorize", "bound", "grant", "enter", "gates", "compute",
              "refresh", "get", "load", "execute", "save"}
Updates == {"plan", "skip", "run", "note", "approved"}

(* What a session at work has read or written, d being what is stored.     *)
InStep(w, d) ==
  /\ w.pc \in Unwritten => w.base = d
  /\ w.pc = "execute" => w.next = d
  /\ w.pc = "save" =>
       \/ /\ w.op \in Commands /\ LegalTarget(d, CommandTarget(w.op, d))
          /\ w.next = Bump(CommandTarget(w.op, d))
       \/ w.op \in Updates /\ w.next = Bump(Mutated(w, d))
  /\ w.pc \in {"append", "seal"} =>
       w.next = d /\ (w.op \in Commands => d.version = w.base.version + 1)

(* What it found there to be done. *)
Found(w, d) ==
  /\ w.op \in {"run", "apply", "wait", "ask", "gate"} =>
       /\ derivePreparedStep(d).disposition = "RUN"
       /\ derivePreparedStep(d).phase = w.phase
  /\ w.op = "wait" => w.phase \in {INGEST, RECONCILE}
  /\ w.op \in {"ask", "gate"} => w.phase = APPROVE
  /\ w.op = "resume" => Resumes(w.run, d)
  /\ w.op = "resolve" => Resolves(w.run, d)

(* And with what leave. *)
Ceremony(w, d) ==
  /\ w.op \in {"ask", "resolve", "approve"} => Cleared(w.run)
  /\ w.op = "run" /\ w.phase = APPROVE => Cleared(w.run)
  /\ w.pc \in Unwritten /\ w.op \in {"run", "apply"} /\ w.phase \in EXECUTE .. ARCHIVE =>
       readOnly(d.intent) \/ Governed(w.run)

Standing(w, d) ==
  /\ InStep(w, d)
  /\ w.pc \in Unwritten => Found(w, d)
  /\ w.pc \notin Asking => Ceremony(w, d)

(* A command that completed was of an earlier version of its mission. *)
RecordsBehind ==
  \A k \in DOMAIN idempotency : idempotency[k].state = "COMPLETED" =>
    k.mission \in DOMAIN snapshots /\ k.version < snapshots[k.mission].version

SoloInv ==
  /\ RecordsBehind
  /\ \A s \in Sessions :
       sess[s].pc \notin Away => Standing(sess[s], snapshots[sess[s].mission])

(* A session moves, and what it then stands on is what is stored.          *)
LEMMA SoloMoves ==
  ASSUME OneSession, TypeInv, SoloInv, NEW s \in Sessions, NEW v, Become(s, v),
         RecordsBehind', v.pc \notin Away => Standing(v, snapshots'[v.mission])
  PROVE  SoloInv'
<1>1. sess'[s] = v /\ \A t \in Sessions : t = s
  BY DEF TypeInv, SessionsOK, Become, OneSession
<1>2. QED
  BY <1>1 DEF SoloInv

(* A session moves, and the snapshots and the records of commands stay.    *)
LEMMA SoloWork ==
  ASSUME OneSession, TypeInv, SoloInv, NEW s \in Sessions, NEW v, Become(s, v),
         UNCHANGED <<snapshots, idempotency>>,
         v.pc \notin Away => Standing(v, snapshots[v.mission])
  PROVE  SoloInv'
<1>1. RecordsBehind'
  BY DEF SoloInv, RecordsBehind
<1>2. QED
  BY <1>1, SoloMoves

LEMMA SoloFinish ==
  ASSUME OneSession, TypeInv, SoloInv, NEW s \in Sessions, Finish(s), RecordsBehind'
  PROVE  SoloInv'
<1>1. Idle.pc = "idle"
  BY DEF Idle
<1>2. QED
  BY <1>1, SoloMoves DEF Finish, Away

LEMMA SoloRest ==
  ASSUME OneSession, TypeInv, SoloInv, NEW s \in Sessions, Finish(s),
         UNCHANGED <<snapshots, idempotency>>
  PROVE  SoloInv'
<1>1. RecordsBehind'
  BY DEF SoloInv, RecordsBehind
<1>2. QED
  BY <1>1, SoloFinish

(* What is known of the session at work. *)
LEMMA SoloAt ==
  ASSUME TypeInv, SoloInv, NEW s \in Sessions, sess[s].pc \notin Away
  PROVE  LET w == sess[s] IN
         /\ w \in Session /\ Placed(w, DOMAIN snapshots)
         /\ w.mission \in DOMAIN snapshots /\ w.mission \in Missions
         /\ snapshots[w.mission] \in Snapshot
         /\ Standing(w, snapshots[w.mission])
  BY DEF TypeInv, SessionsOK, AllPlaced, Placed, SnapshotsOK, Documents, SoloInv

LEMMA SoloInit == Init => SoloInv
<1>1. Idle.pc = "idle"
  BY DEF Idle
<1>2. QED
  BY <1>1 DEF Init, SoloInv, RecordsBehind, Away

(***************************************************************************)
(* A run begins.                                                           *)
(***************************************************************************)
LEMMA PreparedStands ==
  ASSUME NEW run \in Runs, NEW m \in Missions, NEW b \in BOOLEAN, NEW d \in Snapshot
  PROVE  LET v == Prepared(run, m, d, b) IN
         v.pc \notin Away => v.mission = m /\ Standing(v, d)
<1> DEFINE prepared == derivePreparedStep(d)
           at == [Idle EXCEPT !.mission = m, !.phase = prepared.phase,
                              !.run = run, !.base = d]
           v  == Prepared(run, m, d, b)
<1>0. /\ Idle \in Session /\ Idle.pc = "idle"
  BY IdleOK DEF Idle
<1>1. v = Idle \/ (/\ v.mission = m /\ v.phase = prepared.phase /\ v.base = d
                   /\ v.run = run)
  BY <1>0 DEF Prepared, Session
<1>2. \/ v = Idle
      \/ v.pc = "refresh" /\ v.op = "skip"
      \/ v.pc = "get" /\ v.op = "resume" /\ Resumes(run, d)
      \/ v.pc = "authorize" /\ v.op = "resolve" /\ Resolves(run, d)
      \/ v.pc = "authorize" /\ v.op = "run" /\ prepared.disposition = "RUN"
  BY <1>0 DEF Prepared, Session
<1> HIDE DEF prepared, at, v
<1>3. ASSUME v # Idle PROVE Standing(v, d)
  <2>1. v.pc \in {"refresh", "get", "authorize"}
    BY <1>2, <1>3
  <2>2. InStep(v, d)
    BY <1>1, <1>3, <2>1 DEF InStep
  <2>3. Found(v, d)
    BY <1>1, <1>2, <1>3 DEF Found, prepared
  <2>4. v.pc \notin Asking => Ceremony(v, d)
    BY <1>2, <1>3 DEF Ceremony, Asking
  <2>5. QED
    BY <2>2, <2>3, <2>4 DEF Standing
<1>4. QED
  BY <1>0, <1>1, <1>3 DEF v, Away

LEMMA SoloBegin ==
  ASSUME OneSession, TypeInv, SoloInv, NEW s \in Sessions, NEW i \in Intents,
         NEW r \in Runs, Begin(s, i, r)
  PROVE  SoloInv'
<1>1. UNCHANGED <<snapshots, idempotency>>
  BY DEF Begin, FindMission, FindNone, missionStores
<1>2. CASE FindMission(s, i, r)
  <2>1. PICK m \in Active(i) : Become(s, Prepared(r, m, snapshots[m], FALSE))
    BY <1>2 DEF FindMission
  <2>2. m \in Missions /\ snapshots[m] \in Snapshot
    BY DEF Active, TypeInv, SnapshotsOK, Documents
  <2> DEFINE v == Prepared(r, m, snapshots[m], FALSE)
  <2> HIDE DEF v
  <2>3. v.pc \notin Away => v.mission = m /\ Standing(v, snapshots[m])
    BY <2>2, PreparedStands DEF v
  <2>4. QED
    BY <1>1, <2>1, <2>3, SoloWork DEF v
<1>3. CASE FindNone(s, i, r)
  <2> DEFINE v == [Idle EXCEPT !.pc = "start", !.op = "start", !.run = r,
                               !.next = Started(i)]
  <2>1. v.pc = "start"
    BY DEF Idle
  <2>2. Become(s, v)
    BY <1>3 DEF FindNone
  <2> HIDE DEF v
  <2>3. QED
    BY <1>1, <2>1, <2>2, SoloWork DEF Away
<1>4. QED
  BY <1>2, <1>3 DEF Begin

LEMMA SoloStart ==
  ASSUME OneSession, TypeInv, AuthInv, SoloInv, NEW s \in Sessions,
         NEW m \in Missions, StartMission(s, m)
  PROVE  SoloInv'
<1> DEFINE w == sess[s]
           v == [w EXCEPT !.pc = "append", !.mission = m]
<1>1. /\ w.pc = "start" /\ w \in Session
      /\ m \notin DOMAIN snapshots /\ snapshots' = Put(snapshots, m, w.next)
      /\ Become(s, v) /\ UNCHANGED idempotency
  BY DEF StartMission, TypeInv, SessionsOK
<1>2. w.op = "start"
  BY <1>1 DEF AuthInv, SessionsBacked, Beginning
<1>3. /\ DOMAIN snapshots' = DOMAIN snapshots \cup {m} /\ snapshots'[m] = w.next
      /\ \A n \in DOMAIN snapshots : snapshots'[n] = snapshots[n]
  BY <1>1 DEF Put
<1>4. RecordsBehind'
  BY <1>1, <1>3 DEF SoloInv, RecordsBehind
<1>5. /\ v.pc = "append" /\ v.mission = m /\ v.op = "start" /\ v.next = w.next
  BY <1>1, <1>2 DEF Session
<1> HIDE DEF v
<1>6. Standing(v, w.next)
  BY <1>5 DEF Standing, InStep, Ceremony, Commands, Unwritten
<1>7. QED
  BY <1>1, <1>3, <1>4, <1>5, <1>6, SoloMoves

(***************************************************************************)
(* Authorization and the gates.                                            *)
(***************************************************************************)
LEMMA SoloAsk ==
  ASSUME OneSession, TypeInv, SoloInv, NEW s \in Sessions,
         \/ FindAuthorization(s) \/ ScopeBound(s) \/ CheckConflict(s)
         \/ AppendAuthorization(s)
  PROVE  SoloInv'
<1> DEFINE w == sess[s]
           d == snapshots[w.mission]
<1>1. /\ w.pc \in {"authorize", "bound", "grant", "enter"}
      /\ UNCHANGED <<snapshots, idempotency>>
  BY DEF FindAuthorization, ScopeBound, CheckConflict, AppendAuthorization,
         missionStores
<1>2. w \in Session /\ Standing(w, d)
  BY <1>1, SoloAt DEF Away
<1>3. ASSUME NEW pc \in {"bound", "grant", "enter", "gates"}, Goto(s, pc)
      PROVE  SoloInv'
  <2> DEFINE v == [w EXCEPT !.pc = pc]
  <2>1. /\ v.pc = pc /\ v.op = w.op /\ v.mission = w.mission /\ v.phase = w.phase
        /\ v.run = w.run /\ v.base = w.base
    BY <1>2 DEF Session
  <2>2. Become(s, v)
    BY <1>3 DEF Goto
  <2> HIDE DEF v, d
  <2>3. Standing(v, d)
    BY <1>1, <1>2, <2>1 DEF Standing, InStep, Found, Asking, Unwritten
  <2>4. QED
    BY <1>1, <2>1, <2>2, <2>3, SoloWork DEF d
<1>4. Finish(s) \/ \E pc \in {"bound", "grant", "enter", "gates"} : Goto(s, pc)
  BY DEF FindAuthorization, ScopeBound, CheckConflict, AppendAuthorization, CannotRead
<1>5. QED
  BY <1>1, <1>3, <1>4, SoloRest

(* A request that is stopped nowhere is stopped by no stage.               *)
LEMMA NoneBlocks ==
  ASSUME NEW r, FirstBlocked(r) = "none"
  PROVE  \A i \in 1 .. 5 : ~Blocks(Stages[i], r)
<1> DEFINE stops == {i \in DOMAIN Stages : Blocks(Stages[i], r)}
           First(i) == i \in stops /\ \A j \in stops : i <= j
<1>1. /\ DOMAIN Stages = 1 .. 5 /\ Stages[1] = "mode" /\ Stages[2] = "materiality"
      /\ Stages[3] = "mission" /\ Stages[4] = "approval" /\ Stages[5] = "receipt"
  BY DEF Stages
<1>2. \A i \in 1 .. 5 : Stages[i] # "none"
  BY <1>1
<1>3. ASSUME stops # {} PROVE FALSE
  <2>1. stops \subseteq 1 .. 5
    BY <1>1
  <2>2. FirstBlocked(r) = Stages[CHOOSE i \in stops : \A j \in stops : i <= j]
    BY <1>3 DEF FirstBlocked
  <2> HIDE DEF stops
  <2>3. \E i : First(i)
    <3>1. CASE 1 \in stops
      BY <2>1, <3>1
    <3>2. CASE 1 \notin stops /\ 2 \in stops
      BY <2>1, <3>2
    <3>3. CASE 1 \notin stops /\ 2 \notin stops /\ 3 \in stops
      BY <2>1, <3>3
    <3>4. CASE stops \subseteq {4, 5} /\ 4 \in stops
      BY <2>1, <3>4
    <3>5. CASE stops = {5}
      BY <2>1, <3>5
    <3>6. QED
      BY <1>3, <2>1, <3>1, <3>2, <3>3, <3>4, <3>5
  <2>4. (CHOOSE i \in stops : \A j \in stops : i <= j) \in stops
    BY <2>3
  <2>5. QED
    BY <1>2, <2>1, <2>2, <2>4
<1>4. QED
  BY <1>1, <1>3

(* A run that is let through at APPROVE satisfies its materiality; one     *)
(* that is let through to execute also brings a trusted receipt.           *)
LEMMA GatesPassed ==
  ASSUME NEW w \in Session, FirstBlocked(RequestOf(w)) = "none",
         ~RequestOf(w).readOnly
  PROVE  /\ w.phase = APPROVE => Cleared(w.run)
         /\ w.phase \in EXECUTE .. ARCHIVE => Governed(w.run)
<1> DEFINE r == RequestOf(w)
<1>1. /\ r.family = familyForPhase(w.phase) /\ r.tier = w.run.tier
      /\ r.approver = w.run.approver /\ r.trusted = w.run.trusted
  BY DEF RequestOf, Family
<1>2. /\ ~Blocks("materiality", r) /\ ~Blocks("approval", r) /\ ~Blocks("receipt", r)
  <2>1. Stages[2] = "materiality" /\ Stages[4] = "approval" /\ Stages[5] = "receipt"
    BY DEF Stages
  <2>2. QED
    BY <2>1, NoneBlocks
<1>3. /\ w.phase = APPROVE => familyForPhase(w.phase) = "APPROVE"
      /\ w.phase \in EXECUTE .. ARCHIVE => familyForPhase(w.phase) = "EXECUTE_TARGET"
  BY DEF familyForPhase, INTAKE, BIND_SCOPE, INGEST, INVESTIGATE, VERIFY, PROPOSE,
         APPROVE, EXECUTE, ARCHIVE
<1> HIDE DEF r
<1>4. ASSUME r.family \in {"APPROVE", "EXECUTE_TARGET"}
      PROVE  r.tier # "none" /\ ~LacksApproval(r)
             /\ (r.family = "EXECUTE_TARGET" => r.trusted)
  <2>1. ~ReadOnlyRequest(r) /\ Bearing(r)
    BY <1>4 DEF ReadOnlyRequest, READ_ONLY_FAMILIES, Bearing, Transitions, r
  <2>2. QED
    BY <1>2, <2>1 DEF Blocks
<1>5. QED
  BY <1>1, <1>3, <1>4 DEF Cleared, Governed, LacksApproval

LEMMA SoloGates ==
  ASSUME OneSession, TypeInv, AuthInv, SoloInv, NEW s \in Sessions,
         Allowed(s) \/ GateBlock(s) \/ Blocked(s)
  PROVE  SoloInv'
<1> DEFINE w == sess[s]
           d == snapshots[w.mission]
           records == authorizations[w.mission]
<1>1. w.pc = "gates" /\ UNCHANGED <<snapshots, idempotency>>
  BY DEF Allowed, GateBlock, Blocked, missionStores
<1>2. /\ w \in Session /\ Standing(w, d) /\ w.op \in {"run", "resolve"}
      /\ w.phase \in Phases /\ d \in Snapshot
      /\ Backed(w, d, records) /\ Good(records, d)
  BY <1>1, SoloAt, AtWork DEF Away, Placed
<1> HIDE DEF d, records
<1>3. w.base = d /\ Found(w, d) /\ (w.op = "resolve" => w.phase = APPROVE)
  BY <1>1, <1>2 DEF Standing, InStep, Unwritten, Backed, Entitled
<1>4. ASSUME NEW v, Become(s, v), v.mission = w.mission, v.phase = w.phase,
             v.run = w.run, v.base = w.base, v.pc \in {"compute", "get"},
             \/ v.op = w.op
             \/ v.op = "approve" /\ w.op = "resolve"
             \/ v.op = "gate" /\ w.op = "run" /\ w.phase = APPROVE,
             v.op # "gate" => FirstBlocked(RequestOf(w)) = "none"
      PROVE  SoloInv'
  <2>1. InStep(v, d)
    BY <1>3, <1>4 DEF InStep
  <2>2. Found(v, d)
    BY <1>2, <1>3, <1>4 DEF Found
  <2>3. ASSUME v.op # "gate" PROVE Ceremony(v, d)
    <3>1. CASE ~RequestOf(w).readOnly
      <4>1. /\ w.phase = APPROVE => Cleared(w.run)
            /\ w.phase \in EXECUTE .. ARCHIVE => Governed(w.run)
        BY <1>2, <1>4, <2>3, <3>1, GatesPassed
      <4>2. QED
        BY <1>2, <1>3, <1>4, <4>1 DEF Ceremony
    <3>2. CASE RequestOf(w).readOnly
      <4>1. w.op = "run" /\ readOnly(d.intent)
        BY <1>3, <3>2 DEF RequestOf
      <4>2. Linear(d)
        BY <4>1 DEF Linear, readOnly, HARNESS_INTENTS
      <4>3. w.phase # APPROVE
        BY <1>2, <4>1, <4>2, ConditionalOf DEF Backed, OnLine, Good
      <4>4. QED
        BY <1>2, <1>4, <2>3, <4>1, <4>3 DEF Ceremony
    <3>3. QED
      BY <3>1, <3>2
  <2>4. v.op = "gate" => Ceremony(v, d)
    BY DEF Ceremony
  <2>5. Standing(v, d)
    BY <2>1, <2>2, <2>3, <2>4 DEF Standing
  <2>6. QED
    BY <1>1, <1>4, <2>5, SoloWork DEF d
<1> DEFINE run == [w EXCEPT !.pc = "compute"]
           approve == [w EXCEPT !.pc = "get", !.op = "approve"]
           resolve == [w EXCEPT !.pc = "get"]
           gate == [w EXCEPT !.pc = "get", !.op = "gate"]
<1>5. /\ \A v \in {run, approve, resolve, gate} :
           /\ v.mission = w.mission /\ v.phase = w.phase /\ v.run = w.run
           /\ v.base = w.base /\ v.pc \in {"compute", "get"}
      /\ run.op = w.op /\ approve.op = "approve" /\ resolve.op = w.op
      /\ gate.op = "gate"
  BY <1>2 DEF Session
<1>6. \/ Finish(s)
      \/ w.op = "run" /\ w.phase = APPROVE /\ Become(s, gate)
      \/ /\ FirstBlocked(RequestOf(w)) = "none"
         /\ \/ Become(s, run) \/ Become(s, resolve)
            \/ w.op # "run" /\ Become(s, approve)
  BY DEF Allowed, GateBlock, Blocked, RecordsBlock
<1> HIDE DEF run, approve, resolve, gate
<1>7. CASE Finish(s)
  BY <1>1, <1>7, SoloRest
<1>8. CASE w.op = "run" /\ w.phase = APPROVE /\ Become(s, gate)
  BY <1>4, <1>5, <1>8
<1>9. ASSUME NEW v \in {run, resolve, approve}, Become(s, v),
             FirstBlocked(RequestOf(w)) = "none",
             v.op = w.op \/ (v.op = "approve" /\ w.op # "run")
      PROVE  SoloInv'
  BY <1>2, <1>4, <1>5, <1>9
<1>10. QED
  BY <1>5, <1>6, <1>7, <1>8, <1>9

(***************************************************************************)
(* The chain's computation, and what it writes.                            *)
(***************************************************************************)
LEMMA SoloCompute ==
  ASSUME OneSession, TypeInv, SoloInv, NEW s \in Sessions,
         ComputeThrows(s) \/ ComputeWaits(s) \/ ComputeDone(s)
  PROVE  SoloInv'
<1> DEFINE w == sess[s]
           d == snapshots[w.mission]
<1>1. w.pc = "compute" /\ UNCHANGED <<snapshots, idempotency>>
  BY DEF ComputeThrows, ComputeWaits, ComputeDone, missionStores
<1>2. /\ w \in Session /\ Standing(w, d) /\ w.op = "run" /\ w.phase \in Phases
  BY <1>1, SoloAt DEF Away, Placed
<1> HIDE DEF d
<1>3. w.base = d /\ Found(w, d) /\ Ceremony(w, d)
  BY <1>1, <1>2 DEF Standing, InStep, Unwritten, Asking
<1>4. ASSUME NEW v, Become(s, v), v.mission = w.mission, v.phase = w.phase,
             v.run = w.run, v.base = w.base, v.pc \in {"get", "refresh"},
             \/ v.op \in {"run", "apply"}
             \/ v.op = "wait" /\ w.phase \in {INGEST, RECONCILE}
             \/ v.op = "ask" /\ w.phase = APPROVE
      PROVE  SoloInv'
  <2>1. InStep(v, d)
    BY <1>3, <1>4 DEF InStep
  <2>2. Found(v, d)
    BY <1>2, <1>3, <1>4 DEF Found
  <2>3. Ceremony(v, d)
    BY <1>1, <1>2, <1>3, <1>4 DEF Ceremony, Unwritten
  <2>4. Standing(v, d)
    BY <2>1, <2>2, <2>3 DEF Standing
  <2>5. QED
    BY <1>1, <1>4, <2>4, SoloWork DEF d
<1>5. CASE ComputeThrows(s)
  BY <1>1, <1>5, SoloRest DEF ComputeThrows
<1>6. CASE ComputeWaits(s)
  <2>1. PICK o \in Outputs : Become(s, [w EXCEPT !.pc = "get", !.op = "wait",
                                                 !.output = o])
    BY <1>6 DEF ComputeWaits
  <2> DEFINE v == [w EXCEPT !.pc = "get", !.op = "wait", !.output = o]
  <2>2. /\ v.pc = "get" /\ v.op = "wait" /\ v.mission = w.mission
        /\ v.phase = w.phase /\ v.base = w.base /\ v.run = w.run
    BY <1>2 DEF Session
  <2>3. w.phase \in {INGEST, RECONCILE}
    BY <1>6 DEF ComputeWaits, MayWait
  <2> HIDE DEF v
  <2>4. QED
    BY <1>4, <2>1, <2>2, <2>3 DEF v
<1>7. CASE ComputeDone(s)
  <2> DEFINE warranted == Warrants(w.base.intent, w.phase)
             receipt == IF warranted THEN minted' ELSE 0
  <2>1. PICK o \in Outputs, alarm \in {FALSE, MayAlarm(w.base.intent, w.phase)} :
          Become(s, CASE w.phase \in {INTAKE, BIND_SCOPE, ARCHIVE} ->
                           [[w EXCEPT !.output = o, !.alarm = alarm,
                                      !.receipt = receipt]
                              EXCEPT !.pc = "get", !.op = "apply"]
                      [] w.phase = APPROVE ->
                           [[w EXCEPT !.output = o, !.alarm = alarm,
                                      !.receipt = receipt]
                              EXCEPT !.pc = "get", !.op = "ask"]
                      [] OTHER -> [[w EXCEPT !.output = o, !.alarm = alarm,
                                             !.receipt = receipt]
                                     EXCEPT !.pc = "refresh"])
    BY <1>7 DEF ComputeDone
  <2> HIDE DEF receipt
  <2> DEFINE applies == [w EXCEPT !.output = o, !.alarm = alarm, !.receipt = receipt,
                                  !.pc = "get", !.op = "apply"]
             asks    == [w EXCEPT !.output = o, !.alarm = alarm, !.receipt = receipt,
                                  !.pc = "get", !.op = "ask"]
             writes  == [w EXCEPT !.output = o, !.alarm = alarm, !.receipt = receipt,
                                  !.pc = "refresh"]
  <2>2. \/ Become(s, applies)
        \/ w.phase = APPROVE /\ Become(s, asks)
        \/ Become(s, writes)
    BY <2>1, PhaseNumbers
  <2>3. /\ \A v \in {applies, asks, writes} :
             /\ v.mission = w.mission /\ v.phase = w.phase /\ v.base = w.base
             /\ v.run = w.run
        /\ applies.pc = "get" /\ applies.op = "apply"
        /\ asks.pc = "get" /\ asks.op = "ask"
        /\ writes.pc = "refresh" /\ writes.op = "run"
    BY <1>2 DEF Session
  <2> HIDE DEF applies, asks, writes
  <2>4. QED
    BY <1>4, <2>2, <2>3
<1>8. QED
  BY <1>5, <1>6, <1>7

LEMMA SoloRefresh ==
  ASSUME OneSession, TypeInv, SoloInv, NEW s \in Sessions, Refresh(s)
  PROVE  SoloInv'
<1> DEFINE w == sess[s]
           d == snapshots[w.mission]
           v == [w EXCEPT !.pc = "save", !.next = Bump(Mutated(w, d))]
<1>1. /\ w.pc = "refresh" /\ UNCHANGED <<snapshots, idempotency>>
      /\ Finish(s) \/ Become(s, v)
  BY DEF Refresh, missionStores
<1>2. w \in Session /\ Standing(w, d) /\ w.op \in Updates
  BY <1>1, SoloAt DEF Away, Placed, Updates
<1>3. /\ v.pc = "save" /\ v.op = w.op /\ v.mission = w.mission /\ v.phase = w.phase
      /\ v.run = w.run /\ v.base = w.base /\ v.alarm = w.alarm
      /\ v.receipt = w.receipt /\ v.next = Bump(Mutated(w, d))
  BY <1>2 DEF Session
<1> HIDE DEF v, d
<1>4. Mutated(v, d) = Mutated(w, d)
  BY <1>3 DEF Mutated, Completed
<1>5. InStep(v, d)
  BY <1>1, <1>2, <1>3, <1>4 DEF Standing, InStep, Unwritten
<1>6. Found(v, d) /\ Ceremony(v, d)
  BY <1>1, <1>2, <1>3 DEF Standing, Found, Ceremony, Unwritten, Asking
<1>7. Standing(v, d)
  BY <1>5, <1>6 DEF Standing
<1>8. QED
  BY <1>1, <1>3, <1>7, SoloRest, SoloWork DEF d

(* Whatever a run writes is the next version of what is stored.            *)
LEMMA NextVersion ==
  ASSUME NEW w \in Session, NEW d \in Snapshot, InStep(w, d), w.pc = "save",
         w.op \notin {"none", "start", "plan"} => w.phase \in Phases
  PROVE  w.next.version = d.version + 1 /\ w.next.intent = d.intent
<1>1. CASE w.op \in Commands /\ w.next = Bump(CommandTarget(w.op, d))
  <2>1. ASSUME NEW p \in {INTAKE, BIND_SCOPE, ARCHIVE},
               w.next = Bump(genericIntentHandler(d, p))
        PROVE  w.next.version = d.version + 1 /\ w.next.intent = d.intent
    <3> DEFINE n == Bump(genericIntentHandler(d, p))
    <3>1. n.version = d.version + 1 /\ n.intent = d.intent
      BY HandlerMarks
    <3>2. w.next = n
      BY <2>1
    <3> QED
      BY <3>1, <3>2
  <2>2. QED
    BY <1>1, <2>1, TargetMarks
<1>2. CASE w.op \in Updates /\ w.next = Bump(Mutated(w, d))
  <2>1. Mutated(w, d) \in Snapshot
    BY <1>2, MutatedType DEF Updates
  <2>2. Mutated(w, d).version = d.version /\ Mutated(w, d).intent = d.intent
    BY <1>2 DEF Mutated, Updates, WithPlan, Completed, completeStep, Snapshot
  <2>3. QED
    BY <1>2, <2>1, <2>2 DEF Bump, Snapshot
<1>3. QED
  BY <1>1, <1>2 DEF InStep

LEMMA SoloSave ==
  ASSUME OneSession, TypeInv, SoloInv, NEW s \in Sessions, SaveSnapshot(s)
  PROVE  SoloInv'
<1> DEFINE w == sess[s]
           d == snapshots[w.mission]
           v == [w EXCEPT !.pc = "append"]
<1>1. /\ w.pc = "save" /\ UNCHANGED idempotency /\ Become(s, v)
      /\ snapshots' = Put(snapshots, w.mission, w.next)
  BY DEF SaveSnapshot, Goto
<1>2. /\ w \in Session /\ Standing(w, d) /\ w.mission \in DOMAIN snapshots
      /\ d \in Snapshot
      /\ w.op \notin {"none", "start", "plan"} => w.phase \in Phases
  BY <1>1, SoloAt DEF Away, Placed
<1>3. /\ DOMAIN snapshots' = DOMAIN snapshots /\ snapshots'[w.mission] = w.next
      /\ \A m \in DOMAIN snapshots \ {w.mission} : snapshots'[m] = snapshots[m]
  BY <1>1, <1>2 DEF Put
<1>4. w.next.version = d.version + 1 /\ w.base = d /\ d.version \in Nat
  BY <1>1, <1>2, NextVersion DEF Standing, InStep, Unwritten, Snapshot
<1>5. RecordsBehind'
  <2> SUFFICES ASSUME NEW k \in DOMAIN idempotency, idempotency[k].state = "COMPLETED"
               PROVE  k.mission \in DOMAIN snapshots
                      /\ k.version < snapshots'[k.mission].version
    BY <1>1, <1>3 DEF RecordsBehind
  <2>1. /\ k.mission \in DOMAIN snapshots /\ k.version < snapshots[k.mission].version
        /\ k.version \in Nat
    BY DEF SoloInv, RecordsBehind, TypeInv, KeysOK, Documents, Key
  <2>2. QED
    BY <1>3, <1>4, <2>1
<1>6. /\ v.pc = "append" /\ v.op = w.op /\ v.mission = w.mission /\ v.phase = w.phase
      /\ v.run = w.run /\ v.base = w.base /\ v.next = w.next
  BY <1>2 DEF Session
<1> HIDE DEF v, d
<1>7. InStep(v, w.next)
  BY <1>4, <1>6 DEF InStep, Unwritten
<1>8. Ceremony(v, w.next)
  BY <1>1, <1>2, <1>6 DEF Standing, Asking, Ceremony, Unwritten
<1>9. Standing(v, w.next)
  BY <1>6, <1>7, <1>8 DEF Standing, Unwritten
<1>10. QED
  BY <1>1, <1>3, <1>5, <1>6, <1>9, SoloMoves

LEMMA SoloLog ==
  ASSUME OneSession, TypeInv, SoloInv, NEW s \in Sessions, LogEvent(s)
  PROVE  SoloInv'
<1> DEFINE w == sess[s]
           d == snapshots[w.mission]
           plans  == [w EXCEPT !.pc = "refresh", !.op = "plan", !.base = w.next]
           begins == Prepared(w.run, w.mission, w.next, TRUE)
           seals  == [w EXCEPT !.pc = "seal"]
           stores == [w EXCEPT !.pc = "receipt"]
<1>1. w.pc = "append" /\ UNCHANGED <<snapshots, idempotency>>
  BY DEF LogEvent
<1>2. /\ w \in Session /\ w.mission \in Missions /\ d \in Snapshot
      /\ (w.op = "plan" => w.run \in Runs) /\ Standing(w, d)
  BY <1>1, SoloAt DEF Away, Placed
<1> HIDE DEF d
<1>3. w.next = d /\ Ceremony(w, d)
      /\ (w.op \in Commands => d.version = w.base.version + 1)
  BY <1>1, <1>2 DEF Standing, InStep, Asking
<1>4. \/ Become(s, plans)
      \/ w.op = "plan" /\ Become(s, begins)
      \/ w.op \in Commands /\ Become(s, seals)
      \/ w.op = "run" /\ Become(s, stores)
      \/ Finish(s)
  BY DEF LogEvent, Finish
<1>5. /\ plans.pc = "refresh" /\ plans.op = "plan" /\ plans.base = w.next
      /\ plans.mission = w.mission
      /\ seals.pc = "seal" /\ stores.pc = "receipt"
      /\ \A v \in {seals, stores} :
           /\ v.mission = w.mission /\ v.op = w.op /\ v.phase = w.phase
           /\ v.run = w.run /\ v.base = w.base /\ v.next = w.next
  BY <1>2 DEF Session
<1>6. ASSUME w.op = "plan", begins.pc \notin Away
      PROVE  begins.mission = w.mission /\ Standing(begins, d)
  BY <1>2, <1>3, <1>6, PreparedStands
<1> HIDE DEF plans, begins, seals, stores
<1>7. CASE Become(s, plans)
  <2>1. Standing(plans, d)
    BY <1>3, <1>5 DEF Standing, InStep, Found, Ceremony
  <2>2. QED
    BY <1>1, <1>5, <1>7, <2>1, SoloWork DEF d
<1>8. CASE w.op = "plan" /\ Become(s, begins)
  BY <1>1, <1>6, <1>8, SoloWork DEF d
<1>9. ASSUME NEW v \in {seals, stores}, Become(s, v)
      PROVE  SoloInv'
  <2>1. v.pc \in {"seal", "receipt"}
    BY <1>5, <1>9
  <2>2. InStep(v, d)
    BY <1>3, <1>5, <1>9, <2>1 DEF InStep, Unwritten
  <2>3. Ceremony(v, d)
    BY <1>3, <1>5, <1>9, <2>1 DEF Ceremony, Unwritten
  <2>4. Standing(v, d)
    BY <2>1, <2>2, <2>3 DEF Standing, Unwritten
  <2>5. QED
    BY <1>1, <1>5, <1>9, <2>4, SoloWork DEF d
<1>10. QED
  BY <1>1, <1>4, <1>7, <1>8, <1>9, SoloRest

(***************************************************************************)
(* The commands of the engine.                                             *)
(***************************************************************************)

(* Once a command is done, or is found cut short, the run goes on with the *)
(* mission as it is stored.                                                *)
LEMMA SoloApplied ==
  ASSUME OneSession, TypeInv, SoloInv, NEW s \in Sessions,
         sess[s].pc \in {"get", "seal"},
         Become(s, Applied(sess[s], snapshots[sess[s].mission])),
         UNCHANGED snapshots, RecordsBehind'
  PROVE  SoloInv'
<1> DEFINE w  == sess[s]
           d  == snapshots[w.mission]
           at == [w EXCEPT !.base = d]
           notes    == [at EXCEPT !.pc = "refresh", !.op = "note"]
           approves == [at EXCEPT !.pc = "get", !.op = "approve"]
           writes   == [at EXCEPT !.pc = "refresh", !.op = "approved"]
<1>1. w \in Session /\ Standing(w, d)
  BY SoloAt DEF Away
<1>2. \/ Become(s, notes)
      \/ w.op \in {"ask", "resolve", "approve"} /\ Become(s, approves)
      \/ Become(s, writes)
      \/ Finish(s)
  BY DEF Applied, Finish
<1>3. /\ \A v \in {notes, approves, writes} :
           /\ v.mission = w.mission /\ v.run = w.run /\ v.base = d
           /\ v.pc \in {"refresh", "get"}
      /\ notes.op = "note" /\ approves.op = "approve" /\ writes.op = "approved"
  BY <1>1 DEF Session
<1> HIDE DEF d, at, notes, approves, writes
<1>4. w.op \in {"ask", "resolve", "approve"} => Cleared(w.run)
  BY <1>1 DEF Standing, Ceremony, Asking
<1>5. ASSUME NEW v \in {notes, approves, writes}, Become(s, v),
             v.op = "approve" => w.op \in {"ask", "resolve", "approve"}
      PROVE  SoloInv'
  <2>1. InStep(v, d) /\ Found(v, d)
    BY <1>3, <1>5 DEF InStep, Found
  <2>2. Ceremony(v, d)
    BY <1>3, <1>4, <1>5 DEF Ceremony
  <2>3. Standing(v, d)
    BY <2>1, <2>2 DEF Standing
  <2>4. QED
    BY <1>3, <1>5, <2>3, SoloMoves DEF d
<1>6. QED
  BY <1>2, <1>3, <1>5, SoloFinish

(* A record the run meets is of a command that was cut short or failed.    *)
LEMMA SoloReplay ==
  ASSUME OneSession, TypeInv, SoloInv, NEW s \in Sessions, ReplayKey(s)
  PROVE  SoloInv'
<1> DEFINE w == sess[s]
           d == snapshots[w.mission]
<1>1. /\ w.pc = "get" /\ KeyOf(w) \in DOMAIN idempotency
      /\ UNCHANGED <<snapshots, idempotency>>
  BY DEF ReplayKey, missionStores
<1>2. w.base = d /\ d.version \in Nat
  BY <1>1, SoloAt DEF Away, Standing, InStep, Unwritten, Snapshot
<1>3. KeyOf(w).mission = w.mission /\ KeyOf(w).version = d.version
  BY <1>2 DEF KeyOf
<1>4. idempotency[KeyOf(w)].state # "COMPLETED"
  BY <1>1, <1>2, <1>3 DEF SoloInv, RecordsBehind
<1>5. Become(s, Applied(w, d)) \/ Finish(s)
  BY <1>4 DEF ReplayKey
<1>6. RecordsBehind'
  BY <1>1 DEF SoloInv, RecordsBehind
<1>7. QED
  BY <1>1, <1>5, <1>6, SoloApplied, SoloFinish

LEMMA SoloLoad ==
  ASSUME OneSession, TypeInv, SoloInv, NEW s \in Sessions, NewKey(s) \/ LoadMission(s)
  PROVE  SoloInv'
<1> DEFINE w == sess[s]
           d == snapshots[w.mission]
           load == [w EXCEPT !.pc = "load"]
           exec == [w EXCEPT !.pc = "execute", !.next = d]
<1>1. /\ w.pc \in {"get", "load"} /\ UNCHANGED <<snapshots, idempotency>>
      /\ Become(s, load) \/ Become(s, exec)
  BY DEF NewKey, LoadMission, Goto, missionStores
<1>2. w \in Session /\ Standing(w, d)
  BY <1>1, SoloAt DEF Away
<1>3. /\ \A v \in {load, exec} :
           /\ v.mission = w.mission /\ v.op = w.op /\ v.phase = w.phase
           /\ v.run = w.run /\ v.base = w.base
      /\ load.pc = "load" /\ exec.pc = "execute" /\ exec.next = d
  BY <1>2 DEF Session
<1> HIDE DEF d, load, exec
<1>4. ASSUME NEW v \in {load, exec}, Become(s, v)
      PROVE  SoloInv'
  <2>1. InStep(v, d)
    BY <1>1, <1>2, <1>3, <1>4 DEF Standing, InStep, Unwritten
  <2>2. Found(v, d) /\ Ceremony(v, d)
    BY <1>1, <1>2, <1>3, <1>4 DEF Standing, Found, Ceremony, Unwritten, Asking
  <2>3. Standing(v, d)
    BY <2>1, <2>2 DEF Standing
  <2>4. QED
    BY <1>1, <1>3, <1>4, <2>3, SoloWork DEF d
<1>5. QED
  BY <1>1, <1>4

(* A command that is recorded as being executed, or as failed, is not one  *)
(* that completed.                                                         *)
LEMMA RecordsPut ==
  ASSUME SoloInv, NEW k, NEW record, record.state # "COMPLETED",
         idempotency' = Put(idempotency, k, record), UNCHANGED snapshots
  PROVE  RecordsBehind'
<1>1. /\ DOMAIN idempotency' = DOMAIN idempotency \cup {k}
      /\ idempotency'[k] = record
      /\ \A i \in DOMAIN idempotency \ {k} : idempotency'[i] = idempotency[i]
  BY DEF Put
<1>2. QED
  BY <1>1 DEF SoloInv, RecordsBehind

LEMMA SoloExecute ==
  ASSUME OneSession, TypeInv, SoloInv, NEW s \in Sessions, ExecuteCommand(s)
  PROVE  SoloInv'
<1> DEFINE w == sess[s]
           d == snapshots[w.mission]
           target == CommandTarget(w.op, w.next)
           save == [w EXCEPT !.pc = "save", !.next = Bump(target)]
           fail == [w EXCEPT !.pc = "fail"]
<1>1. /\ w.pc = "execute" /\ UNCHANGED snapshots
      /\ \/ LegalTarget(w.next, target) /\ Become(s, save)
         \/ Become(s, fail)
  BY DEF ExecuteCommand, Goto
<1>2. w \in Session /\ Standing(w, d) /\ w.op \in Commands
  BY <1>1, SoloAt DEF Away, Placed
<1>3. RecordsBehind'
  <2>1. Executing.state # "COMPLETED"
    BY DEF Executing
  <2>2. QED
    BY <1>1, <2>1, RecordsPut DEF ExecuteCommand
<1>4. /\ \A v \in {save, fail} :
           /\ v.mission = w.mission /\ v.op = w.op /\ v.phase = w.phase
           /\ v.run = w.run /\ v.base = w.base
      /\ save.pc = "save" /\ save.next = Bump(target) /\ fail.pc = "fail"
  BY <1>2 DEF Session
<1> HIDE DEF d, save, fail
<1>5. w.next = d
  BY <1>1, <1>2 DEF Standing, InStep
<1>6. ASSUME NEW v \in {save, fail}, Become(s, v),
             v.pc = "save" => LegalTarget(d, target)
      PROVE  SoloInv'
  <2>1. InStep(v, d)
    BY <1>1, <1>2, <1>4, <1>5, <1>6 DEF Standing, InStep, Unwritten
  <2>2. Found(v, d) /\ Ceremony(v, d)
    BY <1>1, <1>2, <1>4, <1>6 DEF Standing, Found, Ceremony, Unwritten, Asking
  <2>3. Standing(v, d)
    BY <2>1, <2>2 DEF Standing
  <2>4. QED
    BY <1>1, <1>3, <1>4, <1>6, <2>3, SoloMoves DEF d
<1>7. QED
  BY <1>1, <1>4, <1>5, <1>6

LEMMA SoloSeal ==
  ASSUME OneSession, TypeInv, SoloInv, NEW s \in Sessions, SealKey(s) \/ FailKey(s)
  PROVE  SoloInv'
<1> DEFINE w == sess[s]
           d == snapshots[w.mission]
           k == KeyOf(w)
<1>1. w.pc \in {"seal", "fail"} /\ UNCHANGED snapshots
  BY DEF SealKey, FailKey
<1>2. /\ w \in Session /\ Standing(w, d) /\ w.op \in Commands
      /\ w.mission \in DOMAIN snapshots /\ d \in Snapshot
  BY <1>1, SoloAt DEF Away, Placed
<1>3. CASE FailKey(s)
  <2>1. Failed.state # "COMPLETED"
    BY DEF Failed
  <2>2. RecordsBehind'
    BY <1>1, <1>3, <2>1, RecordsPut DEF FailKey
  <2>3. QED
    BY <1>3, <2>2, SoloFinish DEF FailKey
<1>4. CASE SealKey(s)
  <2>1. w.next = d /\ d.version = w.base.version + 1 /\ w.base.version \in Nat
    BY <1>2, <1>4 DEF SealKey, Standing, InStep, Session, Snapshot
  <2>2. k.mission = w.mission /\ k.version = w.base.version
    BY DEF KeyOf
  <2> HIDE DEF k
  <2>3. /\ DOMAIN idempotency' = DOMAIN idempotency \cup {k}
        /\ \A i \in DOMAIN idempotency \ {k} : idempotency'[i] = idempotency[i]
    BY <1>4 DEF SealKey, Put, k
  <2>4. RecordsBehind'
    BY <1>1, <1>2, <2>1, <2>2, <2>3 DEF SoloInv, RecordsBehind
  <2>5. Become(s, Applied(w, d))
    BY <1>4, <2>1 DEF SealKey
  <2>6. w.pc = "seal"
    BY <1>4 DEF SealKey
  <2>7. QED
    BY <1>1, <2>4, <2>5, <2>6, SoloApplied
<1>5. QED
  BY <1>3, <1>4

(***************************************************************************)
(* The environment.                                                        *)
(***************************************************************************)
LEMMA SoloFault ==
  ASSUME OneSession, TypeInv, SoloInv, NEW s \in Sessions, Crash(s) \/ StoreError(s)
  PROVE  SoloInv'
<1> DEFINE w == sess[s]
           d == snapshots[w.mission]
           v == [w EXCEPT !.pc = "fail"]
<1>1. UNCHANGED <<snapshots, idempotency>>
  BY DEF Crash, StoreError, Fault
<1>2. CASE Crash(s)
  BY <1>1, <1>2, SoloRest DEF Crash
<1>3. CASE StoreError(s)
  <2>1. w.pc \in {"save", "append", "seal"} /\ Become(s, v)
    BY <1>3 DEF StoreError, Goto
  <2>2. w \in Session /\ Standing(w, d)
    BY <2>1, SoloAt DEF Away
  <2>3. /\ v.pc = "fail" /\ v.op = w.op /\ v.mission = w.mission /\ v.phase = w.phase
        /\ v.run = w.run
    BY <2>2 DEF Session
  <2> HIDE DEF v, d
  <2>4. Standing(v, d)
    BY <2>1, <2>2, <2>3 DEF Standing, InStep, Ceremony, Unwritten, Asking
  <2>5. QED
    BY <1>1, <2>1, <2>3, <2>4, SoloWork DEF d
<1>4. QED
  BY <1>2, <1>3

(* A record that expires is one record less. *)
LEMMA SoloExpire ==
  ASSUME OneSession, TypeInv, SoloInv, NEW k \in DOMAIN idempotency, Expire(k)
  PROVE  SoloInv'
<1>1. /\ UNCHANGED <<snapshots, sess>>
      /\ DOMAIN idempotency' \subseteq DOMAIN idempotency
      /\ \A i \in DOMAIN idempotency' : idempotency'[i] = idempotency[i]
  BY DEF Expire
<1>2. QED
  BY <1>1 DEF SoloInv, RecordsBehind

LEMMA SoloStutter ==
  ASSUME SoloInv, UNCHANGED <<snapshots, idempotency, sess>>
  PROVE  SoloInv'
  BY DEF SoloInv, RecordsBehind

LEMMA SoloStep ==
  ASSUME OneSession
  PROVE  TypeInv /\ AuthInv /\ SoloInv /\ [Next]_vars => SoloInv'
<1> SUFFICES ASSUME TypeInv, AuthInv, SoloInv, [Next]_vars PROVE SoloInv'
  OBVIOUS
<1>1. ASSUME NEW s \in Sessions, NEW i \in Intents, NEW r \in Runs, Begin(s, i, r)
      PROVE  SoloInv'
  BY <1>1, SoloBegin
<1>2. ASSUME NEW s \in Sessions, NEW r \in Runs, BelowMode(s, r)
      PROVE  SoloInv'
  BY <1>2, SoloStutter DEF BelowMode, vars, missionStores
<1>3. ASSUME NEW s \in Sessions, StoreReceipt(s)
      PROVE  SoloInv'
  BY <1>3, SoloRest DEF StoreReceipt, missionStores
<1>4. ASSUME NEW s \in Sessions, Step(s)
      PROVE  SoloInv'
  BY <1>3, <1>4, SoloStart, SoloAsk, SoloGates, SoloCompute, SoloRefresh, SoloSave,
     SoloLog, SoloReplay, SoloLoad, SoloExecute, SoloSeal DEF Step
<1>5. ASSUME NEW s \in Sessions, Crash(s) \/ StoreError(s)
      PROVE  SoloInv'
  BY <1>5, SoloFault
<1>6. CASE UNCHANGED vars
  BY <1>6, SoloStutter DEF vars, missionStores
<1>7. QED
  BY <1>1, <1>2, <1>4, <1>5, <1>6, SoloExpire DEF Next

(* What a save of the only session does to the snapshot that was stored. *)
Effect(d, n, run) ==
  /\ n.status = "APPROVED" /\ d.status # "APPROVED" => Cleared(run)
  /\ (\E p \in EXECUTE .. ARCHIVE :
        n.steps[p] = "COMPLETED" /\ d.steps[p] # "COMPLETED") =>
       readOnly(d.intent) \/ Governed(run)
  /\ d.status = "WAITING_FOR_EVIDENCE" /\ n.status # d.status => Resuming(run)
  /\ d.status = "BLOCKED_BY_GATE" /\ n.status # d.status => Approving(run)
  /\ d.status = "AWAITING_APPROVAL" /\ n.status # d.status => Cleared(run)

(* A phase-only update keeps the status and completes the step of the run. *)
LEMMA UpdateEffect ==
  ASSUME NEW w \in Session, NEW d \in Snapshot, w.pc = "save", w.op \in Updates,
         w.op # "plan" => w.phase \in Phases,
         w.next = Bump(Mutated(w, d)), Ceremony(w, d)
  PROVE  Effect(d, w.next, w.run)
<1> DEFINE m == Mutated(w, d)
<1>1. m \in Snapshot
  BY MutatedType DEF Updates
<1>2. /\ m.status = d.status
      /\ \A p \in Phases : m.steps[p] = "COMPLETED" =>
           d.steps[p] = "COMPLETED" \/ (p = w.phase /\ w.op = "run") \/ p = APPROVE
  <2>1. CASE w.op = "plan"
    BY <2>1 DEF Mutated, WithPlan, Snapshot
  <2>2. CASE w.op = "note"
    BY <2>2 DEF Mutated
  <2>3. CASE w.op = "skip"
    <3>1. m.status = d.status /\ m.steps = [d.steps EXCEPT ![w.phase] = "SKIPPED"]
      BY <2>3 DEF Mutated, completeStep, Snapshot
    <3>2. QED
      BY <2>3, <3>1 DEF Snapshot
  <2>4. CASE w.op = "run"
    <3>1. m.status = d.status /\ m.steps = [d.steps EXCEPT ![w.phase] = "COMPLETED"]
      BY <2>4 DEF Mutated, Completed, completeStep, Snapshot
    <3>2. QED
      BY <2>4, <3>1 DEF Snapshot
  <2>5. CASE w.op = "approved"
    <3>1. m.status = d.status /\ m.steps = [d.steps EXCEPT ![APPROVE] = "COMPLETED"]
      BY <2>5 DEF Mutated, completeStep, Snapshot
    <3>2. QED
      BY <2>5, <3>1 DEF Snapshot
  <2>6. QED
    BY <2>1, <2>2, <2>3, <2>4, <2>5 DEF Updates
<1> HIDE DEF m
<1>3. w.next.status = d.status /\ w.next.steps = m.steps
  BY <1>1, <1>2 DEF Bump, Snapshot, m
<1>4. \A p \in EXECUTE .. ARCHIVE : p \in Phases /\ p # APPROVE
  BY PhaseNumbers
<1>5. ASSUME NEW p \in EXECUTE .. ARCHIVE,
             w.next.steps[p] = "COMPLETED", d.steps[p] # "COMPLETED"
      PROVE  readOnly(d.intent) \/ Governed(w.run)
  <2>1. w.op = "run" /\ w.phase = p
    BY <1>2, <1>3, <1>4, <1>5
  <2>2. QED
    BY <1>5, <2>1 DEF Ceremony, Unwritten
<1>6. QED
  BY <1>3, <1>5 DEF Effect

(* What a command aims at. *)
LEMMA TargetEffect ==
  ASSUME NEW d \in Snapshot, NEW op
  PROVE  LET prepared == derivePreparedStep(d)
             t == CommandTarget(op, d)
         IN  \/ op = "approve" /\ t.status = "APPROVED" /\ t.steps = d.steps
             \/ /\ op # "approve" /\ prepared.disposition # "RUN"
                /\ t.status = "RUNNING" /\ t.steps = d.steps
             \/ /\ op # "approve" /\ prepared.disposition = "RUN"
                /\ t.status # "APPROVED"
                /\ \A p \in Phases : t.steps[p] = "COMPLETED" =>
                     \/ d.steps[p] = "COMPLETED"
                     \/ p = prepared.phase /\ p \in {INTAKE, BIND_SCOPE, ARCHIVE}
<1> DEFINE prepared == derivePreparedStep(d)
           t == CommandTarget(op, d)
<1>1. CASE op = "approve"
  BY <1>1 DEF CommandTarget, Snapshot
<1>2. CASE op # "approve" /\ prepared.disposition # "RUN"
  BY <1>2 DEF CommandTarget, Snapshot
<1>3. CASE op # "approve" /\ prepared.disposition = "RUN"
  <2>1. \/ /\ prepared.phase \in {INTAKE, BIND_SCOPE, ARCHIVE}
           /\ t = genericIntentHandler(d, prepared.phase)
        \/ t = [d EXCEPT !.status = "RUNNING"]
        \/ prepared.phase \in {INGEST, RECONCILE} /\ t = Asked(d, prepared.phase)
        \/ t = [d EXCEPT !.status = "BLOCKED_BY_GATE", !.alarmed = TRUE]
        \/ t = genericIntentHandler(d, APPROVE)
    BY <1>3 DEF CommandTarget
  <2>2. CASE /\ prepared.phase \in {INTAKE, BIND_SCOPE, ARCHIVE}
             /\ t = genericIntentHandler(d, prepared.phase)
    <3>1. \E status \in {"QUEUED", "RUNNING", "COMPLETED"} :
            t = [completeStep(d, prepared.phase, "COMPLETED")
                  EXCEPT !.status = status]
      BY <2>2, PhaseNumbers DEF genericIntentHandler
    <3>2. /\ t.status # "APPROVED"
          /\ t.steps = [d.steps EXCEPT ![prepared.phase] = "COMPLETED"]
      BY <3>1 DEF completeStep, Snapshot
    <3>3. QED
      BY <1>3, <2>2, <3>2 DEF Snapshot
  <2>3. CASE prepared.phase \in {INGEST, RECONCILE} /\ t = Asked(d, prepared.phase)
    <3>1. /\ t.status = "WAITING_FOR_EVIDENCE"
          /\ t.steps = [d.steps EXCEPT ![prepared.phase] = "IN_PROGRESS"]
      BY <2>3 DEF Asked, markInProgress, completeStep, Snapshot
    <3>2. QED
      BY <1>3, <3>1 DEF Snapshot
  <2>4. CASE t = genericIntentHandler(d, APPROVE)
    <3>1. t = [markInProgress(d, APPROVE) EXCEPT !.status = "AWAITING_APPROVAL"]
      BY <2>4, PhaseNumbers DEF genericIntentHandler
    <3>2. /\ t.status = "AWAITING_APPROVAL"
          /\ t.steps = [d.steps EXCEPT ![APPROVE] = "IN_PROGRESS"]
      BY <3>1 DEF markInProgress, completeStep, Snapshot
    <3>3. QED
      BY <1>3, <3>2 DEF Snapshot
  <2>5. CASE \/ t = [d EXCEPT !.status = "RUNNING"]
             \/ t = [d EXCEPT !.status = "BLOCKED_BY_GATE", !.alarmed = TRUE]
    <3>1. t.status # "APPROVED" /\ t.steps = d.steps
      BY <2>5 DEF Snapshot
    <3>2. QED
      BY <1>3, <3>1
  <2>6. QED
    BY <2>1, <2>2, <2>3, <2>4, <2>5
<1>4. QED
  BY <1>1, <1>2, <1>3

(* A command moves the status as the run has leave to.                     *)
LEMMA CommandEffect ==
  ASSUME NEW w \in Session, NEW d \in Snapshot, w.pc = "save", w.op \in Commands,
         LegalTarget(d, CommandTarget(w.op, d)),
         w.next = Bump(CommandTarget(w.op, d)), Found(w, d), Ceremony(w, d)
  PROVE  Effect(d, w.next, w.run)
<1> DEFINE t == CommandTarget(w.op, d)
           prepared == derivePreparedStep(d)
<1>1. w.next.status = t.status /\ w.next.steps = t.steps
  BY DEF Bump, CommandTarget, Asked, markInProgress, completeStep,
         genericIntentHandler, Snapshot
<1>2. t.status \in VALID_TRANSITIONS[d.status]
  BY DEF LegalTarget
<1>3. CASE w.op = "approve"
  <2>1. t.status = "APPROVED" /\ t.steps = d.steps
    BY <1>3, TargetEffect
  <2>2. d.status \notin {"WAITING_FOR_EVIDENCE", "BLOCKED_BY_GATE"}
    BY <1>2, <2>1 DEF VALID_TRANSITIONS
  <2>3. Cleared(w.run)
    BY <1>3 DEF Ceremony
  <2>4. QED
    BY <1>1, <2>1, <2>2, <2>3 DEF Effect
<1>4. CASE w.op \in {"resume", "resolve"}
  <2>1. /\ d.status \in Waiting
        /\ d.status = "WAITING_FOR_EVIDENCE" => Resuming(w.run)
        /\ d.status = "BLOCKED_BY_GATE" => Approving(w.run)
        /\ d.status = "AWAITING_APPROVAL" => Cleared(w.run)
    BY <1>4 DEF Found, Resumes, Resolves, Ceremony, Waiting, Resuming, Approving
  <2>2. prepared.disposition # "RUN"
    BY <2>1 DEF derivePreparedStep, Nothing
  <2>3. t.status # "APPROVED" /\ t.steps = d.steps
    BY <1>4, <2>2, TargetEffect
  <2>4. QED
    BY <1>1, <2>1, <2>3 DEF Effect
<1>5. CASE w.op \in {"apply", "wait", "ask", "gate"}
  <2>1. prepared.disposition = "RUN" /\ prepared.phase = w.phase
    BY <1>5 DEF Found
  <2>2. d.status \notin Waiting
    BY <2>1 DEF derivePreparedStep, Nothing
  <2>3. /\ t.status # "APPROVED"
        /\ \A p \in Phases : t.steps[p] = "COMPLETED" =>
             \/ d.steps[p] = "COMPLETED"
             \/ p = w.phase /\ p \in {INTAKE, BIND_SCOPE, ARCHIVE}
    BY <1>5, <2>1, TargetEffect
  <2>4. ASSUME NEW p \in EXECUTE .. ARCHIVE,
               t.steps[p] = "COMPLETED", d.steps[p] # "COMPLETED"
        PROVE  readOnly(d.intent) \/ Governed(w.run)
    <3>1. p \in Phases
      BY PhaseNumbers
    <3>2. p = w.phase /\ p = ARCHIVE
      BY <2>3, <2>4, <3>1, PhaseNumbers
    <3>3. w.op = "apply"
      BY <1>5, <3>2, PhaseNumbers DEF Found
    <3>4. QED
      BY <2>4, <3>2, <3>3 DEF Ceremony, Unwritten
  <2>5. QED
    BY <1>1, <2>2, <2>3, <2>4 DEF Effect, Waiting
<1>6. QED
  BY <1>3, <1>4, <1>5 DEF Commands

(* Only a save replaces a snapshot that is stored. *)
LEMMA Replaced ==
  ASSUME TypeInv, SoloInv, [Next]_vars, NEW m \in DOMAIN snapshots
  PROVE  \/ snapshots'[m] = snapshots[m]
         \/ \E s \in Sessions : /\ sess[s].mission = m
                                /\ Effect(snapshots[m], snapshots'[m], sess[s].run)
<1> DEFINE Wrote == \E s \in Sessions :
                      /\ sess[s].mission = m
                      /\ Effect(snapshots[m], snapshots'[m], sess[s].run)
<1>1. ASSUME NEW s \in Sessions, NEW n \in Missions, StartMission(s, n)
      PROVE  snapshots'[m] = snapshots[m]
  BY <1>1 DEF StartMission, Put
<1>2. ASSUME NEW s \in Sessions, SaveSnapshot(s)
      PROVE  snapshots'[m] = snapshots[m] \/ Wrote
  <2> DEFINE w == sess[s]
             d == snapshots[w.mission]
  <2>1. w.pc = "save" /\ snapshots' = Put(snapshots, w.mission, w.next)
    BY <1>2 DEF SaveSnapshot
  <2>2. CASE w.mission = m
    <3>1. /\ w \in Session /\ d \in Snapshot /\ Standing(w, d)
          /\ w.op \notin {"none", "start", "plan"} => w.phase \in Phases
      BY <2>1, SoloAt DEF Away, Placed
    <3>2. snapshots'[m] = w.next
      BY <2>1, <2>2 DEF Put
    <3>3. Found(w, d) /\ Ceremony(w, d)
      BY <2>1, <3>1 DEF Standing, Unwritten, Asking
    <3>4. Effect(d, w.next, w.run)
      <4> HIDE DEF w, d
      <4>1. CASE w.op \in Updates /\ w.next = Bump(Mutated(w, d))
        BY <2>1, <3>1, <3>3, <4>1, UpdateEffect DEF Updates
      <4>2. CASE /\ w.op \in Commands /\ LegalTarget(d, CommandTarget(w.op, d))
                 /\ w.next = Bump(CommandTarget(w.op, d))
        BY <2>1, <3>1, <3>3, <4>2, CommandEffect
      <4>3. QED
        BY <2>1, <3>1, <4>1, <4>2 DEF Standing, InStep
    <3>5. QED
      BY <2>2, <3>2, <3>4
  <2>3. CASE w.mission # m
    BY <2>1, <2>3 DEF Put
  <2>4. QED
    BY <2>2, <2>3
<1>3. ASSUME NEW s \in Sessions, Step(s)
      PROVE  snapshots'[m] = snapshots[m] \/ Wrote
  BY <1>1, <1>2, <1>3
  DEF Step, missionStores, FindAuthorization, ScopeBound, CheckConflict,
      AppendAuthorization, Allowed, GateBlock, Blocked, ComputeThrows, ComputeWaits,
      ComputeDone, Refresh, LogEvent, StoreReceipt, ReplayKey, NewKey, LoadMission,
      ExecuteCommand, SealKey, FailKey
<1>4. CASE \E s \in Sessions :
             \/ \E i \in Intents, r \in Runs : Begin(s, i, r)
             \/ \E r \in Runs : BelowMode(s, r)
             \/ Crash(s) \/ StoreError(s)
  <2>1. UNCHANGED snapshots
    BY <1>4 DEF Begin, FindMission, FindNone, BelowMode, Crash, StoreError, Fault,
                vars, missionStores
  <2>2. QED
    BY <2>1
<1>5. CASE UNCHANGED vars \/ \E k \in DOMAIN idempotency : Expire(k)
  <2>1. UNCHANGED snapshots
    BY <1>5 DEF Expire, vars, missionStores
  <2>2. QED
    BY <2>1
<1>6. QED
  BY <1>3, <1>4, <1>5 DEF Next

LEMMA SoloInvariant ==
  ASSUME OneSession
  PROVE  Spec => [](TypeInv /\ SoloInv)
  BY AuthInit, AuthStep, SoloInit, SoloStep, TypeInvariant, PTL DEF Spec

(***************************************************************************)
(* With one session, a mission turns APPROVED only by a run whose          *)
(* approvals satisfy its materiality, and a phase that executes completes  *)
(* only by a run that besides brings a trusted receipt, unless the chain   *)
(* is read-only.                                                           *)
(***************************************************************************)
THEOREM EffectsAreEarned ==
  ASSUME OneSession
  PROVE  Spec => CeremonyEarned
<1>1. TypeInv /\ SoloInv /\ [Next]_vars =>
        [\A m \in DOMAIN snapshots :
           /\ snapshots'[m].status = "APPROVED" /\ snapshots[m].status # "APPROVED"
                => WrittenBy(m, Cleared)
           /\ (\E p \in EXECUTE .. ARCHIVE : Completes(m, p))
                => readOnly(snapshots[m].intent) \/ WrittenBy(m, Governed)]_snapshots
  BY Replaced DEF Effect, WrittenBy, Completes
<1>2. QED
  BY <1>1, SoloInvariant, PTL DEF Spec, CeremonyEarned

(***************************************************************************)
(* With one session, a wait is left only by a run that asks for it:        *)
(* evidence by resuming, a gate by an approver, approval by a run whose    *)
(* materiality is satisfied.                                               *)
(***************************************************************************)
THEOREM WaitsAreReleased ==
  ASSUME OneSession
  PROVE  Spec => WaitsReleasedOnRequest
<1>1. TypeInv /\ SoloInv /\ [Next]_vars =>
        [\A m \in DOMAIN snapshots :
           /\ Leaves(m, "WAITING_FOR_EVIDENCE") => WrittenBy(m, Resuming)
           /\ Leaves(m, "BLOCKED_BY_GATE") => WrittenBy(m, Approving)
           /\ Leaves(m, "AWAITING_APPROVAL") => WrittenBy(m, Cleared)]_snapshots
  BY Replaced DEF Effect, WrittenBy, Leaves
<1>2. QED
  BY <1>1, SoloInvariant, PTL DEF Spec, WaitsReleasedOnRequest

(***************************************************************************)
(* With one session and at most one fault, every snapshot is sound.        *)
(*                                                                         *)
(* While nobody else writes, every save makes one of a few moves from what *)
(* is stored (Writes), and each of them leaves a sound snapshot sound.     *)
(* What could come between is a replay.  A record still EXECUTING is       *)
(* answered with the mission as it stands, so a run that meets one under   *)
(* the key of its approval would complete APPROVE on a mission that was    *)
(* never approved.  Such a record is left behind by a fault, and the       *)
(* approval comes after another command of the same run, asked or answered *)
(* at the version the approval is for: answered, by the one record that a  *)
(* fault has left; asked, after every record of the mission.  It takes a   *)
(* second fault to have both records.                                      *)
(***************************************************************************)
Prepares(d, p, disposition) ==
  derivePreparedStep(d).phase = p /\ derivePreparedStep(d).disposition = disposition

(* A sound snapshot, and what its plan says of alarm and proposal.         *)
Whole(d) ==
  /\ SoundSnapshot(d)
  /\ d.steps[PROPOSE] = "SKIPPED" => ~d.alarmed /\ ~d.proposal
  /\ d.steps[APPROVE] = "SKIPPED" => ~d.proposal
  /\ d.status = "APPROVED" => d.proposal

Approved(d) ==
  /\ d.status = "APPROVED" /\ d.proposal
  /\ d.current = APPROVE /\ d.steps[APPROVE] = "IN_PROGRESS"

(* Where a sound mission is when a phase of it may be passed. *)
Ready(d, p) ==
  /\ p \in Phases
  /\ d.steps[p] \in {"PENDING", "IN_PROGRESS"}
  /\ \A q \in Phases : q < p => d.steps[q] \in Passed
  /\ \A q \in Phases : q > p => d.steps[q] = "PENDING"
  /\ d.status \in {"DRAFT", "QUEUED", "RUNNING", "APPROVED"}
  /\ d.status = "DRAFT" => p = INTAKE
  /\ d.status = "QUEUED" => p = BIND_SCOPE
  /\ d.status = "RUNNING" => p > BIND_SCOPE
  /\ d.status = "APPROVED" => p >= APPROVE

Authorizes(records, p) == \E a \in records : a.family = familyForPhase(p)

(* The moves of a mission from d to n, under the records it has: its plan  *)
(* is made, it passes a phase, comes to wait at one, or leaves a wait.     *)
Plans(d, n) == Fresh(d) /\ d.receipt = 0 /\ n = Bump(WithPlan(d))

Passes(d, n, p, mark, records) ==
  /\ Ready(d, p) /\ mark \in Passed
  /\ n.current = p /\ n.steps = [d.steps EXCEPT ![p] = mark]
  /\ n.status = CASE p = INTAKE     -> "QUEUED"
                  [] p = BIND_SCOPE -> "RUNNING"
                  [] p = ARCHIVE    -> "COMPLETED"
                  [] OTHER          -> d.status
  /\ n.proposal = (d.proposal \/ (p = PROPOSE /\ mark = "COMPLETED"))
  /\ n.alarmed => d.alarmed \/ p = RECONCILE
  /\ n.receipt # 0 <=>
       d.receipt # 0 \/ (mark = "COMPLETED" /\ Warrants(d.intent, p))
  /\ mark = "COMPLETED" => IF p = APPROVE THEN Approved(d) ELSE Authorizes(records, p)
  /\ mark = "SKIPPED" => p \in Conditional(d.intent) /\ ~d.proposal /\ ~d.alarmed

Waits(d, n, p, records) ==
  /\ Ready(d, p) /\ d.status = "RUNNING" /\ Authorizes(records, p)
  /\ n.proposal = d.proposal /\ n.receipt = d.receipt
  /\ \/ /\ p \in {INGEST, RECONCILE} /\ n.status = "WAITING_FOR_EVIDENCE"
        /\ n.current = p /\ n.steps = [d.steps EXCEPT ![p] = "IN_PROGRESS"]
     \/ /\ p = APPROVE /\ n.status = "AWAITING_APPROVAL" /\ n.alarmed = d.alarmed
        /\ n.current = p /\ n.steps = [d.steps EXCEPT ![p] = "IN_PROGRESS"]
     \/ /\ p = APPROVE /\ n.status = "BLOCKED_BY_GATE"
        /\ d.alarmed \/ d.proposal
        /\ n.current = d.current /\ n.steps = d.steps

Releases(d, n, records) ==
  /\ n.current = d.current /\ n.steps = d.steps /\ n.alarmed = d.alarmed
  /\ n.proposal = d.proposal /\ n.receipt = d.receipt
  /\ \/ d.status = "WAITING_FOR_EVIDENCE" /\ n.status = "RUNNING"
     \/ /\ d.status = "BLOCKED_BY_GATE" /\ n.status = "RUNNING"
        /\ Authorizes(records, APPROVE)
     \/ d.status = "AWAITING_APPROVAL" /\ n.status = "APPROVED" /\ d.proposal

Writes(d, n, records) ==
  /\ n \in Snapshot /\ n.intent = d.intent
  /\ \/ n = Bump(d)
     \/ Plans(d, n)
     \/ \E p \in Phases, mark \in Passed : Passes(d, n, p, mark, records)
     \/ \E p \in Phases : Waits(d, n, p, records)
     \/ Releases(d, n, records)

(* A step that is prepared is one the mission is ready for. *)
LEMMA PreparedReady ==
  ASSUME NEW d \in Snapshot, Whole(d), NEW p,
         NEW disposition \in {"SKIP", "RUN"}, Prepares(d, p, disposition)
  PROVE  Ready(d, p)
<1>1. /\ p \in Phases /\ p = nextPendingPhase(d)
      /\ d.status \notin Waiting \cup {"COMPLETED", "FAILED"}
  BY PreparedStep DEF Prepares
<1>2. p \in OpenPhases(d) /\ \A q \in OpenPhases(d) : p <= q
  BY <1>1, NextPending, PhaseNumbers
<1>3. SoundSnapshot(d) /\ d.status \in {"DRAFT", "QUEUED", "RUNNING", "APPROVED"}
  BY <1>1 DEF Whole, SoundSnapshot, StatusAgrees, Waiting
<1>4. d.current \in Phases /\ p >= d.current
  BY <1>2, <1>3 DEF SoundSnapshot, InOrder, OpenPhases
<1>5. /\ d.steps[d.current] # "ABSENT"
      /\ \A q \in Phases : q < d.current => d.steps[q] \in Passed
      /\ \A q \in Phases : q > d.current => d.steps[q] = "PENDING"
  BY <1>3, <1>4, PhaseNumbers DEF SoundSnapshot, InOrder
<1>6. /\ p \in Int /\ d.current \in Int
      /\ \A q \in Phases : q \in Int /\ d.steps[q] \in StepStatus
  BY <1>1, <1>4, PhaseNumbers DEF Snapshot
<1>7. CASE d.steps[d.current] \in {"PENDING", "IN_PROGRESS"}
  <2>1. p = d.current
    BY <1>2, <1>4, <1>6, <1>7 DEF OpenPhases
  <2>2. StatusAgrees(d)
    BY <1>3 DEF SoundSnapshot
  <2>3. /\ d.status = "DRAFT" => p = INTAKE
        /\ d.status # "QUEUED"
        /\ d.status = "RUNNING" => p \in {INGEST, RECONCILE}
        /\ d.status = "APPROVED" => p = APPROVE
    BY <1>4, <1>7, <2>1, <2>2, PhaseNumbers DEF StatusAgrees, At, Open, Passed
  <2>4. QED
    BY <1>1, <1>3, <1>5, <1>7, <2>1, <2>3, PhaseNumbers DEF Ready
<1>8. CASE d.steps[d.current] \in Passed
  <2>1. p > d.current
    BY <1>2, <1>4, <1>6, <1>8 DEF OpenPhases, Passed
  <2>2. \A q \in Phases : q > d.current => p <= q
    BY <1>2, <1>4, <1>5, <1>6 DEF OpenPhases
  <2>3. p = d.current + 1
    <3>1. d.current + 1 \in Phases
      BY <1>1, <1>4, <2>1, PhaseNumbers
    <3>2. QED
      BY <1>1, <1>4, <1>6, <2>1, <2>2, <3>1
  <2>4. \A q \in Phases : q < p => d.steps[q] \in Passed
    BY <1>4, <1>5, <1>6, <1>8, <2>3
  <2>5. \A q \in Phases : q > p => d.steps[q] = "PENDING"
    BY <1>4, <1>5, <1>6, <2>3
  <2>6. StatusAgrees(d)
    BY <1>3 DEF SoundSnapshot
  <2>7. /\ d.status # "DRAFT"
        /\ d.status = "QUEUED" => p = BIND_SCOPE
        /\ d.status = "RUNNING" => p > BIND_SCOPE
        /\ d.status = "APPROVED" => p >= APPROVE
    BY <1>4, <1>8, <2>3, <2>6, PhaseNumbers DEF StatusAgrees, At, Open, Passed
  <2>8. QED
    BY <1>1, <1>2, <1>3, <2>4, <2>5, <2>7 DEF Ready, OpenPhases
<1>9. QED
  BY <1>4, <1>5, <1>6, <1>7, <1>8 DEF StepStatus, Passed

LEMMA FreshWhole ==
  ASSUME NEW d \in Snapshot, Fresh(d), d.receipt = 0
  PROVE  Whole(d)
<1>1. /\ d.current = NoPhase /\ d.status = "DRAFT" /\ ~d.proposal /\ d.receipt = 0
      /\ \A p \in Phases : d.steps[p] = "ABSENT"
  BY DEF Fresh
<1>2. InOrder(d) /\ StatusAgrees(d)
  BY <1>1 DEF InOrder, StatusAgrees, Open
<1>3. CeremonyKept(d)
  BY <1>1, PhaseNumbers DEF CeremonyKept, Passed, Snapshot
<1>4. QED
  BY <1>1, <1>2, <1>3, PhaseNumbers DEF Whole, SoundSnapshot

LEMMA PlanWhole ==
  ASSUME NEW d \in Snapshot, NEW n, Plans(d, n)
  PROVE  Whole(n)
<1>1. /\ n.current = INTAKE /\ n.status = "DRAFT" /\ ~n.proposal /\ n.receipt = 0
      /\ n.steps = [p \in Phases |-> "PENDING"] /\ n.intent = d.intent
  BY DEF Plans, Fresh, Bump, WithPlan, Snapshot
<1>2. \A p \in Phases : n.steps[p] = "PENDING"
  BY <1>1
<1>3. InOrder(n) /\ StatusAgrees(n)
  BY <1>1, <1>2, PhaseNumbers DEF InOrder, StatusAgrees, Open, At
<1>4. CeremonyKept(n)
  BY <1>1, <1>2, PhaseNumbers DEF CeremonyKept, Passed
<1>5. QED
  BY <1>1, <1>2, <1>3, <1>4, PhaseNumbers DEF Whole, SoundSnapshot

LEMMA NoteWhole ==
  ASSUME NEW d \in Snapshot, Whole(d)
  PROVE  Whole(Bump(d))
<1> DEFINE n == Bump(d)
<1>1. /\ n.current = d.current /\ n.status = d.status /\ n.proposal = d.proposal
      /\ n.receipt = d.receipt /\ n.steps = d.steps /\ n.intent = d.intent
      /\ n.alarmed = d.alarmed
  BY DEF Bump, Snapshot
<1> HIDE DEF n
<1>2. QED
  BY <1>1 DEF Whole, SoundSnapshot, InOrder, StatusAgrees, Open, At, CeremonyKept, n

LEMMA PassWhole ==
  ASSUME NEW d \in Snapshot, Whole(d), d.intent \in CHAIN_INTENTS, NEW records,
         NEW n, n.intent = d.intent, NEW p, NEW mark, Passes(d, n, p, mark, records)
  PROVE  Whole(n)
<1>1. /\ p \in Phases /\ p \in 1 .. 13 /\ mark \in Passed
      /\ n.current = p /\ n.steps[p] = mark
      /\ \A q \in Phases \ {p} : n.steps[q] = d.steps[q]
  BY PhaseNumbers DEF Passes, Ready, Snapshot
<1>2. /\ \A q \in Phases : q < p => d.steps[q] \in Passed
      /\ \A q \in Phases : q > p => d.steps[q] = "PENDING"
      /\ d.steps[p] \in {"PENDING", "IN_PROGRESS"}
  BY DEF Passes, Ready
<1>3. InOrder(n)
  <2>1. \A q \in Phases : q \in Int
    BY PhaseNumbers
  <2>2. QED
    BY <1>1, <1>2, <2>1 DEF InOrder, Passed
<1>4. /\ d.status \in {"DRAFT", "QUEUED", "RUNNING", "APPROVED"}
      /\ d.status = "DRAFT" => p = INTAKE
      /\ d.status = "QUEUED" => p = BIND_SCOPE
      /\ d.status = "RUNNING" => p > BIND_SCOPE
      /\ d.status = "APPROVED" => p >= APPROVE
  BY DEF Passes, Ready
<1>5. /\ p = INTAKE => n.status = "QUEUED"
      /\ p = BIND_SCOPE => n.status = "RUNNING"
      /\ p = ARCHIVE => n.status = "COMPLETED"
      /\ p \notin {INTAKE, BIND_SCOPE, ARCHIVE} => n.status = d.status
  BY PhaseNumbers DEF Passes
<1>6. StatusAgrees(n)
  BY <1>1, <1>4, <1>5, PhaseNumbers DEF StatusAgrees, At, Open
<1>7. /\ mark = "COMPLETED" /\ p = APPROVE => d.status = "APPROVED" /\ d.proposal
      /\ mark = "SKIPPED" => p \in Conditional(d.intent) /\ ~d.proposal /\ ~d.alarmed
      /\ n.proposal <=> d.proposal \/ (p = PROPOSE /\ mark = "COMPLETED")
      /\ n.alarmed => d.alarmed \/ p = RECONCILE
      /\ n.receipt # 0 <=>
           d.receipt # 0 \/ (mark = "COMPLETED" /\ Warrants(d.intent, p))
  BY DEF Passes, Approved
<1>8. CeremonyKept(d) /\ (d.status = "APPROVED" => d.proposal)
      /\ (d.steps[PROPOSE] = "SKIPPED" => ~d.alarmed /\ ~d.proposal)
      /\ (d.steps[APPROVE] = "SKIPPED" => ~d.proposal)
  BY DEF Whole, SoundSnapshot
<1>9. {PROPOSE, APPROVE, EXECUTE, CLOSE, RECONCILE} \subseteq Phases
  BY PhaseNumbers
<1>10. n.proposal <=> n.steps[PROPOSE] = "COMPLETED"
  BY <1>1, <1>2, <1>7, <1>8, <1>9 DEF CeremonyKept, Passed
<1>11. \A q \in Phases : n.steps[q] = "SKIPPED" => q \in Conditional(n.intent)
  BY <1>1, <1>7, <1>8 DEF CeremonyKept
<1>12. n.steps[APPROVE] = "SKIPPED" => ~n.proposal
  <2>1. CASE p = PROPOSE
    BY <1>1, <1>2, <2>1, PhaseNumbers
  <2>2. CASE p # PROPOSE
    BY <1>1, <1>7, <1>8, <1>9, <2>2
  <2>3. QED
    BY <2>1, <2>2
<1>13. n.steps[APPROVE] = "COMPLETED"
        => n.proposal /\ n.status \in {"APPROVED", "COMPLETED"}
  <2>1. CASE p = APPROVE /\ mark = "COMPLETED"
    <3>1. d.status = "APPROVED" /\ d.proposal
      BY <1>7, <2>1
    <3>2. n.status = d.status
      BY <1>5, <2>1, PhaseNumbers
    <3>3. QED
      BY <1>7, <3>1, <3>2
  <2>2. CASE p # APPROVE /\ n.steps[APPROVE] = "COMPLETED"
    <3>1. d.steps[APPROVE] = "COMPLETED"
      BY <1>1, <1>9, <2>2
    <3>2. d.proposal /\ d.status = "APPROVED"
      BY <1>4, <1>8, <3>1 DEF CeremonyKept
    <3>3. n.status \in {"APPROVED", "COMPLETED"}
      BY <1>4, <1>5, <3>2, PhaseNumbers
    <3>4. QED
      BY <1>7, <3>2, <3>3
  <2>3. QED
    BY <1>1, <2>1, <2>2
<1>14. n.proposal /\ n.steps[EXECUTE] \in Passed => n.steps[APPROVE] = "COMPLETED"
  <2> SUFFICES ASSUME n.proposal, n.steps[EXECUTE] \in Passed
               PROVE  n.steps[APPROVE] = "COMPLETED"
    OBVIOUS
  <2>1. p >= EXECUTE
    BY <1>1, <1>2, PhaseNumbers DEF Passed
  <2>2. n.steps[APPROVE] \in Passed
    BY <1>1, <1>2, <1>9, <2>1, PhaseNumbers
  <2>3. QED
    BY <1>12, <2>2 DEF Passed
<1>15. n.receipt # 0 <=> n.steps[CLOSE] = "COMPLETED" /\ n.intent = "reconciliation"
  BY <1>1, <1>2, <1>7, <1>8, <1>9 DEF CeremonyKept, Warrants, Passed
<1>16. n.steps[PROPOSE] = "SKIPPED" => ~n.alarmed /\ ~n.proposal
  <2>1. CASE p = PROPOSE
    <3>1. p # RECONCILE /\ (mark = "SKIPPED" => ~d.alarmed /\ ~d.proposal)
      BY <1>7, <2>1, PhaseNumbers
    <3>2. QED
      BY <1>1, <1>7, <2>1, <3>1
  <2>2. CASE p # PROPOSE /\ n.steps[PROPOSE] = "SKIPPED"
    <3>1. d.steps[PROPOSE] = "SKIPPED"
      BY <1>1, <1>9, <2>2
    <3>2. p # RECONCILE
      BY <1>2, <3>1, PhaseNumbers
    <3>3. QED
      BY <1>7, <1>8, <2>2, <3>1, <3>2
  <2>3. QED
    BY <2>1, <2>2
<1>17. n.status = "APPROVED" => n.proposal
  BY <1>5, <1>7, <1>8
<1>18. CeremonyKept(n)
  BY <1>10, <1>11, <1>13, <1>14, <1>15 DEF CeremonyKept
<1>19. QED
  BY <1>3, <1>6, <1>12, <1>16, <1>17, <1>18 DEF Whole, SoundSnapshot

LEMMA WaitWhole ==
  ASSUME NEW d \in Snapshot, Whole(d), NEW records,
         NEW n, n.intent = d.intent, NEW p, Waits(d, n, p, records)
  PROVE  Whole(n)
<1>1. /\ p \in Phases /\ p \in 1 .. 13 /\ d.steps[p] \in {"PENDING", "IN_PROGRESS"}
      /\ \A q \in Phases : q < p => d.steps[q] \in Passed
      /\ \A q \in Phases : q > p => d.steps[q] = "PENDING"
      /\ d.status = "RUNNING"
      /\ n.proposal = d.proposal /\ n.receipt = d.receipt
  BY PhaseNumbers DEF Waits, Ready
<1>2. /\ InOrder(d) /\ StatusAgrees(d) /\ CeremonyKept(d)
      /\ (d.steps[PROPOSE] = "SKIPPED" => ~d.alarmed /\ ~d.proposal)
      /\ (d.steps[APPROVE] = "SKIPPED" => ~d.proposal)
  BY DEF Whole, SoundSnapshot
<1>3. {PROPOSE, APPROVE, EXECUTE, CLOSE, RECONCILE} \subseteq Phases
  BY PhaseNumbers
<1>4. ASSUME p \in {INGEST, RECONCILE, APPROVE}, n.current = p,
             n.steps = [d.steps EXCEPT ![p] = "IN_PROGRESS"],
             \/ p \in {INGEST, RECONCILE} /\ n.status = "WAITING_FOR_EVIDENCE"
             \/ p = APPROVE /\ n.status = "AWAITING_APPROVAL" /\ n.alarmed = d.alarmed
      PROVE  Whole(n)
  <2>1. /\ n.steps[p] = "IN_PROGRESS"
        /\ \A q \in Phases \ {p} : n.steps[q] = d.steps[q]
    BY <1>1, <1>4 DEF Snapshot
  <2>2. InOrder(n)
    <3>1. \A q \in Phases : q \in Int
      BY PhaseNumbers
    <3>2. QED
      BY <1>1, <1>4, <2>1, <3>1 DEF InOrder
  <2>3. StatusAgrees(n)
    BY <1>4, <2>1, PhaseNumbers DEF StatusAgrees, At
  <2>4. p # PROPOSE /\ p # EXECUTE /\ p # CLOSE
    BY <1>4, PhaseNumbers
  <2>5. /\ n.steps[PROPOSE] = d.steps[PROPOSE] /\ n.steps[EXECUTE] = d.steps[EXECUTE]
        /\ n.steps[CLOSE] = d.steps[CLOSE]
        /\ n.steps[APPROVE] \in {d.steps[APPROVE], "IN_PROGRESS"}
    BY <1>3, <2>1, <2>4
  <2>6. d.steps[APPROVE] # "COMPLETED"
    BY <1>1, <1>2 DEF CeremonyKept
  <2>7. d.steps[EXECUTE] = "PENDING"
    BY <1>1, <1>4, PhaseNumbers
  <2>8. CeremonyKept(n)
    BY <1>1, <1>2, <2>1, <2>5, <2>6, <2>7 DEF CeremonyKept, Passed
  <2>9. p # APPROVE => d.steps[PROPOSE] = "PENDING"
    BY <1>1, <1>4, PhaseNumbers
  <2>10. n.steps[PROPOSE] = "SKIPPED" => ~n.alarmed /\ ~n.proposal
    <3>1. CASE p # APPROVE
      BY <2>5, <2>9, <3>1
    <3>2. CASE p = APPROVE
      <4>1. n.alarmed = d.alarmed /\ n.proposal = d.proposal
        BY <1>1, <1>4, <3>2, PhaseNumbers
      <4>2. QED
        BY <1>2, <2>5, <4>1
    <3>3. QED
      BY <3>1, <3>2
  <2>11. n.steps[APPROVE] = "SKIPPED" => ~n.proposal
    BY <1>1, <1>2, <2>5
  <2>12. n.status # "APPROVED"
    BY <1>4
  <2>13. QED
    BY <2>2, <2>3, <2>8, <2>10, <2>11, <2>12 DEF Whole, SoundSnapshot
<1>5. ASSUME p = APPROVE, n.status = "BLOCKED_BY_GATE", d.alarmed \/ d.proposal,
             n.current = d.current, n.steps = d.steps
      PROVE  Whole(n)
  <2>1. At(d, {VERIFY}, Passed)
    <3>1. d.current \in Phases /\ d.current \in Int
      BY <1>1, <1>2, <1>3, PhaseNumbers DEF InOrder
    <3>2. At(d, BIND_SCOPE .. CLOSE, Passed)
      \/ At(d, {INGEST, RECONCILE}, {"IN_PROGRESS"})
      BY <1>1, <1>2 DEF StatusAgrees
    <3>3. d.current < APPROVE
      BY <1>1, <1>5, <3>1, <3>2, PhaseNumbers DEF At, Passed
    <3>4. ~(d.current < VERIFY)
      BY <1>1, <1>2, <1>5, <3>1, <3>3, PhaseNumbers DEF InOrder, Passed
    <3>5. QED
      BY <1>1, <1>5, <3>1, <3>3, <3>4, PhaseNumbers DEF At
  <2>2. InOrder(n) /\ StatusAgrees(n)
    BY <1>2, <1>5, <2>1 DEF InOrder, StatusAgrees, At
  <2>3. d.steps[APPROVE] # "COMPLETED"
    BY <1>1, <1>2 DEF CeremonyKept
  <2>4. CeremonyKept(n)
    BY <1>1, <1>2, <1>5, <2>3 DEF CeremonyKept
  <2>5. QED
    BY <1>1, <1>2, <1>5, <2>2, <2>4 DEF Whole, SoundSnapshot
<1>6. QED
  BY <1>4, <1>5 DEF Waits

LEMMA ReleaseWhole ==
  ASSUME NEW d \in Snapshot, Whole(d), NEW records,
         NEW n, n.intent = d.intent, Releases(d, n, records)
  PROVE  Whole(n)
<1>1. /\ n.current = d.current /\ n.steps = d.steps /\ n.alarmed = d.alarmed
      /\ n.proposal = d.proposal /\ n.receipt = d.receipt
      /\ \/ d.status = "WAITING_FOR_EVIDENCE" /\ n.status = "RUNNING"
         \/ d.status = "BLOCKED_BY_GATE" /\ n.status = "RUNNING"
         \/ d.status = "AWAITING_APPROVAL" /\ n.status = "APPROVED" /\ d.proposal
  BY DEF Releases
<1>2. /\ InOrder(d) /\ StatusAgrees(d) /\ CeremonyKept(d)
      /\ (d.steps[PROPOSE] = "SKIPPED" => ~d.alarmed /\ ~d.proposal)
      /\ (d.steps[APPROVE] = "SKIPPED" => ~d.proposal)
  BY DEF Whole, SoundSnapshot
<1>3. InOrder(n)
  BY <1>1, <1>2 DEF InOrder
<1>4. StatusAgrees(n)
  BY <1>1, <1>2, PhaseNumbers DEF StatusAgrees, At
<1>5. d.steps[APPROVE] # "COMPLETED"
  BY <1>1, <1>2 DEF CeremonyKept
<1>6. CeremonyKept(n)
  BY <1>1, <1>2, <1>5 DEF CeremonyKept
<1>7. QED
  BY <1>1, <1>2, <1>3, <1>4, <1>6 DEF Whole, SoundSnapshot

(* Whatever a mission moves to is as sound as what it was. *)
LEMMA WritesWhole ==
  ASSUME NEW d \in Snapshot, Whole(d), d.intent \in CHAIN_INTENTS, NEW records,
         NEW n, Writes(d, n, records)
  PROVE  Whole(n)
  BY NoteWhole, PlanWhole, PassWhole, WaitWhole, ReleaseWhole DEF Writes

(***************************************************************************)
(* What is known of a session at work on a mission whose stored snapshot   *)
(* is d and which has these records.                                       *)
(***************************************************************************)
Aimed(w, d) ==
  /\ w.pc \in Unwritten /\ w.op = "skip" => Prepares(d, w.phase, "SKIP")
  /\ w.pc \in {"refresh", "save"} /\ w.op = "run" =>
       /\ w.phase \notin {INTAKE, BIND_SCOPE, APPROVE, ARCHIVE}
       /\ w.alarm => w.phase = RECONCILE
       /\ w.receipt # 0 <=> Warrants(d.intent, w.phase)
  /\ w.op = "apply" => w.phase \in {INTAKE, BIND_SCOPE, ARCHIVE}
  /\ w.pc \in Unwritten \ Asking /\ w.op = "resolve" => d.status = "BLOCKED_BY_GATE"
  /\ w.pc \in Unwritten /\ w.op = "approve" => d.proposal
  /\ w.pc \in {"append", "seal"} /\ w.op = "approve" => Approved(d)
  /\ w.pc \in Unwritten /\ w.op = "approved" => Approved(d)
  /\ w.pc = "fail" => w.base.version <= d.version

Licensed(w, records) ==
  /\ w.pc = "enter" => ~Authorizes(records, w.phase)
  /\ w.pc \in Unwritten \ Asking
       /\ w.op \in {"run", "apply", "wait", "ask", "gate", "resolve"} =>
       Authorizes(records, w.phase)

(* What the handler of a lifecycle phase leaves of the snapshot. *)
LEMMA LifecycleFields ==
  ASSUME NEW d \in Snapshot, NEW p \in {INTAKE, BIND_SCOPE, ARCHIVE},
         NEW n, n = Bump(genericIntentHandler(d, p))
  PROVE  /\ n.current = p /\ n.steps = completeStep(d, p, "COMPLETED").steps
         /\ n.proposal = d.proposal /\ n.alarmed = d.alarmed
         /\ n.receipt = d.receipt /\ n.intent = d.intent
         /\ p = INTAKE => n.status = "QUEUED"
         /\ p = BIND_SCOPE => n.status = "RUNNING"
         /\ p = ARCHIVE => n.status = "COMPLETED"
<1> DEFINE at(status) == [completeStep(d, p, "COMPLETED") EXCEPT !.status = status]
<1>1. ASSUME NEW status
      PROVE  LET m == Bump(at(status)) IN
             /\ m.current = p /\ m.steps = completeStep(d, p, "COMPLETED").steps
             /\ m.proposal = d.proposal /\ m.alarmed = d.alarmed
             /\ m.receipt = d.receipt /\ m.intent = d.intent
             /\ m.status = status
  BY DEF completeStep, Bump, Snapshot
<1>2. /\ p = INTAKE => genericIntentHandler(d, p) = at("QUEUED")
      /\ p = BIND_SCOPE => genericIntentHandler(d, p) = at("RUNNING")
      /\ p = ARCHIVE => genericIntentHandler(d, p) = at("COMPLETED")
  BY PhaseNumbers DEF genericIntentHandler
<1> HIDE DEF at
<1>3. QED
  BY <1>1, <1>2, PhaseNumbers

(* So its save is a move of the mission: by one of the updates ... *)
LEMMA UpdateWrites ==
  ASSUME NEW w \in Session, NEW d \in Snapshot, NEW records, w.pc = "save",
         w.op \in Updates, w.op # "plan" => w.phase \in Phases,
         w.next = Bump(Mutated(w, d)), Whole(d), Good(records, d), Found(w, d),
         w.op = "plan" => d.version = 1, Aimed(w, d), Licensed(w, records)
  PROVE  Writes(d, w.next, records)
<1> DEFINE n == w.next
<1>1. n \in Snapshot /\ d.steps \in [Phases -> StepStatus]
  BY DEF Session, Snapshot
<1>2. CASE w.op = "plan"
  <2>1. Fresh(d)
    BY <1>2 DEF Good
  <2>2. d.receipt = 0
    BY <2>1, PhaseNumbers DEF Fresh, Whole, SoundSnapshot, CeremonyKept
  <2>3. n = Bump(WithPlan(d))
    BY <1>2 DEF Mutated
  <2>4. n.intent = d.intent
    BY <2>3 DEF Bump, WithPlan, Snapshot
  <2>5. QED
    BY <1>1, <2>1, <2>2, <2>3, <2>4 DEF Writes, Plans
<1>3. CASE w.op = "note"
  <2>1. n = Bump(d) /\ n.intent = d.intent
    BY <1>3 DEF Mutated, Bump, Snapshot
  <2>2. QED
    BY <1>1, <2>1 DEF Writes
<1>4. CASE w.op = "skip"
  <2> DEFINE p == w.phase
  <2>1. Prepares(d, p, "SKIP") /\ p \in Phases
    BY <1>4 DEF Aimed, Unwritten
  <2>2. Ready(d, p)
    BY <2>1, PreparedReady
  <2>3. p \in Conditional(d.intent) /\ ~d.proposal /\ ~d.alarmed
    BY <2>1, PreparedStep DEF Prepares, hasTriggeringCondition
  <2>4. p \notin {INTAKE, BIND_SCOPE, ARCHIVE}
    BY <2>3, ConditionalOf DEF Good
  <2>5. /\ n.current = p /\ n.steps = [d.steps EXCEPT ![p] = "SKIPPED"]
        /\ n.status = d.status /\ n.proposal = d.proposal /\ n.alarmed = d.alarmed
        /\ n.receipt = d.receipt /\ n.intent = d.intent
    BY <1>4 DEF Mutated, completeStep, Bump, Snapshot
  <2>6. d.proposal = (d.proposal \/ (p = PROPOSE /\ "SKIPPED" = "COMPLETED"))
    BY DEF Snapshot
  <2> HIDE DEF p, n
  <2>7. Passes(d, n, p, "SKIPPED", records)
    BY <2>2, <2>3, <2>4, <2>5, <2>6, PhaseNumbers DEF Passes, Passed
  <2>8. QED
    BY <1>1, <2>1, <2>5, <2>7 DEF Writes, n, Passed
<1>5. CASE w.op = "run"
  <2> DEFINE p == w.phase
  <2>1. /\ p \notin {INTAKE, BIND_SCOPE, APPROVE, ARCHIVE} /\ p \in Phases
        /\ w.alarm => p = RECONCILE
        /\ w.receipt # 0 <=> Warrants(d.intent, p)
    BY <1>5 DEF Aimed
  <2>2. Ready(d, p)
    BY <1>5, PreparedReady DEF Found, Prepares
  <2>3. Authorizes(records, p)
    BY <1>5 DEF Licensed, Unwritten, Asking
  <2>4. /\ n.current = p /\ n.steps = [d.steps EXCEPT ![p] = "COMPLETED"]
        /\ n.status = d.status /\ n.proposal = (d.proposal \/ p = PROPOSE)
        /\ n.alarmed = (d.alarmed \/ w.alarm)
        /\ n.receipt = (IF w.receipt = 0 THEN d.receipt ELSE w.receipt)
        /\ n.intent = d.intent
    BY <1>5 DEF Mutated, Completed, completeStep, Bump, Snapshot
  <2>5. n.alarmed => d.alarmed \/ p = RECONCILE
    BY <2>1, <2>4
  <2>6. n.receipt # 0 <=> d.receipt # 0 \/ Warrants(d.intent, p)
    BY <2>1, <2>4
  <2>7. n.proposal = (d.proposal \/ (p = PROPOSE /\ "COMPLETED" = "COMPLETED"))
    BY <2>4
  <2> HIDE DEF p, n
  <2>8. Passes(d, n, p, "COMPLETED", records)
    BY <2>1, <2>2, <2>3, <2>4, <2>5, <2>6, <2>7, PhaseNumbers DEF Passes, Passed
  <2>9. QED
    BY <1>1, <2>1, <2>4, <2>8 DEF Writes, n, Passed
<1>6. CASE w.op = "approved"
  <2>1. Approved(d)
    BY <1>6 DEF Aimed, Unwritten
  <2>2. Ready(d, APPROVE)
    <3>1. /\ APPROVE \in Phases
          /\ \A q \in Phases : q < APPROVE => d.steps[q] \in Passed
          /\ \A q \in Phases : q > APPROVE => d.steps[q] = "PENDING"
      BY <2>1, PhaseNumbers DEF Approved, Whole, SoundSnapshot, InOrder
    <3>2. QED
      BY <2>1, <3>1, PhaseNumbers DEF Approved, Ready
  <2>3. /\ n.current = APPROVE /\ n.steps = [d.steps EXCEPT ![APPROVE] = "COMPLETED"]
        /\ n.status = d.status /\ n.proposal = d.proposal /\ n.alarmed = d.alarmed
        /\ n.receipt = d.receipt /\ n.intent = d.intent
    BY <1>6 DEF Mutated, completeStep, Bump, Snapshot
  <2>4. d.proposal = (d.proposal \/ (APPROVE = PROPOSE /\ "COMPLETED" = "COMPLETED"))
    BY PhaseNumbers DEF Snapshot
  <2>5. ~Warrants(d.intent, APPROVE)
    BY PhaseNumbers DEF Warrants
  <2> HIDE DEF n
  <2>6. Passes(d, n, APPROVE, "COMPLETED", records)
    BY <2>1, <2>2, <2>3, <2>4, <2>5, PhaseNumbers DEF Passes, Passed
  <2>7. QED
    BY <1>1, <2>3, <2>6, PhaseNumbers DEF Writes, n, Passed
<1>7. QED
  BY <1>2, <1>3, <1>4, <1>5, <1>6 DEF Updates

(* ... or by a command of the engine. *)
LEMMA CommandWrites ==
  ASSUME NEW w \in Session, NEW d \in Snapshot, NEW records, w.pc = "save",
         w.op \in Commands, w.phase \in Phases,
         LegalTarget(d, CommandTarget(w.op, d)),
         w.next = Bump(CommandTarget(w.op, d)), Whole(d), Good(records, d),
         Found(w, d), w.op = "resolve" => w.phase = APPROVE,
         Aimed(w, d), Licensed(w, records)
  PROVE  Writes(d, w.next, records)
<1> DEFINE n == w.next
           t == CommandTarget(w.op, d)
           p == w.phase
           prepared == derivePreparedStep(d)
<1>1. n \in Snapshot /\ d.steps \in [Phases -> StepStatus]
  BY DEF Session, Snapshot
<1>2. t.status \in VALID_TRANSITIONS[d.status]
  BY DEF LegalTarget
<1>3. w.op \in {"apply", "wait", "ask", "gate", "resolve"} => Authorizes(records, p)
  BY DEF Licensed, Unwritten, Asking
<1>4. w.op \in {"apply", "wait", "ask", "gate"} =>
        /\ Ready(d, p) /\ Prepares(d, p, "RUN")
        /\ prepared.disposition = "RUN" /\ prepared.phase = p
  BY PreparedReady DEF Found, Prepares
<1>5. CASE w.op = "apply"
  <2>1. p \in {INTAKE, BIND_SCOPE, ARCHIVE}
    BY <1>5 DEF Aimed
  <2>2. t = genericIntentHandler(d, p)
    BY <1>4, <1>5, <2>1 DEF CommandTarget
  <2>4. /\ n.current = p /\ n.steps = [d.steps EXCEPT ![p] = "COMPLETED"]
        /\ n.proposal = d.proposal /\ n.alarmed = d.alarmed
        /\ n.receipt = d.receipt /\ n.intent = d.intent
        /\ p = INTAKE => n.status = "QUEUED"
        /\ p = BIND_SCOPE => n.status = "RUNNING"
        /\ p = ARCHIVE => n.status = "COMPLETED"
    <3>1. n = Bump(genericIntentHandler(d, p))
      BY <2>2
    <3> HIDE DEF n, p
    <3>2. [d.steps EXCEPT ![p] = "COMPLETED"] = completeStep(d, p, "COMPLETED").steps
      BY DEF completeStep, Snapshot
    <3>3. QED
      BY <2>1, <3>1, <3>2, LifecycleFields
  <2>5. d.proposal = (d.proposal \/ (p = PROPOSE /\ "COMPLETED" = "COMPLETED"))
    BY <2>1, PhaseNumbers DEF Snapshot
  <2>6. ~Warrants(d.intent, p) /\ p # APPROVE
    BY <2>1, PhaseNumbers DEF Warrants
  <2>7. Ready(d, p) /\ Authorizes(records, p)
    BY <1>3, <1>4, <1>5
  <2> HIDE DEF p, n
  <2>8. Passes(d, n, p, "COMPLETED", records)
    BY <2>1, <2>4, <2>5, <2>6, <2>7, PhaseNumbers DEF Passes, Passed
  <2>9. QED
    BY <1>1, <2>4, <2>8 DEF Writes, n, p, Passed
<1>6. CASE w.op \in {"wait", "ask", "gate"}
  <2>1. d.status \notin Waiting
    BY <1>4, <1>6, PreparedStep DEF Prepares
  <2>2. /\ w.op = "wait" => p \in {INGEST, RECONCILE}
        /\ w.op \in {"ask", "gate"} => p = APPROVE
    BY DEF Found
  <2>3. /\ w.op = "wait" => t = Asked(d, p)
        /\ w.op = "ask" => t = genericIntentHandler(d, APPROVE)
        /\ w.op = "gate" => t = [d EXCEPT !.status = "BLOCKED_BY_GATE", !.alarmed = TRUE]
    BY <1>4, <1>6, <2>2, PhaseNumbers DEF CommandTarget
  <2>4. w.op = "ask" =>
          t = [completeStep(d, p, "IN_PROGRESS") EXCEPT !.status = "AWAITING_APPROVAL"]
    BY <2>2, <2>3, PhaseNumbers DEF genericIntentHandler, markInProgress
  <2>5. /\ n.proposal = d.proposal /\ n.receipt = d.receipt /\ n.intent = d.intent
        /\ n.status = t.status
        /\ w.op = "wait" =>
             /\ n.status = "WAITING_FOR_EVIDENCE"
             /\ n.current = p /\ n.steps = [d.steps EXCEPT ![p] = "IN_PROGRESS"]
        /\ w.op = "ask" =>
             /\ n.status = "AWAITING_APPROVAL" /\ n.alarmed = d.alarmed
             /\ n.current = p /\ n.steps = [d.steps EXCEPT ![p] = "IN_PROGRESS"]
        /\ w.op = "gate" =>
             /\ n.status = "BLOCKED_BY_GATE"
             /\ n.current = d.current /\ n.steps = d.steps
    <3> HIDE DEF t
    <3>1. n = [t EXCEPT !.version = t.version + 1]
      BY DEF Bump, t
    <3>2. CASE w.op = "wait"
      BY <3>1, <3>2, <2>3 DEF Asked, markInProgress, completeStep, Snapshot
    <3>3. CASE w.op = "ask"
      BY <3>1, <3>3, <2>4 DEF completeStep, Snapshot
    <3>4. CASE w.op = "gate"
      BY <3>1, <3>4, <2>3 DEF Snapshot
    <3>5. QED
      BY <1>6, <3>2, <3>3, <3>4
  <2>6. d.status = "RUNNING"
    BY <1>2, <1>6, <2>1, <2>5 DEF VALID_TRANSITIONS, Waiting, Snapshot, Status
  <2>7. w.op = "gate" => d.alarmed \/ d.proposal
    <3>1. APPROVE \in Conditional(d.intent)
      BY ConditionalOf DEF Good
    <3>2. QED
      BY <1>4, <2>2, <3>1, PreparedStep DEF Prepares, hasTriggeringCondition
  <2>8. Ready(d, p) /\ Authorizes(records, p) /\ p \in Phases
    BY <1>3, <1>4, <1>6
  <2> HIDE DEF p, n, t
  <2>9. Waits(d, n, p, records)
    BY <1>6, <2>2, <2>5, <2>6, <2>7, <2>8 DEF Waits
  <2>10. QED
    BY <1>1, <2>5, <2>8, <2>9 DEF Writes, n
<1>7. CASE w.op \in {"resume", "resolve"}
  <2>1. /\ w.op = "resume" => d.status = "WAITING_FOR_EVIDENCE"
        /\ w.op = "resolve"
             => d.status = "BLOCKED_BY_GATE" /\ Authorizes(records, APPROVE)
    BY <1>3, <1>7 DEF Found, Resumes, Aimed, Unwritten, Asking
  <2>2. prepared.disposition # "RUN"
    BY <1>7, <2>1 DEF derivePreparedStep, Nothing, Waiting
  <2>3. t = [d EXCEPT !.status = "RUNNING"]
    BY <1>7, <2>2 DEF CommandTarget
  <2>4. /\ n.current = d.current /\ n.steps = d.steps /\ n.alarmed = d.alarmed
        /\ n.proposal = d.proposal /\ n.receipt = d.receipt /\ n.status = "RUNNING"
        /\ n.intent = d.intent
    BY <2>3 DEF Bump, Snapshot
  <2> HIDE DEF n
  <2>5. Releases(d, n, records)
    BY <1>7, <2>1, <2>4 DEF Releases
  <2>6. QED
    BY <1>1, <2>4, <2>5 DEF Writes, n
<1>8. CASE w.op = "approve"
  <2>1. t = [d EXCEPT !.status = "APPROVED"] /\ t.status = "APPROVED"
    BY <1>8 DEF CommandTarget, Snapshot
  <2>2. d.status = "AWAITING_APPROVAL"
    BY <1>2, <2>1 DEF VALID_TRANSITIONS, Snapshot, Status
  <2>3. d.proposal
    BY <1>8 DEF Aimed, Unwritten
  <2>4. /\ n.current = d.current /\ n.steps = d.steps /\ n.alarmed = d.alarmed
        /\ n.proposal = d.proposal /\ n.receipt = d.receipt /\ n.status = "APPROVED"
        /\ n.intent = d.intent
    BY <2>1 DEF Bump, Snapshot
  <2> HIDE DEF n
  <2>5. Releases(d, n, records)
    BY <2>2, <2>3, <2>4 DEF Releases
  <2>6. QED
    BY <1>1, <2>4, <2>5 DEF Writes, n
<1>9. QED
  BY <1>5, <1>6, <1>7, <1>8 DEF Commands

LEMMA SaveWrites ==
  ASSUME NEW w \in Session, NEW d \in Snapshot, NEW records, w.pc = "save",
         w.op \notin {"none", "start", "plan"} => w.phase \in Phases,
         Whole(d), Good(records, d), Standing(w, d), Backed(w, d, records),
         Aimed(w, d), Licensed(w, records)
  PROVE  Writes(d, w.next, records)
<1>1. Found(w, d) /\ w.base = d /\ InStep(w, d)
  BY DEF Standing, InStep, Unwritten
<1>2. w.op = "plan" => d.version = 1
  BY <1>1 DEF Backed, Carries
<1>3. w.op = "resolve" => w.phase = APPROVE
  BY DEF Backed, Entitled
<1>4. CASE w.op \in Updates /\ w.next = Bump(Mutated(w, d))
  BY <1>1, <1>2, <1>4, UpdateWrites DEF Updates
<1>5. CASE /\ w.op \in Commands /\ LegalTarget(d, CommandTarget(w.op, d))
           /\ w.next = Bump(CommandTarget(w.op, d))
  <2>1. w.phase \in Phases
    BY <1>5 DEF Commands
  <2>2. QED
    BY <1>1, <1>3, <1>5, <2>1, CommandWrites
<1>6. QED
  BY <1>1, <1>4, <1>5 DEF InStep

(* The record of a command that was cut short, and that nobody finishes.   *)
Owning(w) == w.pc \in {"save", "append", "seal", "fail"}

Orphan(k) ==
  /\ k \in DOMAIN idempotency /\ idempotency[k].state = "EXECUTING"
  /\ \A s \in Sessions : Owning(sess[s]) => KeyOf(sess[s]) # k

OneOrphan ==
  /\ \A k : Orphan(k) => faults >= 1
  /\ \A k, l : Orphan(k) /\ Orphan(l) => k = l

StoredWhole == \A m \in DOMAIN snapshots : Whole(snapshots[m])

RecordsUpTo ==
  \A k \in DOMAIN idempotency :
    k.mission \in DOMAIN snapshots /\ k.version <= snapshots[k.mission].version

RecordsWhole ==
  \A k \in DOMAIN idempotency :
    idempotency[k].state = "COMPLETED" => Whole(idempotency[k].result)

(* The approval of a run meets no record that is still EXECUTING.          *)
Unanswered(w, keys) ==
  w.op = "approve" /\ w.pc = "get" /\ KeyOf(w) \in DOMAIN keys =>
    keys[KeyOf(w)].state # "EXECUTING"

(* What a command has saved is later than every record of its mission.     *)
Latest(w, d, keys) ==
  w.op \in Commands /\ w.pc \in {"append", "seal"} =>
    \A k \in DOMAIN keys : k.mission = w.mission => k.version < d.version

Guided(w, d, records, keys) ==
  Aimed(w, d) /\ Licensed(w, records) /\ Unanswered(w, keys) /\ Latest(w, d, keys)

KeptInv ==
  /\ StoredWhole /\ OneOrphan /\ RecordsUpTo /\ RecordsWhole
  /\ \A s \in Sessions : LET w == sess[s] IN
       /\ w.pc = "start" => Whole(w.next)
       /\ w.pc \notin Away =>
            Guided(w, snapshots[w.mission], authorizations[w.mission], idempotency)

(* A session moves. *)
LEMMA KeptMoves ==
  ASSUME OneSession, TypeInv, NEW s \in Sessions, NEW v, Become(s, v),
         StoredWhole', OneOrphan', RecordsUpTo', RecordsWhole',
         v.pc = "start" => Whole(v.next),
         v.pc \notin Away => Guided(v, snapshots'[v.mission],
                                    authorizations'[v.mission], idempotency')
  PROVE  KeptInv'
<1>1. sess'[s] = v /\ \A t \in Sessions : t = s
  BY DEF TypeInv, SessionsOK, Become, OneSession
<1>2. QED
  BY <1>1 DEF KeptInv

(* A move leaves an orphan only where there was one. *)
LEMMA OrphansStay ==
  ASSUME OneSession, TypeInv, OneOrphan, NEW s \in Sessions, NEW v, Become(s, v),
         faults' = faults,
         \A k \in DOMAIN idempotency' :
           /\ idempotency'[k].state = "EXECUTING"
           /\ Owning(v) => KeyOf(v) # k
           => /\ k \in DOMAIN idempotency /\ idempotency[k].state = "EXECUTING"
              /\ Owning(sess[s]) => KeyOf(sess[s]) # k
  PROVE  OneOrphan'
<1>1. sess'[s] = v /\ \A t \in Sessions : t = s
  BY DEF TypeInv, SessionsOK, Become, OneSession
<1>2. \A k : Orphan(k)' => Orphan(k)
  BY <1>1 DEF Orphan
<1>3. QED
  BY <1>2 DEF OneOrphan

(* The key of an operation that is not a command is no record's. *)
LEMMA CommandKeys ==
  ASSUME TypeInv, NEW w, NEW k \in DOMAIN idempotency, KeyOf(w) = k
  PROVE  w.op \in Commands
<1>1. k \in Key
  BY DEF TypeInv, KeysOK, Documents
<1>2. KeyOf(w).op = w.op
  BY DEF KeyOf
<1>3. QED
  BY <1>1, <1>2 DEF Key

(* A session moves, and the snapshots and the records of commands stay.    *)
LEMMA KeptWork ==
  ASSUME OneSession, TypeInv, KeptInv, NEW s \in Sessions, NEW v, Become(s, v),
         UNCHANGED <<snapshots, idempotency, faults>>,
         Owning(sess[s]) /\ sess[s].op \in Commands =>
           Owning(v) /\ KeyOf(v) = KeyOf(sess[s]),
         v.pc = "start" => Whole(v.next),
         v.pc \notin Away => Guided(v, snapshots[v.mission],
                                    authorizations'[v.mission], idempotency)
  PROVE  KeptInv'
<1>1. OneOrphan'
  BY CommandKeys, OrphansStay DEF KeptInv
<1>2. StoredWhole' /\ RecordsUpTo' /\ RecordsWhole'
  BY DEF KeptInv, StoredWhole, RecordsUpTo, RecordsWhole
<1>3. QED
  BY <1>1, <1>2, KeptMoves

LEMMA KeptRest ==
  ASSUME OneSession, TypeInv, KeptInv, NEW s \in Sessions, Finish(s),
         UNCHANGED <<snapshots, idempotency, faults>>,
         ~(Owning(sess[s]) /\ sess[s].op \in Commands)
  PROVE  KeptInv'
<1>1. Idle.pc = "idle"
  BY DEF Idle
<1>2. QED
  BY <1>1, KeptWork DEF Finish, Away

(* What is known of the session at work. *)
LEMMA KeptAt ==
  ASSUME TypeInv, AuthInv, SoloInv, KeptInv, NEW s \in Sessions, sess[s].pc \notin Away
  PROVE  LET w == sess[s]
             d == snapshots[w.mission]
             records == authorizations[w.mission]
         IN  /\ w \in Session /\ Placed(w, DOMAIN snapshots)
             /\ w.mission \in DOMAIN snapshots /\ w.mission \in Missions
             /\ d \in Snapshot /\ Whole(d) /\ Good(records, d)
             /\ Backed(w, d, records) /\ Standing(w, d)
             /\ Guided(w, d, records, idempotency)
<1>1. Whole(snapshots[sess[s].mission])
  BY SoloAt DEF KeptInv, StoredWhole
<1>2. QED
  BY <1>1, SoloAt, AtWork DEF KeptInv

LEMMA KeptInit == Init => KeptInv
<1>1. Idle.pc = "idle"
  BY DEF Idle
<1>2. Init => DOMAIN idempotency = {} /\ DOMAIN snapshots = {}
  BY DEF Init
<1>3. Init => OneOrphan
  BY <1>2 DEF OneOrphan, Orphan
<1>4. QED
  BY <1>1, <1>2, <1>3
  DEF Init, KeptInv, StoredWhole, RecordsUpTo, RecordsWhole, Away

(***************************************************************************)
(* A run begins.                                                           *)
(***************************************************************************)
LEMMA PreparedGuided ==
  ASSUME NEW run \in Runs, NEW m \in Missions, NEW b \in BOOLEAN, NEW d \in Snapshot,
         NEW records, NEW keys
  PROVE  LET v == Prepared(run, m, d, b) IN
         /\ v.pc # "start"
         /\ v.pc \notin Away => v.mission = m /\ Guided(v, d, records, keys)
<1> DEFINE prepared == derivePreparedStep(d)
           at == [Idle EXCEPT !.mission = m, !.phase = prepared.phase,
                              !.run = run, !.base = d]
           v  == Prepared(run, m, d, b)
<1>0. /\ Idle \in Session /\ Idle.pc = "idle"
  BY IdleOK DEF Idle
<1>1. v = Idle \/ (v.mission = m /\ v.phase = prepared.phase)
  BY <1>0 DEF Prepared, Session
<1>2. \/ v = Idle
      \/ v.pc = "refresh" /\ v.op = "skip" /\ prepared.disposition = "SKIP"
      \/ v.pc = "get" /\ v.op = "resume"
      \/ v.pc = "authorize" /\ v.op = "resolve"
      \/ v.pc = "authorize" /\ v.op = "run"
  BY <1>0 DEF Prepared, Session
<1> HIDE DEF prepared, at, v
<1>3. ASSUME v # Idle PROVE Guided(v, d, records, keys)
  <2>1. Aimed(v, d)
    BY <1>1, <1>2, <1>3 DEF Aimed, Unwritten, Asking, Prepares, prepared
  <2>2. Licensed(v, records)
    BY <1>2, <1>3 DEF Licensed, Unwritten, Asking
  <2>3. Unanswered(v, keys) /\ Latest(v, d, keys)
    BY <1>2, <1>3 DEF Unanswered, Latest
  <2>4. QED
    BY <2>1, <2>2, <2>3 DEF Guided
<1>4. QED
  BY <1>0, <1>1, <1>2, <1>3 DEF v, Away

LEMMA KeptBegin ==
  ASSUME OneSession, TypeInv, KeptInv, NEW s \in Sessions, NEW i \in Intents,
         NEW r \in Runs, Begin(s, i, r)
  PROVE  KeptInv'
<1>1. /\ UNCHANGED <<snapshots, idempotency, faults, authorizations>>
      /\ sess[s].pc = "idle"
  BY DEF Begin, FindMission, FindNone, MayBegin, Working, missionStores, grants, bounds
<1>2. ~Owning(sess[s])
  BY <1>1 DEF Owning
<1>3. CASE FindMission(s, i, r)
  <2>1. PICK m \in Active(i) : Become(s, Prepared(r, m, snapshots[m], FALSE))
    BY <1>3 DEF FindMission
  <2>2. m \in Missions /\ snapshots[m] \in Snapshot
    BY DEF Active, TypeInv, SnapshotsOK, Documents
  <2> DEFINE v == Prepared(r, m, snapshots[m], FALSE)
  <2> HIDE DEF v
  <2>3. /\ v.pc # "start"
        /\ v.pc \notin Away => /\ v.mission = m
                               /\ Guided(v, snapshots[m], authorizations[m], idempotency)
    BY <2>2, PreparedGuided DEF v
  <2>4. QED
    BY <1>1, <1>2, <2>1, <2>3, KeptWork DEF v
<1>4. CASE FindNone(s, i, r)
  <2> DEFINE v == [Idle EXCEPT !.pc = "start", !.op = "start", !.run = r,
                               !.next = Started(i)]
  <2>1. v.pc = "start" /\ v.next = Started(i) /\ Become(s, v)
    BY <1>4 DEF Idle, FindNone
  <2>2. Started(i) \in Snapshot /\ Fresh(Started(i)) /\ Started(i).receipt = 0
    <3>1. i \in EdaIntent
      BY ChainIntentsAssumption DEF CHAIN_INTENTS, EdaIntent, EDA_INTENTS, HARNESS_INTENTS
    <3>2. QED
      BY <3>1, StartedType DEF Started, Fresh
  <2>3. Whole(v.next)
    BY <2>1, <2>2, FreshWhole
  <2> HIDE DEF v
  <2>4. QED
    BY <1>1, <1>2, <2>1, <2>3, KeptWork DEF Away
<1>5. QED
  BY <1>3, <1>4 DEF Begin

LEMMA KeptStart ==
  ASSUME OneSession, TypeInv, AuthInv, KeptInv, NEW s \in Sessions,
         NEW m \in Missions, StartMission(s, m)
  PROVE  KeptInv'
<1> DEFINE w == sess[s]
           v == [w EXCEPT !.pc = "append", !.mission = m]
<1>1. /\ w.pc = "start" /\ w \in Session
      /\ m \notin DOMAIN snapshots /\ snapshots' = Put(snapshots, m, w.next)
      /\ Become(s, v) /\ UNCHANGED <<idempotency, faults>>
  BY DEF StartMission, TypeInv, SessionsOK, bounds
<1>2. w.op = "start" /\ Whole(w.next)
  BY <1>1 DEF AuthInv, SessionsBacked, Beginning, KeptInv
<1>3. /\ DOMAIN snapshots' = DOMAIN snapshots \cup {m} /\ snapshots'[m] = w.next
      /\ \A n \in DOMAIN snapshots : snapshots'[n] = snapshots[n]
  BY <1>1 DEF Put
<1>4. StoredWhole' /\ RecordsUpTo' /\ RecordsWhole'
  BY <1>1, <1>2, <1>3 DEF KeptInv, StoredWhole, RecordsUpTo, RecordsWhole
<1>5. v.pc = "append" /\ v.op = "start" /\ v.mission = m
  BY <1>1, <1>2 DEF Session
<1> HIDE DEF v
<1>6. OneOrphan'
  <2>1. ~Owning(w)
    BY <1>1 DEF Owning
  <2>2. QED
    BY <1>1, <2>1, OrphansStay DEF KeptInv
<1>7. Guided(v, snapshots'[m], authorizations'[m], idempotency')
  BY <1>5 DEF Guided, Aimed, Licensed, Unanswered, Latest, Commands, Unwritten
<1>8. QED
  BY <1>1, <1>4, <1>5, <1>6, <1>7, KeptMoves

(***************************************************************************)
(* Authorization and the gates.                                            *)
(***************************************************************************)
LEMMA KeptAsk ==
  ASSUME OneSession, TypeInv, AuthInv, SoloInv, KeptInv, NEW s \in Sessions,
         \/ FindAuthorization(s) \/ ScopeBound(s) \/ CheckConflict(s)
         \/ AppendAuthorization(s)
  PROVE  KeptInv'
<1> DEFINE w == sess[s]
           d == snapshots[w.mission]
           records == authorizations[w.mission]
<1>1. /\ w.pc \in {"authorize", "bound", "grant", "enter"}
      /\ UNCHANGED <<snapshots, idempotency, faults>>
  BY DEF FindAuthorization, ScopeBound, CheckConflict, AppendAuthorization,
         missionStores, bounds
<1>2. w \in Session /\ w.op \in {"run", "resolve"} /\ ~Owning(w)
  BY <1>1, SoloAt DEF Away, Placed, Owning
<1>3. ASSUME NEW pc \in {"bound", "grant", "enter", "gates"}, Goto(s, pc),
             pc = "enter" => /\ ~Authorizes(records, w.phase)
                             /\ UNCHANGED authorizations
      PROVE  KeptInv'
  <2> DEFINE v == [w EXCEPT !.pc = pc]
  <2>1. /\ v.pc = pc /\ v.op = w.op /\ v.mission = w.mission /\ v.phase = w.phase
    BY <1>2 DEF Session
  <2>2. Become(s, v)
    BY <1>3 DEF Goto
  <2> HIDE DEF v
  <2>3. Aimed(v, d)
    BY <1>2, <2>1 DEF Aimed, Asking
  <2>4. Licensed(v, authorizations'[w.mission])
    BY <1>3, <2>1 DEF Licensed, Asking
  <2>5. Unanswered(v, idempotency) /\ Latest(v, d, idempotency)
    BY <1>2, <2>1 DEF Unanswered, Latest
  <2>6. v.pc # "start"
    BY <2>1
  <2>7. QED
    BY <1>1, <1>2, <2>1, <2>2, <2>3, <2>4, <2>5, <2>6, KeptWork DEF Guided
<1>4. \/ Finish(s)
      \/ \E pc \in {"bound", "grant", "gates"} : Goto(s, pc)
      \/ /\ Goto(s, "enter") /\ UNCHANGED authorizations
         /\ \A a \in records : a.family # Family(w)
  BY DEF FindAuthorization, ScopeBound, CheckConflict, AppendAuthorization, CannotRead,
         grants
<1>5. CASE Finish(s)
  BY <1>1, <1>2, <1>5, KeptRest
<1>6. CASE \E pc \in {"bound", "grant", "gates"} : Goto(s, pc)
  BY <1>3, <1>6
<1>7. CASE /\ Goto(s, "enter") /\ UNCHANGED authorizations
           /\ \A a \in records : a.family # Family(w)
  BY <1>3, <1>7 DEF Authorizes, Family
<1>8. QED
  BY <1>4, <1>5, <1>6, <1>7

(* No run is let through at APPROVE on a mission that awaits approval: it  *)
(* would ask for what it already waits for.                                *)
LEMMA AwaitingBlocked ==
  ASSUME NEW w \in Session, w.op = "resolve", w.phase = APPROVE,
         FirstBlocked(RequestOf(w)) = "none"
  PROVE  w.base.status # "AWAITING_APPROVAL"
<1> DEFINE r == RequestOf(w)
<1>1. r.family = "APPROVE" /\ r.status = w.base.status /\ ~r.readOnly
  <2>1. familyForPhase(w.phase) = "APPROVE"
    BY DEF familyForPhase, INTAKE, BIND_SCOPE, INGEST, INVESTIGATE, VERIFY, PROPOSE,
           APPROVE, EXECUTE, ARCHIVE
  <2>2. QED
    BY <2>1 DEF RequestOf, Family
<1>2. Stages[3] = "mission"
  BY DEF Stages
<1>3. ~Blocks("mission", r)
  BY <1>2, NoneBlocks
<1> HIDE DEF r
<1>4. Bearing(r) /\ Transitions[r.family] = "AWAITING_APPROVAL"
  BY <1>1 DEF Bearing, ReadOnlyRequest, READ_ONLY_FAMILIES, Transitions
<1>5. "AWAITING_APPROVAL" \in VALID_TRANSITIONS[r.status]
  BY <1>3, <1>4 DEF Blocks
<1>6. "AWAITING_APPROVAL" \notin VALID_TRANSITIONS["AWAITING_APPROVAL"]
  BY DEF VALID_TRANSITIONS
<1>7. QED
  BY <1>1, <1>5, <1>6

LEMMA KeptGates ==
  ASSUME OneSession, TypeInv, AuthInv, SoloInv, KeptInv, NEW s \in Sessions,
         Allowed(s) \/ GateBlock(s) \/ Blocked(s)
  PROVE  KeptInv'
<1> DEFINE w == sess[s]
           d == snapshots[w.mission]
           records == authorizations[w.mission]
<1>1. w.pc = "gates" /\ UNCHANGED <<snapshots, idempotency, faults, authorizations>>
  BY DEF Allowed, GateBlock, Blocked, missionStores, grants, bounds
<1>2. /\ w \in Session /\ Standing(w, d) /\ w.op \in {"run", "resolve"}
      /\ Backed(w, d, records) /\ ~Owning(w)
  BY <1>1, KeptAt DEF Away, Placed, Owning
<1>3. /\ w.base = d /\ Found(w, d) /\ (w.op = "resolve" => w.phase = APPROVE)
      /\ Bound(w) \in records
  BY <1>1, <1>2 DEF Standing, InStep, Unwritten, Backed, Entitled
<1>4. Authorizes(records, w.phase)
  BY <1>3 DEF Authorizes, Bound, Family
<1>5. ASSUME NEW v, Become(s, v), v.mission = w.mission, v.phase = w.phase,
             \/ v.pc = "compute" /\ v.op = "run"
             \/ v.pc = "get" /\ v.op = "gate"
             \/ v.pc = "get" /\ v.op = "resolve" /\ d.status = "BLOCKED_BY_GATE"
      PROVE  KeptInv'
  <2>1. Aimed(v, d) /\ Unanswered(v, idempotency) /\ Latest(v, d, idempotency)
    BY <1>5 DEF Aimed, Unanswered, Latest
  <2>2. Licensed(v, records)
    BY <1>4, <1>5 DEF Licensed
  <2>3. QED
    BY <1>1, <1>2, <1>5, <2>1, <2>2, KeptWork DEF Guided
<1> DEFINE run == [w EXCEPT !.pc = "compute"]
           resolve == [w EXCEPT !.pc = "get"]
           gate == [w EXCEPT !.pc = "get", !.op = "gate"]
<1>6. /\ \A v \in {run, resolve, gate} : v.mission = w.mission /\ v.phase = w.phase
      /\ run.pc = "compute" /\ run.op = w.op
      /\ resolve.pc = "get" /\ resolve.op = w.op
      /\ gate.pc = "get" /\ gate.op = "gate"
  BY <1>2 DEF Session
<1>7. CASE Allowed(s)
  <2>1. CASE w.op = "run"
    <3>1. Become(s, run)
      BY <1>7, <2>1 DEF Allowed
    <3> HIDE DEF run
    <3>2. QED
      BY <1>5, <1>6, <2>1, <3>1
  <2>2. CASE w.op = "resolve"
    <3>1. d.status # "AWAITING_APPROVAL"
      BY <1>2, <1>3, <1>7, <2>2, AwaitingBlocked DEF Allowed
    <3>2. d.status = "BLOCKED_BY_GATE"
      BY <1>3, <2>2, <3>1 DEF Found, Resolves
    <3>3. Become(s, resolve)
      BY <1>3, <1>7, <2>2, <3>1 DEF Allowed
    <3> HIDE DEF resolve
    <3>4. QED
      BY <1>5, <1>6, <2>2, <3>2, <3>3
  <2>3. QED
    BY <1>2, <2>1, <2>2
<1>8. CASE GateBlock(s)
  <2>1. Become(s, gate)
    BY <1>8 DEF GateBlock
  <2> HIDE DEF gate
  <2>2. QED
    BY <1>5, <1>6, <2>1
<1>9. CASE Blocked(s)
  BY <1>1, <1>2, <1>9, KeptRest DEF Blocked
<1>10. QED
  BY <1>7, <1>8, <1>9

(***************************************************************************)
(* The computation, and the updates.                                       *)
(***************************************************************************)
LEMMA KeptCompute ==
  ASSUME OneSession, TypeInv, AuthInv, SoloInv, KeptInv, NEW s \in Sessions,
         ComputeThrows(s) \/ ComputeWaits(s) \/ ComputeDone(s)
  PROVE  KeptInv'
<1> DEFINE w == sess[s]
           d == snapshots[w.mission]
           records == authorizations[w.mission]
<1>1. w.pc = "compute" /\ UNCHANGED <<snapshots, idempotency, faults, authorizations>>
  BY DEF ComputeThrows, ComputeWaits, ComputeDone, missionStores, grants, bounds
<1>2. /\ w \in Session /\ w.op = "run" /\ w.phase \in Phases /\ Standing(w, d)
      /\ ~Owning(w) /\ minted \in Nat /\ Licensed(w, records)
  BY <1>1, KeptAt DEF Away, Placed, Owning, Guided, TypeInv, OthersOK
<1>3. w.base = d /\ Authorizes(records, w.phase)
  BY <1>1, <1>2 DEF Standing, InStep, Unwritten, Licensed, Asking
<1>4. ASSUME NEW v, Become(s, v), v.mission = w.mission, v.phase = w.phase,
             \/ v.pc = "get" /\ v.op \in {"wait", "ask"}
             \/ /\ v.pc = "get" /\ v.op = "apply"
                /\ w.phase \in {INTAKE, BIND_SCOPE, ARCHIVE}
             \/ /\ v.pc = "refresh" /\ v.op = "run"
                /\ w.phase \notin {INTAKE, BIND_SCOPE, APPROVE, ARCHIVE}
                /\ v.alarm => w.phase = RECONCILE
                /\ v.receipt # 0 <=> Warrants(d.intent, w.phase)
      PROVE  KeptInv'
  <2>1. Aimed(v, d)
    BY <1>4 DEF Aimed
  <2>2. Licensed(v, records)
    BY <1>3, <1>4 DEF Licensed
  <2>3. Unanswered(v, idempotency) /\ Latest(v, d, idempotency)
    BY <1>4 DEF Unanswered, Latest
  <2>4. QED
    BY <1>1, <1>2, <1>4, <2>1, <2>2, <2>3, KeptWork DEF Guided
<1>5. CASE ComputeThrows(s)
  BY <1>1, <1>2, <1>5, KeptRest DEF ComputeThrows
<1>6. CASE ComputeWaits(s)
  <2>1. PICK o \in Outputs : Become(s, [w EXCEPT !.pc = "get", !.op = "wait",
                                                 !.output = o])
    BY <1>6 DEF ComputeWaits
  <2> DEFINE v == [w EXCEPT !.pc = "get", !.op = "wait", !.output = o]
  <2>2. v.pc = "get" /\ v.op = "wait" /\ v.mission = w.mission /\ v.phase = w.phase
    BY <1>2 DEF Session
  <2> HIDE DEF v
  <2>3. QED
    BY <1>4, <2>1, <2>2 DEF v
<1>7. CASE ComputeDone(s)
  <2> DEFINE warranted == Warrants(w.base.intent, w.phase)
             receipt == IF warranted THEN minted' ELSE 0
  <2>1. PICK o \in Outputs, alarm \in {FALSE, MayAlarm(w.base.intent, w.phase)} :
          Become(s, CASE w.phase \in {INTAKE, BIND_SCOPE, ARCHIVE} ->
                           [[w EXCEPT !.output = o, !.alarm = alarm,
                                      !.receipt = receipt]
                              EXCEPT !.pc = "get", !.op = "apply"]
                      [] w.phase = APPROVE ->
                           [[w EXCEPT !.output = o, !.alarm = alarm,
                                      !.receipt = receipt]
                              EXCEPT !.pc = "get", !.op = "ask"]
                      [] OTHER -> [[w EXCEPT !.output = o, !.alarm = alarm,
                                             !.receipt = receipt]
                                     EXCEPT !.pc = "refresh"])
    BY <1>7 DEF ComputeDone
  <2>2. receipt # 0 <=> Warrants(d.intent, w.phase)
    <3>1. minted' = IF warranted THEN minted + 1 ELSE minted
      BY <1>7 DEF ComputeDone
    <3>2. QED
      BY <1>2, <1>3, <3>1
  <2>3. alarm => w.phase = RECONCILE
    BY <2>1 DEF MayAlarm
  <2> HIDE DEF receipt
  <2> DEFINE applies == [w EXCEPT !.output = o, !.alarm = alarm, !.receipt = receipt,
                                  !.pc = "get", !.op = "apply"]
             asks    == [w EXCEPT !.output = o, !.alarm = alarm, !.receipt = receipt,
                                  !.pc = "get", !.op = "ask"]
             writes  == [w EXCEPT !.output = o, !.alarm = alarm, !.receipt = receipt,
                                  !.pc = "refresh"]
  <2>4. \/ w.phase \in {INTAKE, BIND_SCOPE, ARCHIVE} /\ Become(s, applies)
        \/ Become(s, asks)
        \/ w.phase \notin {INTAKE, BIND_SCOPE, APPROVE, ARCHIVE} /\ Become(s, writes)
    BY <2>1, PhaseNumbers
  <2>5. /\ \A v \in {applies, asks, writes} :
             v.mission = w.mission /\ v.phase = w.phase
        /\ applies.pc = "get" /\ applies.op = "apply"
        /\ asks.pc = "get" /\ asks.op = "ask"
        /\ writes.pc = "refresh" /\ writes.op = "run"
        /\ writes.alarm = alarm /\ writes.receipt = receipt
    BY <1>2 DEF Session
  <2> HIDE DEF applies, asks, writes
  <2>6. CASE w.phase \in {INTAKE, BIND_SCOPE, ARCHIVE} /\ Become(s, applies)
    BY <1>4, <2>5, <2>6
  <2>7. CASE Become(s, asks)
    BY <1>4, <2>5, <2>7
  <2>8. CASE w.phase \notin {INTAKE, BIND_SCOPE, APPROVE, ARCHIVE} /\ Become(s, writes)
    <3>1. /\ writes.alarm => w.phase = RECONCILE
          /\ writes.receipt # 0 <=> Warrants(d.intent, w.phase)
      BY <2>2, <2>3, <2>5
    <3>2. QED
      BY <1>4, <2>5, <2>8, <3>1
  <2>9. QED
    BY <2>4, <2>6, <2>7, <2>8
<1>8. QED
  BY <1>5, <1>6, <1>7

LEMMA KeptRefresh ==
  ASSUME OneSession, TypeInv, AuthInv, SoloInv, KeptInv, NEW s \in Sessions, Refresh(s)
  PROVE  KeptInv'
<1> DEFINE w == sess[s]
           d == snapshots[w.mission]
           records == authorizations[w.mission]
           v == [w EXCEPT !.pc = "save", !.next = Bump(Mutated(w, d))]
<1>1. /\ w.pc = "refresh"
      /\ UNCHANGED <<snapshots, idempotency, faults, authorizations>>
      /\ Finish(s) \/ Become(s, v)
  BY DEF Refresh, missionStores, grants, bounds
<1>2. /\ w \in Session /\ w.op \in Updates /\ ~Owning(w)
      /\ Guided(w, d, records, idempotency)
  BY <1>1, KeptAt DEF Away, Placed, Updates, Owning
<1>3. /\ v.pc = "save" /\ v.op = w.op /\ v.mission = w.mission /\ v.phase = w.phase
      /\ v.alarm = w.alarm /\ v.receipt = w.receipt
  BY <1>2 DEF Session
<1> HIDE DEF v
<1>4. Aimed(v, d)
  BY <1>1, <1>2, <1>3 DEF Guided, Aimed, Unwritten, Asking
<1>5. Licensed(v, records)
  BY <1>1, <1>2, <1>3 DEF Guided, Licensed, Unwritten, Asking
<1>6. Unanswered(v, idempotency) /\ Latest(v, d, idempotency)
  BY <1>3 DEF Unanswered, Latest
<1>7. CASE Become(s, v)
  BY <1>1, <1>2, <1>3, <1>4, <1>5, <1>6, <1>7, KeptWork DEF Guided
<1>8. QED
  BY <1>1, <1>2, <1>7, KeptRest

LEMMA KeptSave ==
  ASSUME OneSession, TypeInv, AuthInv, SoloInv, KeptInv, NEW s \in Sessions,
         SaveSnapshot(s)
  PROVE  KeptInv'
<1> DEFINE w == sess[s]
           d == snapshots[w.mission]
           n == w.next
           records == authorizations[w.mission]
           v == [w EXCEPT !.pc = "append"]
<1>1. /\ w.pc = "save" /\ Become(s, v)
      /\ UNCHANGED <<idempotency, faults, authorizations>>
      /\ snapshots' = Put(snapshots, w.mission, n)
  BY DEF SaveSnapshot, Goto, grants, bounds
<1>2. /\ w \in Session /\ w.mission \in DOMAIN snapshots /\ d \in Snapshot
      /\ Whole(d) /\ Good(records, d) /\ Backed(w, d, records) /\ Standing(w, d)
      /\ Guided(w, d, records, idempotency)
      /\ w.op \notin {"none", "start", "plan"} => w.phase \in Phases
  BY <1>1, KeptAt DEF Away, Placed
<1>3. /\ DOMAIN snapshots' = DOMAIN snapshots /\ snapshots'[w.mission] = n
      /\ \A m \in DOMAIN snapshots \ {w.mission} : snapshots'[m] = snapshots[m]
  BY <1>1, <1>2 DEF Put
<1>4. Whole(n)
  BY <1>1, <1>2, SaveWrites, WritesWhole DEF Guided, Good
<1>5. n.version = d.version + 1 /\ d.version \in Nat
  BY <1>1, <1>2, NextVersion DEF Standing, Snapshot
<1>6. /\ v.pc = "append" /\ v.op = w.op /\ v.mission = w.mission /\ v.phase = w.phase
      /\ KeyOf(v) = KeyOf(w)
  BY <1>2 DEF Session, KeyOf
<1> HIDE DEF v
<1>7. StoredWhole'
  BY <1>3, <1>4 DEF KeptInv, StoredWhole
<1>8. \A k \in DOMAIN idempotency : k.version \in Nat
  BY DEF TypeInv, KeysOK, Documents, Key
<1>9. RecordsUpTo'
  <2> SUFFICES ASSUME NEW k \in DOMAIN idempotency
               PROVE  k.mission \in DOMAIN snapshots
                      /\ k.version <= snapshots'[k.mission].version
    BY <1>1, <1>3 DEF RecordsUpTo
  <2>1. k.mission \in DOMAIN snapshots /\ k.version <= snapshots[k.mission].version
    BY DEF KeptInv, RecordsUpTo
  <2>2. QED
    BY <1>3, <1>5, <1>8, <2>1
<1>10. RecordsWhole'
  BY <1>1 DEF KeptInv, RecordsWhole
<1>11. OneOrphan'
  BY <1>1, <1>6, OrphansStay DEF KeptInv, Owning
<1>12. ASSUME w.op = "approve" PROVE Approved(n)
  <2>1. n = Bump([d EXCEPT !.status = "APPROVED"])
        /\ "APPROVED" \in VALID_TRANSITIONS[d.status]
    <3>1. /\ LegalTarget(d, CommandTarget(w.op, d))
          /\ n = Bump(CommandTarget(w.op, d))
      BY <1>1, <1>2, <1>12 DEF Standing, InStep, Updates
    <3>2. CommandTarget(w.op, d) = [d EXCEPT !.status = "APPROVED"]
      BY <1>12 DEF CommandTarget
    <3>3. QED
      BY <1>2, <3>1, <3>2 DEF LegalTarget, Snapshot
  <2>2. d.status = "AWAITING_APPROVAL" /\ d.proposal
    BY <1>1, <1>2, <1>12, <2>1 DEF VALID_TRANSITIONS, Snapshot, Status, Guided, Aimed,
                                   Unwritten
  <2>3. At(d, {APPROVE}, {"IN_PROGRESS"})
    BY <1>2, <2>2 DEF Whole, SoundSnapshot, StatusAgrees
  <2>4. /\ n.status = "APPROVED" /\ n.proposal = d.proposal
        /\ n.current = d.current /\ n.steps = d.steps
    BY <1>2, <2>1 DEF Bump, Snapshot
  <2>5. QED
    BY <2>2, <2>3, <2>4 DEF At, Approved
<1>13. Aimed(v, n)
  BY <1>2, <1>6, <1>12 DEF Guided, Aimed, Unwritten
<1>14. Licensed(v, records) /\ Unanswered(v, idempotency)
  BY <1>6 DEF Licensed, Unanswered, Unwritten
<1>15. Latest(v, n, idempotency)
  BY <1>5, <1>6, <1>8 DEF KeptInv, RecordsUpTo, Latest
<1>16. QED
  BY <1>1, <1>3, <1>6, <1>7, <1>9, <1>10, <1>11, <1>13, <1>14, <1>15, KeptMoves
  DEF Guided

LEMMA KeptLog ==
  ASSUME OneSession, TypeInv, AuthInv, SoloInv, KeptInv, NEW s \in Sessions, LogEvent(s)
  PROVE  KeptInv'
<1> DEFINE w == sess[s]
           d == snapshots[w.mission]
           records == authorizations[w.mission]
           plans  == [w EXCEPT !.pc = "refresh", !.op = "plan", !.base = w.next]
           begins == Prepared(w.run, w.mission, w.next, TRUE)
           seals  == [w EXCEPT !.pc = "seal"]
           stores == [w EXCEPT !.pc = "receipt"]
<1>1. w.pc = "append" /\ UNCHANGED <<snapshots, idempotency, faults, authorizations>>
  BY DEF LogEvent, grants, bounds
<1>2. /\ w \in Session /\ w.mission \in Missions /\ d \in Snapshot
      /\ (w.op = "plan" => w.run \in Runs) /\ Standing(w, d)
      /\ Guided(w, d, records, idempotency)
  BY <1>1, KeptAt DEF Away, Placed
<1>3. w.next = d
  BY <1>1, <1>2 DEF Standing, InStep
<1>4. \/ w.op = "start" /\ Become(s, plans)
      \/ w.op = "plan" /\ Become(s, begins)
      \/ w.op \in Commands /\ Become(s, seals)
      \/ w.op = "run" /\ Become(s, stores)
      \/ w.op \notin Commands /\ Finish(s)
  BY DEF LogEvent, Finish
<1>5. /\ plans.pc = "refresh" /\ plans.op = "plan" /\ plans.mission = w.mission
      /\ seals.pc = "seal" /\ stores.pc = "receipt"
      /\ KeyOf(seals) = KeyOf(w)
      /\ \A v \in {seals, stores} : v.mission = w.mission /\ v.op = w.op
                                    /\ v.phase = w.phase
  BY <1>2 DEF Session, KeyOf
<1>6. ASSUME w.op = "plan"
      PROVE  /\ begins.pc # "start"
             /\ begins.pc \notin Away => /\ begins.mission = w.mission
                                         /\ Guided(begins, d, records, idempotency)
  <2> DEFINE v == Prepared(w.run, w.mission, d, TRUE)
  <2>1. w.run \in Runs /\ w.mission \in Missions /\ d \in Snapshot
    BY <1>2, <1>6
  <2> HIDE DEF d
  <2>2. /\ v.pc # "start"
        /\ v.pc \notin Away => /\ v.mission = w.mission
                               /\ Guided(v, d, records, idempotency)
    BY <2>1, PreparedGuided
  <2>3. begins = v
    BY <1>3
  <2> HIDE DEF v, begins
  <2>4. QED
    BY <2>2, <2>3
<1> HIDE DEF plans, begins, seals, stores
<1>7. CASE w.op = "start" /\ Become(s, plans)
  <2>1. Guided(plans, d, records, idempotency)
    BY <1>5 DEF Guided, Aimed, Licensed, Unanswered, Latest, Commands
  <2>2. QED
    BY <1>1, <1>5, <1>7, <2>1, KeptWork DEF Commands
<1>8. CASE w.op = "plan" /\ Become(s, begins)
  BY <1>1, <1>6, <1>8, KeptWork DEF Commands
<1>9. CASE w.op \in Commands /\ Become(s, seals)
  <2>1. Aimed(seals, d)
    BY <1>1, <1>2, <1>5 DEF Guided, Aimed, Unwritten
  <2>2. Licensed(seals, records) /\ Unanswered(seals, idempotency)
    BY <1>5 DEF Licensed, Unanswered, Unwritten
  <2>3. Latest(seals, d, idempotency)
    BY <1>1, <1>2, <1>5 DEF Guided, Latest
  <2>4. QED
    BY <1>1, <1>5, <1>9, <2>1, <2>2, <2>3, KeptWork DEF Guided, Owning
<1>10. CASE w.op = "run" /\ Become(s, stores)
  <2>1. Guided(stores, d, records, idempotency)
    BY <1>5, <1>10 DEF Guided, Aimed, Licensed, Unanswered, Latest, Commands, Unwritten
  <2>2. QED
    BY <1>1, <1>5, <1>10, <2>1, KeptWork DEF Commands
<1>11. QED
  BY <1>1, <1>4, <1>7, <1>8, <1>9, <1>10, KeptRest

(***************************************************************************)
(* The commands of the engine.                                             *)
(***************************************************************************)
LEMMA KeptApplied ==
  ASSUME OneSession, TypeInv, AuthInv, SoloInv, KeptInv, NEW s \in Sessions,
         sess[s].pc \in {"get", "seal"},
         Become(s, Applied(sess[s], snapshots[sess[s].mission])),
         UNCHANGED <<snapshots, authorizations>>,
         OneOrphan', RecordsUpTo', RecordsWhole',
         \A v : /\ sess[s].op \in {"ask", "resolve"} /\ v.op = "approve"
                /\ v.mission = sess[s].mission
                /\ v.base = snapshots[sess[s].mission]
                => Unanswered(v, idempotency'),
         sess[s].op = "approve" => Approved(snapshots[sess[s].mission])
  PROVE  KeptInv'
<1> DEFINE w  == sess[s]
           d  == snapshots[w.mission]
           records == authorizations[w.mission]
           at == [w EXCEPT !.base = d]
           notes    == [at EXCEPT !.pc = "refresh", !.op = "note"]
           approves == [at EXCEPT !.pc = "get", !.op = "approve"]
           writes   == [at EXCEPT !.pc = "refresh", !.op = "approved"]
<1>1. w \in Session
  BY KeptAt DEF Away
<1>2. \/ Become(s, notes)
      \/ w.op \in {"ask", "resolve"} /\ d.proposal /\ Become(s, approves)
      \/ w.op = "approve" /\ Become(s, writes)
      \/ Become(s, Idle)
  BY DEF Applied
<1>3. /\ \A v \in {notes, approves, writes} : v.mission = w.mission /\ v.base = d
      /\ notes.pc = "refresh" /\ approves.pc = "get" /\ writes.pc = "refresh"
      /\ notes.op = "note" /\ approves.op = "approve" /\ writes.op = "approved"
  BY <1>1 DEF Session
<1>4. StoredWhole'
  BY DEF KeptInv, StoredWhole
<1> HIDE DEF at, notes, approves, writes
<1>5. ASSUME NEW v \in {notes, approves, writes}, Become(s, v),
             v.op = "approve" => d.proposal /\ Unanswered(v, idempotency'),
             v.op = "approved" => Approved(d)
      PROVE  KeptInv'
  <2>1. Aimed(v, d) /\ Licensed(v, records) /\ Latest(v, d, idempotency')
    BY <1>3, <1>5 DEF Aimed, Licensed, Latest
  <2>2. Unanswered(v, idempotency')
    BY <1>3, <1>5 DEF Unanswered
  <2>3. v.mission = w.mission /\ v.pc # "start"
    BY <1>3
  <2>4. QED
    BY <1>4, <1>5, <2>1, <2>2, <2>3, KeptMoves DEF Guided
<1>6. CASE Become(s, notes)
  BY <1>3, <1>5, <1>6
<1>7. CASE w.op \in {"ask", "resolve"} /\ d.proposal /\ Become(s, approves)
  BY <1>3, <1>5, <1>7
<1>8. CASE w.op = "approve" /\ Become(s, writes)
  BY <1>3, <1>5, <1>8
<1>9. CASE Become(s, Idle)
  <2>1. Idle.pc = "idle"
    BY DEF Idle
  <2>2. QED
    BY <1>4, <1>9, <2>1, KeptMoves DEF Away
<1>10. QED
  BY <1>2, <1>6, <1>7, <1>8, <1>9

(* The record of a command that asks and that of an approval cannot both   *)
(* have been left behind.                                                  *)
LEMMA KeptReplay ==
  ASSUME OneSession, TypeInv, AuthInv, SoloInv, KeptInv, NEW s \in Sessions, ReplayKey(s)
  PROVE  KeptInv'
<1> DEFINE w == sess[s]
           d == snapshots[w.mission]
<1>1. /\ w.pc = "get" /\ KeyOf(w) \in DOMAIN idempotency
      /\ UNCHANGED <<snapshots, idempotency, faults, authorizations>>
  BY DEF ReplayKey, missionStores, grants, bounds
<1>2. w.base = d /\ d.version \in Nat /\ ~Owning(w)
      /\ Guided(w, d, authorizations[w.mission], idempotency)
  BY <1>1, KeptAt DEF Away, Standing, InStep, Unwritten, Snapshot, Owning
<1>3. KeyOf(w).mission = w.mission /\ KeyOf(w).version = d.version
  BY <1>2 DEF KeyOf
<1>4. idempotency[KeyOf(w)].state # "COMPLETED"
  BY <1>1, <1>2, <1>3 DEF SoloInv, RecordsBehind
<1>5. \/ idempotency[KeyOf(w)].state = "EXECUTING" /\ Become(s, Applied(w, d))
      \/ Finish(s)
  BY <1>4 DEF ReplayKey
<1>6. RecordsUpTo' /\ RecordsWhole'
  BY <1>1 DEF KeptInv, RecordsUpTo, RecordsWhole
<1>7. CASE idempotency[KeyOf(w)].state = "EXECUTING" /\ Become(s, Applied(w, d))
  <2>1. w.op # "approve"
    BY <1>1, <1>2, <1>7 DEF Guided, Unanswered
  <2>2. ASSUME NEW k \in DOMAIN idempotency, idempotency[k].state = "EXECUTING"
        PROVE  Orphan(k)
    BY <1>2, <2>2 DEF Orphan, OneSession
  <2>3. ASSUME NEW v, w.op \in {"ask", "resolve"}, v.op = "approve"
        PROVE  Unanswered(v, idempotency)
    <3>1. KeyOf(v) # KeyOf(w)
      BY <2>3 DEF KeyOf
    <3>2. QED
      BY <1>1, <1>7, <2>2, <3>1 DEF KeptInv, OneOrphan, Unanswered
  <2>4. OneOrphan'
    BY <1>1, <1>2, <1>7, OrphansStay DEF KeptInv
  <2>5. QED
    BY <1>1, <1>6, <1>7, <2>1, <2>3, <2>4, KeptApplied
<1>8. QED
  BY <1>1, <1>2, <1>5, <1>7, KeptRest

LEMMA KeptLoad ==
  ASSUME OneSession, TypeInv, AuthInv, SoloInv, KeptInv, NEW s \in Sessions,
         NewKey(s) \/ LoadMission(s)
  PROVE  KeptInv'
<1> DEFINE w == sess[s]
           d == snapshots[w.mission]
           records == authorizations[w.mission]
           load == [w EXCEPT !.pc = "load"]
           exec == [w EXCEPT !.pc = "execute", !.next = d]
<1>1. /\ w.pc \in {"get", "load"}
      /\ UNCHANGED <<snapshots, idempotency, faults, authorizations>>
      /\ Become(s, load) \/ Become(s, exec)
  BY DEF NewKey, LoadMission, Goto, missionStores, grants, bounds
<1>2. /\ w \in Session /\ w.op \in Commands /\ ~Owning(w)
      /\ Guided(w, d, records, idempotency)
  BY <1>1, KeptAt DEF Away, Placed, Owning
<1>3. /\ \A v \in {load, exec} :
           /\ v.mission = w.mission /\ v.op = w.op /\ v.phase = w.phase
           /\ v.pc \in {"load", "execute"}
  BY <1>2 DEF Session
<1> HIDE DEF load, exec
<1>4. ASSUME NEW v \in {load, exec}, Become(s, v)
      PROVE  KeptInv'
  <2>1. Aimed(v, d)
    BY <1>1, <1>2, <1>3, <1>4 DEF Guided, Aimed, Unwritten, Asking
  <2>2. Licensed(v, records)
    BY <1>1, <1>2, <1>3, <1>4 DEF Guided, Licensed, Unwritten, Asking
  <2>3. Unanswered(v, idempotency) /\ Latest(v, d, idempotency) /\ v.pc # "start"
    BY <1>3, <1>4 DEF Unanswered, Latest
  <2>4. QED
    BY <1>1, <1>2, <1>3, <1>4, <2>1, <2>2, <2>3, KeptWork DEF Guided
<1>5. QED
  BY <1>1, <1>4

(* A record is put under the key of the command in hand. *)
LEMMA KeysPut ==
  ASSUME TypeInv, KeptInv, NEW w, NEW record,
         w.mission \in DOMAIN snapshots,
         w.base.version <= snapshots[w.mission].version,
         record.state = "COMPLETED" => Whole(record.result),
         idempotency' = Put(idempotency, KeyOf(w), record), UNCHANGED snapshots
  PROVE  /\ StoredWhole' /\ RecordsUpTo' /\ RecordsWhole'
         /\ DOMAIN idempotency' = DOMAIN idempotency \cup {KeyOf(w)}
         /\ idempotency'[KeyOf(w)] = record
         /\ \A k \in DOMAIN idempotency' : k # KeyOf(w) =>
              k \in DOMAIN idempotency /\ idempotency'[k] = idempotency[k]
<1>1. /\ DOMAIN idempotency' = DOMAIN idempotency \cup {KeyOf(w)}
      /\ idempotency'[KeyOf(w)] = record
      /\ \A k \in DOMAIN idempotency' : k # KeyOf(w) =>
           k \in DOMAIN idempotency /\ idempotency'[k] = idempotency[k]
  BY DEF Put
<1>2. KeyOf(w).mission = w.mission /\ KeyOf(w).version = w.base.version
  BY DEF KeyOf
<1>3. RecordsUpTo'
  BY <1>1, <1>2 DEF KeptInv, RecordsUpTo
<1>4. RecordsWhole'
  BY <1>1 DEF KeptInv, RecordsWhole
<1>5. QED
  BY <1>1, <1>3, <1>4 DEF KeptInv, StoredWhole

LEMMA KeptExecute ==
  ASSUME OneSession, TypeInv, AuthInv, SoloInv, KeptInv, NEW s \in Sessions,
         ExecuteCommand(s)
  PROVE  KeptInv'
<1> DEFINE w == sess[s]
           d == snapshots[w.mission]
           records == authorizations[w.mission]
           target == CommandTarget(w.op, w.next)
           save == [w EXCEPT !.pc = "save", !.next = Bump(target)]
           fail == [w EXCEPT !.pc = "fail"]
<1>1. /\ w.pc = "execute" /\ UNCHANGED <<snapshots, faults, authorizations>>
      /\ idempotency' = Put(idempotency, KeyOf(w), Executing)
      /\ Become(s, save) \/ Become(s, fail)
  BY DEF ExecuteCommand, Goto, grants, bounds
<1>2. /\ w \in Session /\ w.op \in Commands /\ Standing(w, d) /\ ~Owning(w)
      /\ w.mission \in DOMAIN snapshots /\ d.version \in Nat
      /\ Guided(w, d, records, idempotency)
  BY <1>1, KeptAt DEF Away, Placed, Owning, Snapshot
<1>3. w.base = d
  BY <1>1, <1>2 DEF Standing, InStep, Unwritten
<1>4. /\ StoredWhole' /\ RecordsUpTo' /\ RecordsWhole'
      /\ \A k \in DOMAIN idempotency' : k # KeyOf(w) =>
           k \in DOMAIN idempotency /\ idempotency'[k] = idempotency[k]
  <2>1. Executing.state # "COMPLETED"
    BY DEF Executing
  <2>2. w.base.version <= snapshots[w.mission].version
    BY <1>2, <1>3
  <2>3. w.mission \in DOMAIN snapshots /\ UNCHANGED snapshots
    BY <1>1, <1>2
  <2>4. idempotency' = Put(idempotency, KeyOf(w), Executing)
    BY <1>1
  <2>5. QED
    BY <2>1, <2>2, <2>3, <2>4, KeysPut
<1>5. /\ \A v \in {save, fail} :
           /\ v.mission = w.mission /\ v.op = w.op /\ v.phase = w.phase
           /\ v.base = w.base /\ KeyOf(v) = KeyOf(w) /\ v.pc \in {"save", "fail"}
  BY <1>2 DEF Session, KeyOf
<1> HIDE DEF save, fail
<1>6. ASSUME NEW v \in {save, fail}, Become(s, v)
      PROVE  KeptInv'
  <2>1. OneOrphan'
    <3>1. Owning(v) /\ KeyOf(v) = KeyOf(w)
      BY <1>5, <1>6 DEF Owning
    <3>2. QED
      BY <1>1, <1>2, <1>4, <1>6, <3>1, OrphansStay DEF KeptInv
  <2>2. Aimed(v, d)
    BY <1>1, <1>2, <1>3, <1>5, <1>6 DEF Guided, Aimed, Unwritten, Asking, Commands
  <2>3. Licensed(v, records)
    BY <1>1, <1>2, <1>5, <1>6 DEF Guided, Licensed, Unwritten, Asking
  <2>4. Unanswered(v, idempotency') /\ Latest(v, d, idempotency') /\ v.pc # "start"
    BY <1>5, <1>6 DEF Unanswered, Latest
  <2>5. QED
    BY <1>1, <1>4, <1>5, <1>6, <2>1, <2>2, <2>3, <2>4, KeptMoves DEF Guided
<1>7. QED
  BY <1>1, <1>6

LEMMA KeptSeal ==
  ASSUME OneSession, TypeInv, AuthInv, SoloInv, KeptInv, NEW s \in Sessions,
         SealKey(s) \/ FailKey(s)
  PROVE  KeptInv'
<1> DEFINE w == sess[s]
           d == snapshots[w.mission]
<1>1. /\ w.pc \in {"seal", "fail"} /\ UNCHANGED <<snapshots, faults, authorizations>>
  BY DEF SealKey, FailKey, grants, bounds
<1>2. /\ w \in Session /\ Standing(w, d) /\ w.op \in Commands /\ Owning(w)
      /\ w.mission \in DOMAIN snapshots /\ d.version \in Nat /\ w.base.version \in Nat
      /\ Whole(d) /\ Guided(w, d, authorizations[w.mission], idempotency)
  BY <1>1, KeptAt DEF Away, Placed, Owning, Snapshot, Session
<1>3. ASSUME NEW record, record.state \in {"COMPLETED", "FAILED"},
             \A k \in DOMAIN idempotency' : k # KeyOf(w) =>
               k \in DOMAIN idempotency /\ idempotency'[k] = idempotency[k],
             idempotency'[KeyOf(w)] = record, NEW v, Become(s, v)
      PROVE  OneOrphan'
  BY <1>1, <1>3, OrphansStay DEF KeptInv
<1>4. CASE FailKey(s)
  <2>1. w.base.version <= d.version
    BY <1>2, <1>4 DEF FailKey, Guided, Aimed
  <2>2. Failed.state = "FAILED"
    BY DEF Failed
  <2>3. idempotency' = Put(idempotency, KeyOf(w), Failed) /\ Become(s, Idle)
    BY <1>4 DEF FailKey, Finish
  <2>4. /\ StoredWhole' /\ RecordsUpTo' /\ RecordsWhole'
        /\ idempotency'[KeyOf(w)] = Failed
        /\ \A k \in DOMAIN idempotency' : k # KeyOf(w) =>
             k \in DOMAIN idempotency /\ idempotency'[k] = idempotency[k]
    BY <1>1, <1>2, <2>1, <2>2, <2>3, KeysPut
  <2>5. OneOrphan'
    BY <1>3, <2>2, <2>3, <2>4
  <2>6. Idle.pc = "idle"
    BY DEF Idle
  <2>7. QED
    BY <2>3, <2>4, <2>5, <2>6, KeptMoves DEF Away
<1>5. CASE SealKey(s)
  <2>1. w.pc = "seal" /\ w.next = d /\ d.version = w.base.version + 1
    BY <1>2, <1>5 DEF SealKey, Standing, InStep
  <2>2. Sealed(d).state = "COMPLETED" /\ Sealed(d).result = d
    BY DEF Sealed
  <2>3. idempotency' = Put(idempotency, KeyOf(w), Sealed(d)) /\ Become(s, Applied(w, d))
    BY <1>5, <2>1 DEF SealKey
  <2>4. /\ RecordsUpTo' /\ RecordsWhole'
        /\ DOMAIN idempotency' = DOMAIN idempotency \cup {KeyOf(w)}
        /\ idempotency'[KeyOf(w)] = Sealed(d)
        /\ \A k \in DOMAIN idempotency' : k # KeyOf(w) =>
             k \in DOMAIN idempotency /\ idempotency'[k] = idempotency[k]
    <3>1. w.base.version <= snapshots[w.mission].version
      BY <1>2, <2>1
    <3>2. Sealed(d).state = "COMPLETED" => Whole(Sealed(d).result)
      BY <1>2, <2>2
    <3>3. w.mission \in DOMAIN snapshots /\ UNCHANGED snapshots
      BY <1>1, <1>2
    <3>4. QED
      BY <2>3, <3>1, <3>2, <3>3, KeysPut
  <2>5. OneOrphan'
    BY <1>3, <2>2, <2>3, <2>4
  <2>6. ASSUME NEW v, v.mission = w.mission, v.base = d
        PROVE  Unanswered(v, idempotency')
    <3>1. KeyOf(v).mission = w.mission /\ KeyOf(v).version = d.version
          /\ KeyOf(w).version = w.base.version
      BY <2>6 DEF KeyOf
    <3>2. KeyOf(v) # KeyOf(w)
      BY <1>2, <2>1, <3>1
    <3>3. KeyOf(v) \notin DOMAIN idempotency
      BY <1>2, <2>1, <3>1 DEF Guided, Latest
    <3>4. QED
      BY <2>4, <3>2, <3>3 DEF Unanswered
  <2>7. w.op = "approve" => Approved(d)
    BY <1>2, <2>1 DEF Guided, Aimed
  <2>8. QED
    BY <1>1, <2>1, <2>3, <2>4, <2>5, <2>6, <2>7, KeptApplied
<1>6. QED
  BY <1>4, <1>5

(***************************************************************************)
(* The environment.                                                        *)
(***************************************************************************)

(* The one fault leaves at most the record of the command in hand.         *)
LEMMA KeptFault ==
  ASSUME OneSession, TypeInv, AuthInv, SoloInv, KeptInv, NEW s \in Sessions,
         Crash(s) \/ StoreError(s), faults' <= 1
  PROVE  KeptInv'
<1> DEFINE w == sess[s]
           d == snapshots[w.mission]
           records == authorizations[w.mission]
           v == [w EXCEPT !.pc = "fail"]
<1>1. /\ UNCHANGED <<snapshots, idempotency, authorizations>>
      /\ faults' = faults + 1 /\ faults \in Nat
  BY DEF Crash, StoreError, Fault, TypeInv, OthersOK
<1>2. \A k : ~Orphan(k)
  BY <1>1 DEF KeptInv, OneOrphan
<1>3. ASSUME NEW k \in DOMAIN idempotency, idempotency[k].state = "EXECUTING"
      PROVE  Owning(w) /\ k = KeyOf(w)
  BY <1>2, <1>3 DEF Orphan, OneSession
<1>4. StoredWhole' /\ RecordsUpTo' /\ RecordsWhole'
  BY <1>1 DEF KeptInv, StoredWhole, RecordsUpTo, RecordsWhole
<1>5. OneOrphan'
  <2>1. \A k : Orphan(k)' => k = KeyOf(w)
    BY <1>1, <1>3 DEF Orphan
  <2>2. QED
    BY <1>1, <2>1 DEF OneOrphan
<1>6. CASE Crash(s)
  <2>1. Idle.pc = "idle" /\ Become(s, Idle)
    BY <1>6 DEF Idle, Crash, Finish
  <2>2. QED
    BY <1>4, <1>5, <2>1, KeptMoves DEF Away
<1>7. CASE StoreError(s)
  <2>1. w.pc \in {"save", "append", "seal"} /\ w.op \in Commands /\ Become(s, v)
    BY <1>7 DEF StoreError, Goto
  <2>2. /\ w \in Session /\ Standing(w, d) /\ d.version \in Nat
        /\ w.base.version \in Nat /\ Guided(w, d, records, idempotency)
    BY <2>1, KeptAt DEF Away, Session, Snapshot
  <2>3. v.pc = "fail" /\ v.op = w.op /\ v.mission = w.mission /\ v.phase = w.phase
        /\ v.base = w.base
    BY <2>2 DEF Session
  <2> HIDE DEF v
  <2>4. w.base.version <= d.version
    BY <2>1, <2>2 DEF Standing, InStep, Unwritten
  <2>5. Aimed(v, d)
    BY <2>2, <2>3, <2>4 DEF Guided, Aimed, Unwritten
  <2>6. Licensed(v, records) /\ Unanswered(v, idempotency) /\ Latest(v, d, idempotency)
    BY <2>3 DEF Licensed, Unanswered, Latest, Unwritten
  <2>7. QED
    BY <1>1, <1>4, <1>5, <2>1, <2>3, <2>5, <2>6, KeptMoves DEF Guided
<1>8. QED
  BY <1>6, <1>7

LEMMA KeptExpire ==
  ASSUME KeptInv, NEW k \in DOMAIN idempotency, Expire(k)
  PROVE  KeptInv'
<1>1. /\ UNCHANGED <<snapshots, sess, faults, authorizations>>
      /\ DOMAIN idempotency' \subseteq DOMAIN idempotency
      /\ \A i \in DOMAIN idempotency' : idempotency'[i] = idempotency[i]
  BY DEF Expire, grants, bounds
<1>2. StoredWhole' /\ RecordsUpTo' /\ RecordsWhole'
  BY <1>1 DEF KeptInv, StoredWhole, RecordsUpTo, RecordsWhole
<1>3. OneOrphan'
  <2>1. \A i : Orphan(i)' => Orphan(i)
    BY <1>1 DEF Orphan
  <2>2. QED
    BY <1>1, <2>1 DEF KeptInv, OneOrphan
<1>4. ASSUME NEW w, NEW d, NEW records, Guided(w, d, records, idempotency)
      PROVE  Guided(w, d, records, idempotency')
  BY <1>1, <1>4 DEF Guided, Unanswered, Latest
<1>5. QED
  BY <1>1, <1>2, <1>3, <1>4 DEF KeptInv

LEMMA KeptStutter ==
  ASSUME KeptInv, UNCHANGED <<snapshots, idempotency, authorizations, sess, faults>>
  PROVE  KeptInv'
  BY DEF KeptInv, StoredWhole, OneOrphan, Orphan, RecordsUpTo, RecordsWhole

LEMMA KeptStep ==
  ASSUME OneSession, TypeInv, AuthInv, SoloInv, KeptInv, [Next]_vars, faults' <= 1
  PROVE  KeptInv'
<1>1. ASSUME NEW s \in Sessions, NEW r \in Runs, BelowMode(s, r)
      PROVE  KeptInv'
  BY <1>1, KeptStutter DEF BelowMode, vars, missionStores, grants, bounds
<1>2. ASSUME NEW s \in Sessions, StoreReceipt(s)
      PROVE  KeptInv'
  <2>1. ~Owning(sess[s])
    BY <1>2 DEF StoreReceipt, Owning
  <2>2. QED
    BY <1>2, <2>1, KeptRest DEF StoreReceipt, missionStores, bounds
<1>3. ASSUME NEW s \in Sessions, Step(s)
      PROVE  KeptInv'
  BY <1>2, <1>3, KeptStart, KeptAsk, KeptGates, KeptCompute, KeptRefresh, KeptSave,
     KeptLog, KeptReplay, KeptLoad, KeptExecute, KeptSeal DEF Step
<1>4. CASE UNCHANGED vars
  BY <1>4, KeptStutter DEF vars, missionStores, grants, bounds
<1>5. QED
  BY <1>1, <1>3, <1>4, KeptBegin, KeptFault, KeptExpire DEF Next

(* The count of faults only grows.                                         *)
LEMMA FaultsGrow ==
  ASSUME TypeInv, [Next]_vars
  PROVE  faults <= faults'
<1>1. faults \in Nat
  BY DEF TypeInv, OthersOK
<1>2. ASSUME NEW s \in Sessions, Step(s)
      PROVE  faults' = faults
  BY <1>2
  DEF Step, bounds, StartMission, FindAuthorization, ScopeBound, CheckConflict,
      AppendAuthorization, Allowed, GateBlock, Blocked, ComputeThrows, ComputeWaits,
      ComputeDone, Refresh, SaveSnapshot, LogEvent, StoreReceipt, ReplayKey, NewKey,
      LoadMission, ExecuteCommand, SealKey, FailKey
<1>3. CASE \E s \in Sessions :
             \/ \E i \in Intents, r \in Runs : Begin(s, i, r)
             \/ \E r \in Runs : BelowMode(s, r)
             \/ Crash(s) \/ StoreError(s)
  <2>1. faults' \in {faults, faults + 1}
    BY <1>3 DEF Begin, FindMission, FindNone, BelowMode, Crash, StoreError, Fault,
                vars, bounds
  <2>2. QED
    BY <1>1, <2>1
<1>4. CASE UNCHANGED vars \/ \E k \in DOMAIN idempotency : Expire(k)
  <2>1. UNCHANGED faults
    BY <1>4 DEF Expire, vars, bounds
  <2>2. QED
    BY <1>1, <2>1
<1>5. QED
  BY <1>1, <1>2, <1>3, <1>4 DEF Next

KeptUpToOne == faults <= 1 => KeptInv

LEMMA KeptInvariant ==
  ASSUME OneSession
  PROVE  Spec => [](TypeInv /\ AuthInv /\ SoloInv /\ KeptUpToOne)
<1>1. TypeInv /\ AuthInv /\ SoloInv /\ KeptUpToOne /\ [Next]_vars => KeptUpToOne'
  <2> SUFFICES ASSUME TypeInv, AuthInv, SoloInv, KeptUpToOne, [Next]_vars, faults' <= 1
               PROVE  KeptInv'
    BY DEF KeptUpToOne
  <2>1. faults <= 1
    <3>1. faults \in Nat /\ faults <= faults'
      BY FaultsGrow DEF TypeInv, OthersOK
    <3>2. faults' \in Nat
      BY TypeStep DEF TypeInv, OthersOK
    <3>3. QED
      BY <3>1, <3>2
  <2>2. QED
    BY <2>1, KeptStep DEF KeptUpToOne
<1>2. Init => KeptUpToOne
  BY KeptInit DEF KeptUpToOne
<1>3. QED
  BY <1>1, <1>2, AuthInit, AuthStep, SoloInit, SoloStep, TypeInvariant, PTL DEF Spec

(***************************************************************************)
(* With one session, as long as no more than one crash or I/O error has    *)
(* happened, every stored snapshot, and every one a record would replay,   *)
(* has its phases in order, a status that says how far they are, and its   *)
(* ceremony kept.                                                          *)
(***************************************************************************)
THEOREM SnapshotsStaySound ==
  ASSUME OneSession
  PROVE  Spec => [](faults <= 1 => SnapshotsSound)
<1>1. KeptUpToOne => (faults <= 1 => SnapshotsSound)
  BY DEF KeptUpToOne, KeptInv, StoredWhole, RecordsWhole, Whole, SnapshotsSound
<1>2. QED
  BY <1>1, KeptInvariant, PTL

(***************************************************************************)
(* The promise, step by step.  What it calls the phase is the next one the *)
(* stored plan leaves open, so each move of a mission is a step of it.     *)
(***************************************************************************)

(* A mission that is ready for a phase has it next.                        *)
LEMMA ReadyNext ==
  ASSUME NEW d \in Snapshot, Whole(d), NEW p, Ready(d, p)
  PROVE  nextPendingPhase(d) = p
<1>1. /\ p \in Phases /\ d.steps[p] \in {"PENDING", "IN_PROGRESS"}
      /\ \A q \in Phases : q < p => d.steps[q] \in Passed
      /\ InOrder(d)
  BY DEF Ready, Whole, SoundSnapshot
<1>2. d.current \in Phases /\ (p < d.current => d.steps[p] \in Passed)
  BY <1>1 DEF InOrder
<1>3. d.current <= p
  BY <1>1, <1>2, PhaseNumbers DEF Passed
<1>4. QED
  BY <1>1, <1>3, NextIs

LEMMA PassNext ==
  ASSUME NEW d \in Snapshot, NEW n \in Snapshot, NEW records, NEW p, NEW mark,
         Passes(d, n, p, mark, records)
  PROVE  nextPendingPhase(n) = IF p = ARCHIVE THEN NoPhase ELSE p + 1
<1>1. /\ p \in Phases /\ n.current = p /\ n.steps[p] \in Passed
      /\ \A q \in Phases : q > p => n.steps[q] = "PENDING"
  <2>1. /\ p \in Phases /\ n.current = p /\ n.steps[p] = mark /\ mark \in Passed
        /\ \A q \in Phases \ {p} : n.steps[q] = d.steps[q]
    BY DEF Passes, Ready, Snapshot
  <2>2. \A q \in Phases : q > p => d.steps[q] = "PENDING"
    BY DEF Passes, Ready
  <2>3. \A q \in Phases : q > p => q # p
    BY <2>1, PhaseNumbers
  <2>4. QED
    BY <2>1, <2>2, <2>3
<1>2. p \in 1 .. 13 /\ \A q \in Phases : q \in 1 .. 13
  BY <1>1, PhaseNumbers
<1>3. CASE p = ARCHIVE
  <2>1. \A q \in Phases : n.current <= q => n.steps[q] \notin {"PENDING", "IN_PROGRESS"}
    BY <1>1, <1>2, <1>3, PhaseNumbers DEF Passed
  <2>2. QED
    BY <1>3, <2>1, NextNone
<1>4. CASE p # ARCHIVE
  <2>1. p + 1 \in Phases /\ p + 1 > p
    BY <1>2, <1>4, PhaseNumbers
  <2>2. n.steps[p + 1] = "PENDING" /\ n.current <= p + 1
    BY <1>1, <1>2, <2>1
  <2>3. \A q \in Phases : n.current <= q /\ q < p + 1 => n.steps[q] \in Passed
    <3>1. \A q \in Phases : p <= q /\ q < p + 1 => q = p
      BY <1>2
    <3>2. QED
      BY <1>1, <3>1
  <2>4. QED
    BY <1>4, <2>1, <2>2, <2>3, NextIs
<1>5. QED
  BY <1>3, <1>4

LEMMA WaitNext ==
  ASSUME NEW d \in Snapshot, Whole(d), NEW n \in Snapshot, NEW records, NEW p,
         Waits(d, n, p, records)
  PROVE  nextPendingPhase(n) = p
<1>1. CASE n.current = p /\ n.steps = [d.steps EXCEPT ![p] = "IN_PROGRESS"]
  <2>1. p \in Phases /\ n.steps[p] = "IN_PROGRESS" /\ p <= p
    BY <1>1, PhaseNumbers DEF Waits, Ready, Snapshot
  <2>2. \A q \in Phases : ~(n.current <= q /\ q < p)
    BY <1>1, <2>1, PhaseNumbers
  <2>3. QED
    BY <1>1, <2>1, <2>2, NextIs
<1>2. CASE n.current = d.current /\ n.steps = d.steps
  BY <1>2, NextOf, ReadyNext DEF Waits
<1>3. QED
  BY <1>1, <1>2 DEF Waits

(* Where a mission is that leaves a wait at the approval. *)
LEMMA ReleaseNext ==
  ASSUME NEW d \in Snapshot, Whole(d),
         d.status \in {"BLOCKED_BY_GATE", "AWAITING_APPROVAL"}
  PROVE  nextPendingPhase(d) = APPROVE
<1>1. InOrder(d) /\ (At(d, {VERIFY}, Passed) \/ At(d, {APPROVE}, {"IN_PROGRESS"}))
  BY DEF Whole, SoundSnapshot, StatusAgrees
<1>2. /\ APPROVE \in Phases /\ d.current <= APPROVE
      /\ d.steps[APPROVE] \in {"PENDING", "IN_PROGRESS"}
  BY <1>1, PhaseNumbers DEF InOrder, At
<1>3. \A q \in Phases : d.current <= q /\ q < APPROVE => d.steps[q] \in Passed
  BY <1>1, PhaseNumbers DEF At
<1>4. QED
  BY <1>2, <1>3, NextIs

LEMMA PlanNext ==
  ASSUME NEW d \in Snapshot, NEW n \in Snapshot, Plans(d, n)
  PROVE  nextPendingPhase(d) = NoPhase /\ nextPendingPhase(n) = INTAKE
<1>1. /\ \A p \in Phases : d.steps[p] = "ABSENT"
      /\ n.current = INTAKE /\ n.steps = [p \in Phases |-> "PENDING"]
  BY DEF Plans, Fresh, Bump, WithPlan, Snapshot
<1>2. nextPendingPhase(d) = NoPhase
  BY <1>1, NextNone
<1>3. INTAKE \in Phases /\ INTAKE <= INTAKE /\ n.steps[INTAKE] = "PENDING"
  BY <1>1, PhaseNumbers
<1>4. \A q \in Phases : ~(n.current <= q /\ q < INTAKE)
  BY <1>1, PhaseNumbers
<1>5. QED
  BY <1>1, <1>2, <1>3, <1>4, NextIs

(* The promise speaks of the same phases, families and intents.            *)
LEMMA PromiseNames ==
  ASSUME NEW m
  PROVE  /\ Promise(m)!NoPhase = NoPhase
         /\ Promise(m)!INTAKE = INTAKE /\ Promise(m)!BIND_SCOPE = BIND_SCOPE
         /\ Promise(m)!INGEST = INGEST /\ Promise(m)!RECONCILE = RECONCILE
         /\ Promise(m)!PROPOSE = PROPOSE /\ Promise(m)!VERIFY = VERIFY
         /\ Promise(m)!APPROVE = APPROVE /\ Promise(m)!EXECUTE = EXECUTE
         /\ Promise(m)!CLOSE = CLOSE /\ Promise(m)!ARCHIVE = ARCHIVE
         /\ Promise(m)!EdaIntent = EdaIntent
         /\ Promise(m)!ACTION_FAMILY = ACTION_FAMILY
         /\ \A p : Promise(m)!familyForPhase(p) = familyForPhase(p)
         /\ \A i : Promise(m)!Conditional(i) = Conditional(i)
<1>1. /\ Promise(m)!NoPhase = NoPhase
      /\ Promise(m)!INTAKE = INTAKE /\ Promise(m)!BIND_SCOPE = BIND_SCOPE
      /\ Promise(m)!INGEST = INGEST /\ Promise(m)!RECONCILE = RECONCILE
      /\ Promise(m)!INVESTIGATE = INVESTIGATE
      /\ Promise(m)!PROPOSE = PROPOSE /\ Promise(m)!VERIFY = VERIFY
      /\ Promise(m)!APPROVE = APPROVE /\ Promise(m)!EXECUTE = EXECUTE
      /\ Promise(m)!CLOSE = CLOSE /\ Promise(m)!ARCHIVE = ARCHIVE
  BY DEF Promise!NoPhase, Promise!INTAKE, Promise!BIND_SCOPE, Promise!INGEST,
         Promise!RECONCILE, Promise!INVESTIGATE, Promise!PROPOSE, Promise!VERIFY,
         Promise!APPROVE, Promise!EXECUTE, Promise!CLOSE, Promise!ARCHIVE,
         NoPhase, INTAKE, BIND_SCOPE, INGEST, RECONCILE, INVESTIGATE, PROPOSE, VERIFY,
         APPROVE, EXECUTE, CLOSE, ARCHIVE
<1>2. Promise(m)!HARNESS_INTENTS = HARNESS_INTENTS /\ Promise(m)!EdaIntent = EdaIntent
  BY DEF Promise!EdaIntent, Promise!EDA_INTENTS, Promise!HARNESS_INTENTS, EdaIntent,
         EDA_INTENTS, HARNESS_INTENTS
<1>3. Promise(m)!ACTION_FAMILY = ACTION_FAMILY
  BY DEF Promise!ACTION_FAMILY, ACTION_FAMILY
<1>4. \A p : Promise(m)!familyForPhase(p) = familyForPhase(p)
  BY <1>1 DEF Promise!familyForPhase, familyForPhase
<1>5. \A i : Promise(m)!Conditional(i) = Conditional(i)
  BY <1>1, <1>2 DEF Promise!Conditional, Conditional
<1>6. QED
  BY <1>1, <1>2, <1>3, <1>4, <1>5

(* A mission whose snapshot is replaced, and whose records are not.        *)
Rewritten(m, d, n, records) ==
  /\ m \in DOMAIN snapshots /\ snapshots[m] = d
  /\ m \in DOMAIN snapshots' /\ snapshots'[m] = n
  /\ authorizations[m] = records /\ authorizations'[m] = records
  /\ n.intent = d.intent

(* What the promise asks for: an authorization of the next phase.          *)
LEMMA PromiseAuthorized ==
  ASSUME NEW m \in DOMAIN snapshots,
         Authorizes(authorizations[m], nextPendingPhase(snapshots[m]))
  PROVE  Promise(m)!Authorized
  BY PromiseNames DEF Authorizes, Promise!Authorized, Stored

(* The phases are passed as promised.                                      *)
LEMMA PromisePasses ==
  ASSUME NEW m, NEW d \in Snapshot, NEW n \in Snapshot, NEW records,
         Rewritten(m, d, n, records), Whole(d), Good(records, d),
         NEW p, NEW mark, Passes(d, n, p, mark, records)
  PROVE  Promise(m)!Next
<1>1. /\ nextPendingPhase(d) = p
      /\ nextPendingPhase(n) = IF p = ARCHIVE THEN NoPhase ELSE p + 1
  BY ReadyNext, PassNext DEF Passes
<1>2. /\ Stored(m) /\ Stored(m)' /\ snapshots[m] = d /\ snapshots'[m] = n
      /\ n.intent = d.intent /\ authorizations[m] = records
      /\ authorizations'[m] = authorizations[m]
  BY DEF Rewritten, Stored
<1>3. /\ p \in 1 .. 13 /\ d.status \in {"DRAFT", "QUEUED", "RUNNING", "APPROVED"}
      /\ d.status = "DRAFT" => p = INTAKE
      /\ d.status = "QUEUED" => p = BIND_SCOPE
      /\ d.status = "RUNNING" => p > BIND_SCOPE
      /\ d.status = "APPROVED" => p >= APPROVE /\ d.proposal
  BY PhaseNumbers DEF Passes, Ready, Whole
<1>4. /\ p = INTAKE => n.status = "QUEUED"
      /\ p = BIND_SCOPE => n.status = "RUNNING"
      /\ p = ARCHIVE => n.status = "COMPLETED"
      /\ p \notin {INTAKE, BIND_SCOPE, ARCHIVE} => n.status = d.status
  BY PhaseNumbers DEF Passes
<1>5. /\ n.proposal = (d.proposal \/ (p = PROPOSE /\ mark = "COMPLETED"))
      /\ d.proposal \in BOOLEAN /\ mark \in Passed
  BY DEF Passes, Snapshot
<1>6. CASE mark = "SKIPPED"
  <2>1. p \in Conditional(d.intent) /\ ~d.proposal
    BY <1>6 DEF Passes
  <2>2. p \notin {INTAKE, BIND_SCOPE, ARCHIVE}
    BY <2>1, ConditionalOf DEF Good
  <2>3. /\ d.status = "RUNNING" /\ n.status = "RUNNING" /\ ~n.proposal
        /\ nextPendingPhase(n) = p + 1
    BY <1>1, <1>3, <1>4, <1>5, <1>6, <2>1, <2>2
  <2>4. Promise(m)!Skip
    BY <1>1, <1>2, <2>1, <2>3, PromiseNames DEF Promise!Skip
  <2>5. QED
    BY <2>4 DEF Promise!Next
<1>7. CASE mark = "COMPLETED" /\ p = APPROVE
  <2>1. d.status = "APPROVED" /\ n.status = "APPROVED" /\ d.proposal /\ n.proposal
        /\ nextPendingPhase(n) = EXECUTE
    BY <1>1, <1>4, <1>5, <1>7, PhaseNumbers DEF Passes, Approved
  <2>2. Promise(m)!RecordApproval
    BY <1>1, <1>2, <1>7, <2>1, PromiseNames DEF Promise!RecordApproval
  <2>3. QED
    BY <2>2 DEF Promise!Next
<1>8. CASE mark = "COMPLETED" /\ p # APPROVE
  <2>1. Promise(m)!Authorized
    BY <1>1, <1>2, <1>8, PromiseAuthorized DEF Passes, Stored
  <2>2. CASE p = INTAKE
    <3>1. /\ d.status = "DRAFT" /\ n.status = "QUEUED" /\ n.proposal = d.proposal
          /\ nextPendingPhase(n) = BIND_SCOPE
      BY <1>1, <1>3, <1>4, <1>5, <2>2, PhaseNumbers
    <3>2. Promise(m)!Accept
      BY <1>1, <1>2, <2>1, <2>2, <3>1, PromiseNames DEF Promise!Accept
    <3>3. QED
      BY <3>2 DEF Promise!Next
  <2>3. CASE p = BIND_SCOPE
    <3>1. /\ d.status = "QUEUED" /\ n.status = "RUNNING" /\ n.proposal = d.proposal
          /\ nextPendingPhase(n) = INGEST
      BY <1>1, <1>3, <1>4, <1>5, <2>3, PhaseNumbers
    <3>2. Promise(m)!Bind
      BY <1>1, <1>2, <2>1, <2>3, <3>1, PromiseNames DEF Promise!Bind
    <3>3. QED
      BY <3>2 DEF Promise!Next
  <2>4. CASE p = ARCHIVE
    <3>1. d.status = IF d.proposal THEN "APPROVED" ELSE "RUNNING"
      <4>1. d.status \in {"RUNNING", "APPROVED"}
        BY <1>3, <2>4, PhaseNumbers
      <4>2. d.steps[EXECUTE] \in Passed
        BY <2>4, PhaseNumbers DEF Passes, Ready
      <4>3. d.proposal => d.status = "APPROVED"
        BY <4>1, <4>2 DEF Whole, SoundSnapshot, CeremonyKept
      <4>4. QED
        BY <1>3, <4>1, <4>3
    <3>2. /\ n.status = "COMPLETED" /\ n.proposal = d.proposal
          /\ nextPendingPhase(n) = NoPhase
      BY <1>1, <1>4, <1>5, <2>4, PhaseNumbers
    <3>3. Promise(m)!Finish
      BY <1>1, <1>2, <2>1, <2>4, <3>1, <3>2, PromiseNames DEF Promise!Finish
    <3>4. QED
      BY <3>3 DEF Promise!Next
  <2>5. CASE p \notin {INTAKE, BIND_SCOPE, ARCHIVE}
    <3>1. /\ n.status = d.status /\ nextPendingPhase(n) = p + 1
          /\ n.proposal = (d.proposal \/ p = PROPOSE)
          /\ \/ d.status = "RUNNING" /\ p \in INGEST .. VERIFY
             \/ d.status \in {"RUNNING", "APPROVED"} /\ p \in EXECUTE .. CLOSE
      BY <1>1, <1>3, <1>4, <1>5, <1>8, <2>5, PhaseNumbers
    <3> DEFINE phase == IF Stored(m) THEN nextPendingPhase(snapshots[m]) ELSE NoPhase
               status == IF Stored(m) THEN snapshots[m].status ELSE "NONE"
    <3>2. phase = p /\ phase' = p + 1 /\ status = d.status /\ status' = d.status
      BY <1>1, <1>2, <3>1
    <3>3. \/ status = "RUNNING" /\ phase \in Promise(m)!INGEST .. Promise(m)!VERIFY
          \/ /\ status \in {"RUNNING", "APPROVED"}
             /\ phase \in Promise(m)!EXECUTE .. Promise(m)!CLOSE
      BY <3>1, <3>2, PromiseNames
    <3>4. (Stored(m) /\ snapshots[m].proposal)' =
            ((Stored(m) /\ snapshots[m].proposal) \/ phase = Promise(m)!PROPOSE)
      <4>1. phase = Promise(m)!PROPOSE <=> p = PROPOSE
        BY <3>2, PromiseNames
      <4>2. (Stored(m) /\ snapshots[m].proposal)' <=> n.proposal
        BY <1>2
      <4>3. (Stored(m) /\ snapshots[m].proposal) <=> d.proposal
        BY <1>2
      <4>4. n.proposal <=> d.proposal \/ p = PROPOSE
        BY <3>1
      <4>5. QED
        BY <4>1, <4>2, <4>3, <4>4
    <3>5. UNCHANGED << IF Stored(m) THEN snapshots[m].intent ELSE "none", status,
                       {a.family : a \in authorizations[m]},
                       {a.scope : a \in authorizations[m]} >>
      BY <1>2, <3>2
    <3>6. Promise(m)!Pass
      BY <2>1, <3>2, <3>3, <3>4, <3>5 DEF Promise!Pass
    <3>7. QED
      BY <3>6 DEF Promise!Next
  <2>6. QED
    BY <2>2, <2>3, <2>4, <2>5
<1>9. QED
  BY <1>5, <1>6, <1>7, <1>8 DEF Passed

LEMMA PromiseWaits ==
  ASSUME NEW m, NEW d \in Snapshot, NEW n \in Snapshot, NEW records,
         Rewritten(m, d, n, records), Whole(d),
         NEW p, Waits(d, n, p, records)
  PROVE  Promise(m)!Next
<1>1. nextPendingPhase(d) = p /\ nextPendingPhase(n) = p
  BY ReadyNext, WaitNext DEF Waits
<1>2. /\ Stored(m) /\ Stored(m)' /\ snapshots[m] = d /\ snapshots'[m] = n
      /\ n.intent = d.intent /\ authorizations[m] = records
      /\ authorizations'[m] = authorizations[m]
  BY DEF Rewritten, Stored
<1>3. d.status = "RUNNING" /\ n.proposal = d.proposal /\ Promise(m)!Authorized
  BY <1>1, <1>2, PromiseAuthorized DEF Waits, Stored
<1>4. CASE n.status = "WAITING_FOR_EVIDENCE" /\ p \in {INGEST, RECONCILE}
  <2>1. Promise(m)!AskEvidence
    BY <1>1, <1>2, <1>3, <1>4, PromiseNames DEF Promise!AskEvidence
  <2>2. QED
    BY <2>1 DEF Promise!Next
<1>5. CASE n.status = "AWAITING_APPROVAL" /\ p = APPROVE
  <2>1. Promise(m)!AskApproval
    BY <1>1, <1>2, <1>3, <1>5, PromiseNames DEF Promise!AskApproval
  <2>2. QED
    BY <2>1 DEF Promise!Next
<1>6. CASE n.status = "BLOCKED_BY_GATE" /\ p = APPROVE
  <2>1. Promise(m)!Gate
    BY <1>1, <1>2, <1>3, <1>6, PromiseNames DEF Promise!Gate
  <2>2. QED
    BY <2>1 DEF Promise!Next
<1>7. QED
  BY <1>4, <1>5, <1>6 DEF Waits

LEMMA PromiseReleases ==
  ASSUME NEW m, NEW d \in Snapshot, NEW n \in Snapshot, NEW records,
         Rewritten(m, d, n, records), Whole(d), Releases(d, n, records)
  PROVE  Promise(m)!Next
<1>1. nextPendingPhase(n) = nextPendingPhase(d)
  BY NextOf DEF Releases
<1>2. /\ Stored(m) /\ Stored(m)' /\ snapshots[m] = d /\ snapshots'[m] = n
      /\ n.intent = d.intent /\ authorizations[m] = records
      /\ authorizations'[m] = authorizations[m] /\ n.proposal = d.proposal
  BY DEF Rewritten, Stored, Releases
<1>3. CASE d.status = "WAITING_FOR_EVIDENCE" /\ n.status = "RUNNING"
  <2>1. Promise(m)!Release
    BY <1>1, <1>2, <1>3, PromiseNames DEF Promise!Release
  <2>2. QED
    BY <2>1 DEF Promise!Next
<1>4. CASE /\ d.status = "BLOCKED_BY_GATE" /\ n.status = "RUNNING"
           /\ Authorizes(records, APPROVE)
  <2>1. Promise(m)!Authorized
    BY <1>2, <1>4, ReleaseNext, PromiseAuthorized DEF Stored
  <2>2. Promise(m)!Release
    BY <1>1, <1>2, <1>4, <2>1, PromiseNames DEF Promise!Release
  <2>3. QED
    BY <2>2 DEF Promise!Next
<1>5. CASE d.status = "AWAITING_APPROVAL" /\ n.status = "APPROVED" /\ d.proposal
  <2>1. nextPendingPhase(d) = APPROVE
    BY <1>5, ReleaseNext
  <2>2. Promise(m)!Approve
    BY <1>1, <1>2, <1>5, <2>1, PromiseNames DEF Promise!Approve
  <2>3. QED
    BY <2>2 DEF Promise!Next
<1>6. QED
  BY <1>3, <1>4, <1>5 DEF Releases

LEMMA PromiseWrites ==
  ASSUME NEW m, NEW d \in Snapshot, NEW n \in Snapshot, NEW records,
         Rewritten(m, d, n, records), Whole(d), Good(records, d),
         Writes(d, n, records)
  PROVE  [Promise(m)!Next]_(Promise(m)!governed)
<1>1. /\ Stored(m) /\ Stored(m)' /\ snapshots[m] = d /\ snapshots'[m] = n
      /\ n.intent = d.intent /\ authorizations'[m] = authorizations[m]
  BY DEF Rewritten, Stored
<1>2. CASE n = Bump(d)
  <2>1. n.status = d.status /\ n.proposal = d.proposal
        /\ n.current = d.current /\ n.steps = d.steps
    BY <1>2 DEF Bump, Snapshot
  <2>2. nextPendingPhase(n) = nextPendingPhase(d)
    BY <2>1, NextOf
  <2>3. UNCHANGED Promise(m)!governed
    BY <1>1, <2>1, <2>2 DEF Promise!governed
  <2>4. QED
    BY <2>3
<1>3. CASE Plans(d, n)
  <2>1. nextPendingPhase(d) = NoPhase /\ nextPendingPhase(n) = INTAKE
    BY <1>3, PlanNext
  <2>2. d.status = "DRAFT" /\ n.status = "DRAFT" /\ n.proposal = d.proposal
    BY <1>3 DEF Plans, Fresh, Bump, WithPlan, Snapshot
  <2>3. Promise(m)!Plan
    BY <1>1, <2>1, <2>2, PromiseNames DEF Promise!Plan
  <2>4. QED
    BY <2>3 DEF Promise!Next
<1>4. QED
  BY <1>2, <1>3, PromisePasses, PromiseWaits, PromiseReleases DEF Writes

(* A step that touches no snapshot and no record is none of the promise.   *)
LEMMA PromiseStutters ==
  ASSUME NEW m, UNCHANGED <<snapshots, authorizations>>
  PROVE  UNCHANGED Promise(m)!governed
<1>1. Stored(m)' <=> Stored(m)
  BY DEF Stored
<1>2. QED
  BY <1>1 DEF Promise!governed

LEMMA PromiseCreates ==
  ASSUME TypeInv, AuthInv, NEW s \in Sessions, NEW n \in Missions, StartMission(s, n),
         NEW m \in Missions
  PROVE  [Promise(m)!Next]_(Promise(m)!governed)
<1> DEFINE d == sess[s].next
<1>1. /\ sess[s].pc = "start" /\ d \in Snapshot /\ n \notin DOMAIN snapshots
      /\ snapshots' = Put(snapshots, n, d) /\ UNCHANGED authorizations
  BY DEF StartMission, TypeInv, SessionsOK, Session, grants
<1>2. Fresh(d) /\ d.intent \in CHAIN_INTENTS
  BY <1>1 DEF AuthInv, SessionsBacked, Beginning
<1>3. /\ DOMAIN snapshots' = DOMAIN snapshots \cup {n} /\ snapshots'[n] = d
      /\ \A k \in DOMAIN snapshots : snapshots'[k] = snapshots[k]
  BY <1>1 DEF Put
<1> HIDE DEF d
<1>4. CASE m = n
  <2>1. ~Stored(m) /\ Stored(m)' /\ snapshots'[m] = d
    BY <1>1, <1>3, <1>4 DEF Stored
  <2>2. d.intent \in EdaIntent /\ d.status = "DRAFT" /\ ~d.proposal
    BY <1>2 DEF Fresh, CHAIN_INTENTS, EdaIntent, EDA_INTENTS, HARNESS_INTENTS
  <2>3. nextPendingPhase(d) = NoPhase
    BY <1>1, <1>2, NextNone DEF Fresh
  <2>4. Promise(m)!Create
    BY <1>1, <2>1, <2>2, <2>3, PromiseNames DEF Promise!Create
  <2>5. QED
    BY <2>4 DEF Promise!Next
<1>5. CASE m # n
  <2>1. /\ Stored(m)' <=> Stored(m)
        /\ Stored(m) => snapshots'[m] = snapshots[m]
    BY <1>3, <1>5 DEF Stored
  <2>2. UNCHANGED Promise(m)!governed
    BY <1>1, <2>1 DEF Promise!governed
  <2>3. QED
    BY <2>2
<1>6. QED
  BY <1>4, <1>5

(* The record an authorization is written for is missing, and of the one   *)
(* scope of its mission.                                                   *)
LEMMA PromiseAuthorizes ==
  ASSUME TypeInv, ScopeInv, AuthInv, SoloInv, KeptInv, NEW s \in Sessions,
         AppendAuthorization(s), NEW m \in Missions
  PROVE  [Promise(m)!Next]_(Promise(m)!governed)
<1> DEFINE w == sess[s]
           d == snapshots[w.mission]
           records == authorizations[w.mission]
           family == Family(w)
           scope  == w.run.scope
<1>1. /\ w.pc = "enter" /\ UNCHANGED snapshots
      /\ authorizations' = [authorizations EXCEPT ![w.mission] = @ \cup {Bound(w)}]
  BY DEF AppendAuthorization, missionStores
<1>2. /\ w \in Session /\ w.op \in {"run", "resolve"} /\ w.phase \in Phases
      /\ w.run \in Runs /\ w.mission \in DOMAIN snapshots /\ w.mission \in Missions
      /\ d \in Snapshot /\ Standing(w, d) /\ Licensed(w, records)
  BY <1>1, KeptAt DEF Away, Placed, Guided
<1>3. nextPendingPhase(d) # NoPhase
  <2>1. Found(w, d)
    BY <1>1, <1>2 DEF Standing, Unwritten
  <2>2. CASE w.op = "run"
    BY <1>2, <2>1, <2>2, PreparedStep, PhaseNumbers DEF Found
  <2>3. CASE w.op = "resolve"
    BY <2>1, <2>3, PhaseNumbers DEF Found, Resolves
  <2>4. QED
    BY <1>2, <2>2, <2>3
<1>4. \A a \in records : a.family # family
  BY <1>1, <1>2 DEF Licensed, Authorizes, Family
<1>5. \A a \in records : a.scope = scope
  BY <1>1, <1>2
  DEF ScopeInv, Granting, MayGrant, Owned, Alone, Granted, OneScopePerMission
<1>6. family \in ACTION_FAMILY /\ scope \in Scopes
  BY <1>2, FamilyType, RunsAssumption DEF Family, Run
<1>7. Bound(w).family = family /\ Bound(w).scope = scope
  BY DEF Bound
<1>8. authorizations \in [Missions -> SUBSET Authorization]
  BY DEF TypeInv, GrantsOK
<1> HIDE DEF family, scope
<1>9. CASE m = w.mission
  <2>1. authorizations'[m] = records \cup {Bound(w)}
    BY <1>1, <1>2, <1>8, <1>9
  <2>2. {a.family : a \in authorizations'[m]}
          = {a.family : a \in records} \cup {family}
    BY <1>7, <2>1
  <2>3. {a.scope : a \in authorizations'[m]} = {scope}
    BY <1>5, <1>7, <2>1
  <2>4. Stored(m) /\ (Stored(m)' <=> Stored(m))
    BY <1>1, <1>2, <1>9 DEF Stored
  <2>5. PICK f \in ACTION_FAMILY, x \in Scopes : f = family /\ x = scope
    BY <1>6
  <2>6. Promise(m)!Authorize(f, x)
    BY <1>1, <1>3, <1>4, <1>5, <1>9, <2>2, <2>3, <2>4, <2>5, PromiseNames
    DEF Promise!Authorize
  <2>7. f \in Promise(m)!ACTION_FAMILY
    BY PromiseNames
  <2>8. QED
    BY <2>6, <2>7 DEF Promise!Next
<1>10. CASE m # w.mission
  <2>1. authorizations'[m] = authorizations[m]
    BY <1>1, <1>8, <1>10
  <2>2. Stored(m)' <=> Stored(m)
    BY <1>1 DEF Stored
  <2>3. UNCHANGED Promise(m)!governed
    BY <1>1, <2>1, <2>2 DEF Promise!governed
  <2>4. QED
    BY <2>3
<1>11. QED
  BY <1>9, <1>10

LEMMA PromiseSaves ==
  ASSUME TypeInv, AuthInv, SoloInv, KeptInv, NEW s \in Sessions, SaveSnapshot(s),
         NEW m \in Missions
  PROVE  [Promise(m)!Next]_(Promise(m)!governed)
<1> DEFINE w == sess[s]
           d == snapshots[w.mission]
           n == w.next
           records == authorizations[w.mission]
<1>1. /\ w.pc = "save" /\ snapshots' = Put(snapshots, w.mission, n)
      /\ UNCHANGED authorizations
  BY DEF SaveSnapshot, grants
<1>2. /\ w \in Session /\ w.mission \in DOMAIN snapshots /\ d \in Snapshot
      /\ Whole(d) /\ Good(records, d) /\ Backed(w, d, records) /\ Standing(w, d)
      /\ Guided(w, d, records, idempotency)
      /\ w.op \notin {"none", "start", "plan"} => w.phase \in Phases
  BY <1>1, KeptAt DEF Away, Placed
<1>3. /\ DOMAIN snapshots' = DOMAIN snapshots /\ snapshots'[w.mission] = n
      /\ \A k \in DOMAIN snapshots \ {w.mission} : snapshots'[k] = snapshots[k]
  BY <1>1, <1>2 DEF Put
<1>4. CASE m = w.mission
  <2>1. Writes(d, n, records)
    BY <1>1, <1>2, SaveWrites DEF Guided
  <2>2. n \in Snapshot /\ n.intent = d.intent
    BY <2>1 DEF Writes
  <2>3. Rewritten(m, d, n, records)
    BY <1>1, <1>2, <1>3, <1>4, <2>2 DEF Rewritten
  <2> HIDE DEF d, n, records
  <2>4. QED
    BY <1>2, <2>1, <2>2, <2>3, PromiseWrites
<1>5. CASE m # w.mission
  <2>1. /\ Stored(m)' <=> Stored(m)
        /\ Stored(m) => snapshots'[m] = snapshots[m]
    BY <1>3, <1>5 DEF Stored
  <2>2. UNCHANGED Promise(m)!governed
    BY <1>1, <2>1 DEF Promise!governed
  <2>3. QED
    BY <2>2
<1>6. QED
  BY <1>4, <1>5

LEMMA PromiseStep ==
  ASSUME TypeInv, ScopeInv, AuthInv, SoloInv, KeptInv, [Next]_vars, NEW m \in Missions
  PROVE  [Promise(m)!Next]_(Promise(m)!governed)
<1> DEFINE AsPromised == [Promise(m)!Next]_(Promise(m)!governed)
<1>1. UNCHANGED <<snapshots, authorizations>> => AsPromised
  BY PromiseStutters
<1> SUFFICES AsPromised
  OBVIOUS
<1> HIDE DEF AsPromised
<1>2. ASSUME NEW s \in Sessions, Step(s)
      PROVE  \/ UNCHANGED <<snapshots, authorizations>>
             \/ \E n \in Missions : StartMission(s, n)
             \/ AppendAuthorization(s) \/ SaveSnapshot(s)
  BY <1>2
  DEF Step, missionStores, grants, FindAuthorization, ScopeBound, CheckConflict,
      Allowed, GateBlock, Blocked, ComputeThrows, ComputeWaits, ComputeDone, Refresh,
      LogEvent, StoreReceipt, ReplayKey, NewKey, LoadMission, ExecuteCommand, SealKey,
      FailKey
<1>3. ASSUME NEW s \in Sessions, Step(s)
      PROVE  AsPromised
  BY <1>1, <1>2, <1>3, PromiseCreates, PromiseAuthorizes, PromiseSaves DEF AsPromised
<1>4. CASE \E s \in Sessions :
             \/ \E i \in Intents, r \in Runs : Begin(s, i, r)
             \/ \E r \in Runs : BelowMode(s, r)
             \/ Crash(s) \/ StoreError(s)
  <2>1. UNCHANGED <<snapshots, authorizations>>
    BY <1>4 DEF Begin, FindMission, FindNone, BelowMode, Crash, StoreError, Fault,
                vars, missionStores, grants
  <2>2. QED
    BY <1>1, <2>1
<1>5. CASE UNCHANGED vars \/ \E k \in DOMAIN idempotency : Expire(k)
  <2>1. UNCHANGED <<snapshots, authorizations>>
    BY <1>5 DEF Expire, vars, missionStores, grants
  <2>2. QED
    BY <1>1, <2>1
<1>6. QED
  BY <1>3, <1>4, <1>5 DEF Next

(***************************************************************************)
(* With one session and no more than one crash or I/O error, the pipeline  *)
(* implements GovernedMission for every mission: seen through its snapshot *)
(* and its authorizations, a mission only moves as the promise has it.     *)
(***************************************************************************)
THEOREM PromiseKept ==
  ASSUME OneSession
  PROVE  Spec /\ [](faults <= 1) => KeepsPromise
<1>1. Init => \A m \in Missions : Promise(m)!Init
  BY PromiseNames DEF Init, Promise!Init, Stored
<1>2. /\ TypeInv /\ ScopeInv /\ AuthInv /\ SoloInv /\ KeptUpToOne
      /\ faults <= 1 /\ [Next]_vars
      => [\A m \in Missions : [Promise(m)!Next]_(Promise(m)!governed)]_vars
  BY PromiseStep DEF KeptUpToOne
<1>3. Spec => []ScopeInv
  BY ScopeInit, ScopeStep, TypeInvariant, PTL DEF Spec
<1>4. QED
  BY <1>1, <1>2, <1>3, KeptInvariant, PTL DEF Spec, KeepsPromise
=============================================================================
