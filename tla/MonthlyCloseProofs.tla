-------------------------- MODULE MonthlyCloseProofs --------------------------
(***************************************************************************)
(* What the monthly close keeps, for every set of missions and any number  *)
(* of runs and of runs that die.                                           *)
(***************************************************************************)
EXTENDS MonthlyClose, MissionProtocolProofs, FiniteSetTheorems

(***************************************************************************)
(* A close stands at its first open phase n, fourteen when it is done:     *)
(* what is before it is completed and what comes after it has not begun.   *)
(* The status follows the phase, and the receipt the closing.              *)
(***************************************************************************)
StepsAt(steps, n) ==
  \A p \in Phases : /\ p < n => steps[p] = "COMPLETED"
                    /\ p = n => steps[p] \in {"PENDING", "IN_PROGRESS"}
                    /\ p > n => steps[p] = "PENDING"

StatusAt(status, n) ==
  \/ n = INTAKE /\ status = "DRAFT"
  \/ n = BIND_SCOPE /\ status = "QUEUED"
  \/ n = INGEST /\ status \in {"RUNNING", "WAITING_FOR_EVIDENCE"}
  \/ n \in NORMALIZE .. VERIFY /\ status = "RUNNING"
  \/ n = APPROVE /\ status \in {"RUNNING", "APPROVED"} \cup GateStates
  \/ n \in EXECUTE .. ARCHIVE /\ status = "APPROVED"
  \/ n = ARCHIVE + 1 /\ status = "COMPLETED"

Stage(m, n) ==
  /\ n \in 1 .. ARCHIVE + 1
  /\ StepsAt(m.steps, n) /\ StatusAt(m.status, n)
  /\ m.intent = "monthly-close"
  /\ m.current \in Phases /\ m.current <= n
  /\ m.receipt # 0 <=> n > CLOSE

(* A close that has lost its plan stays as it was started. *)
Unplanned(m) == m = Started("monthly-close")

Shaped(m) == Unplanned(m) \/ \E n \in 1 .. ARCHIVE + 1 : Stage(m, n)

(***************************************************************************)
(* The stores.  No two closes cite one receipt.                            *)
(***************************************************************************)
CitedOnce ==
  \A m, n \in DOMAIN snapshots :
    m # n /\ snapshots[m].receipt # 0 => snapshots[n].receipt # snapshots[m].receipt

StoresInv ==
  /\ IsFiniteSet(DOMAIN snapshots) /\ DOMAIN snapshots \subseteq Missions
  /\ \A m \in DOMAIN snapshots :
       snapshots[m] \in Snapshot /\ Shaped(snapshots[m]) /\ snapshots[m].receipt <= minted
  /\ CitedOnce
  /\ minted \in Nat /\ receipts \subseteq 1 .. minted
  /\ graph \subseteq DOMAIN snapshots /\ DOMAIN exports \subseteq DOMAIN snapshots
  /\ ExportsStand

(***************************************************************************)
(* The run.  It has used up no more advances than phases are behind the    *)
(* close, and one for the wait it was found in; the receipt it carries is  *)
(* the one its close cites, stored as soon as it goes on.                  *)
(***************************************************************************)
Runs == [ mission : Missions \cup {NoMission}, refs : BOOLEAN, manifest : BOOLEAN,
          tier : {"R2", "R3"}, advances : Nat, receipt : Nat ]

AtWork == {"plan", "advance", "approving", "approved", "store", "finish"}

Paced(m, advances) ==
  \A n \in Phases : Stage(m, n) => /\ advances <= n
                                   /\ m.status \in Waiting => advances < n

RunInv ==
  /\ pc \in {"idle", "find"} \cup AtWork /\ run \in Runs
  /\ pc = "idle" => run = NoRun
  /\ pc = "find" => run.mission = NoMission /\ run.receipt = 0 /\ run.advances = 0
  /\ pc \in AtWork => run.mission \in DOMAIN snapshots
  /\ pc = "plan" => Unplanned(Snap) /\ run.advances = 0
  /\ pc = "advance" => Snap.status # "COMPLETED" /\ Paced(Snap, run.advances)
  /\ pc = "approving" => Stage(Snap, APPROVE) /\ Snap.status \in {"RUNNING", "AWAITING_APPROVAL"}
  /\ pc = "approved" => Stage(Snap, APPROVE) /\ Snap.status = "APPROVED"
  /\ pc \in {"approving", "approved"} => run.advances <= APPROVE
  /\ pc = "store" => Stage(Snap, ARCHIVE) /\ run.advances < ARCHIVE /\ run.receipt # 0
  /\ pc = "finish" => Snap.status = "COMPLETED"
  /\ run.receipt # 0 =>
       /\ pc \in {"advance", "store", "finish"} /\ run.receipt = Snap.receipt
       /\ pc # "store" => run.receipt \in receipts

(***************************************************************************)
(* Every sealed close without an export is the one at hand, or a run died  *)
(* on it.                                                                  *)
(***************************************************************************)
Sealed  == {m \in DOMAIN snapshots : snapshots[m].receipt # 0 /\ m \notin DOMAIN exports}
Carried == {m \in Missions : run.receipt # 0 /\ m = run.mission}

LossInv == faults \in Nat /\ Cardinality(Sealed \ Carried) <= faults

CloseInv == StoresInv /\ RunInv /\ LossInv /\ BudgetSuffices

-----------------------------------------------------------------------------
(* What is prepared for a close, and how it moves.                         *)
LEMMA PhaseRange ==
  /\ Phases = 1 .. 13 /\ ARCHIVE + 1 = 14 /\ CLOSE = 12 /\ APPROVE = 10
  /\ NORMALIZE = 4 /\ VERIFY = 9 /\ EXECUTE = 11 /\ CLASSIFY = 5 /\ INGEST = 3
  /\ INTAKE = 1 /\ BIND_SCOPE = 2 /\ ARCHIVE = 13 /\ NoPhase = 0
  /\ RECONCILE = 6 /\ INVESTIGATE = 7 /\ PROPOSE = 8
  BY DEF Phases, NoPhase, INTAKE, BIND_SCOPE, INGEST, NORMALIZE, CLASSIFY, RECONCILE,
         INVESTIGATE, PROPOSE, VERIFY, APPROVE, EXECUTE, CLOSE, ARCHIVE

LEMMA StageStatus ==
  ASSUME NEW m \in Snapshot, NEW n \in 1 .. ARCHIVE + 1, Stage(m, n)
  PROVE  /\ m.status \in {"DRAFT", "QUEUED", "RUNNING", "WAITING_FOR_EVIDENCE", "COMPLETED",
                          "AWAITING_APPROVAL", "BLOCKED_BY_GATE", "APPROVED"}
         /\ m.status = "COMPLETED" <=> n \notin Phases
         /\ m.status = "APPROVED" => n >= APPROVE
         /\ m.status \in Waiting => n \in {INGEST, APPROVE} /\ m.receipt = 0
  BY PhaseRange DEF Stage, StatusAt, Waiting, GateStates

(* Its first open phase is the one prepared, and it is never skipped.      *)
LEMMA PreparedAt ==
  ASSUME NEW m \in Snapshot, NEW n \in Phases, Stage(m, n)
  PROVE  derivePreparedStep(m) =
           [phase |-> n, disposition |-> IF m.status \in Waiting THEN "WAIT" ELSE "RUN"]
<1>1. n \in OpenPhases(m) /\ \A q \in OpenPhases(m) : n <= q
  <2>1. m.steps[n] \in {"PENDING", "IN_PROGRESS"}
    BY PhaseRange DEF Stage, StepsAt
  <2>2. \A q \in Phases : q < n => m.steps[q] = "COMPLETED"
    BY DEF Stage, StepsAt
  <2>3. QED
    BY <2>1, <2>2, PhaseRange DEF OpenPhases, Stage
<1>2. nextPendingPhase(m) = n
  <2>1. OpenPhases(m) \subseteq Phases
    BY DEF OpenPhases
  <2>2. nextPendingPhase(m) # NoPhase
    BY <1>1, NextPending
  <2>3. QED
    BY <1>1, <2>1, <2>2, NextPending, PhaseRange
<1>3. ~isTerminal(m.status) /\ m.status # "UNKNOWN"
  BY StageStatus, PhaseRange DEF isTerminal
<1>4. Conditional(m.intent) = {}
  BY DEF Stage, Conditional, HARNESS_INTENTS
<1>5. QED
  BY <1>2, <1>3, <1>4, PhaseRange DEF derivePreparedStep

LEMMA UnplannedRests ==
  ASSUME NEW m, Unplanned(m)
  PROVE  /\ derivePreparedStep(m) = Nothing /\ m.status = "DRAFT" /\ m.receipt = 0
         /\ m.steps[INTAKE] = "ABSENT"
         /\ \A n \in 1 .. ARCHIVE + 1 : ~Stage(m, n)
<1>1. /\ m.steps = [p \in Phases |-> "ABSENT"] /\ m.status = "DRAFT" /\ m.receipt = 0
  BY DEF Unplanned, Started
<1>2. OpenPhases(m) = {}
  BY <1>1 DEF OpenPhases
<1>3. derivePreparedStep(m) = Nothing
  BY <1>2 DEF derivePreparedStep, nextPendingPhase
<1>4. ASSUME NEW n \in 1 .. ARCHIVE + 1, Stage(m, n) PROVE FALSE
  <2>1. INTAKE \in Phases /\ m.steps[INTAKE] = "ABSENT"
    BY <1>1, PhaseRange
  <2>2. QED
    BY <1>4, <2>1, PhaseRange DEF Stage, StepsAt
<1>5. QED
  BY <1>1, <1>3, <1>4, PhaseRange

(* So what is prepared tells the stage.                                    *)
LEMMA StageOf ==
  ASSUME NEW m \in Snapshot, Shaped(m), m.status # "COMPLETED"
  PROVE  /\ derivePreparedStep(m) = Nothing => Unplanned(m)
         /\ derivePreparedStep(m) # Nothing =>
              /\ derivePreparedStep(m).phase \in Phases
              /\ Stage(m, derivePreparedStep(m).phase)
              /\ derivePreparedStep(m).disposition = "WAIT" <=> m.status \in Waiting
<1>1. CASE Unplanned(m)
  BY <1>1, UnplannedRests
<1>2. ASSUME NEW n \in 1 .. ARCHIVE + 1, Stage(m, n)
      PROVE  /\ derivePreparedStep(m) # Nothing
             /\ derivePreparedStep(m).phase \in Phases
             /\ Stage(m, derivePreparedStep(m).phase)
             /\ derivePreparedStep(m).disposition = "WAIT" <=> m.status \in Waiting
  <2>1. n \in Phases
    BY <1>2, StageStatus
  <2>2. n # NoPhase
    BY <2>1, PhaseRange
  <2>3. QED
    BY <1>2, <2>1, <2>2, PreparedAt DEF Nothing
<1>3. QED
  BY <1>1, <1>2 DEF Shaped

LEMMA Advances ==
  ASSUME NEW m \in Snapshot, NEW n \in Phases, Stage(m, n),
         NEW x \in Snapshot, x.steps = [m.steps EXCEPT ![n] = "COMPLETED"], x.current = n,
         x.intent = m.intent, StatusAt(x.status, n + 1), x.receipt # 0 <=> n + 1 > CLOSE
  PROVE  Stage(x, n + 1)
<1>1. StepsAt(x.steps, n + 1)
  <2> SUFFICES ASSUME NEW p \in Phases
               PROVE  /\ p < n + 1 => x.steps[p] = "COMPLETED"
                      /\ p = n + 1 => x.steps[p] \in {"PENDING", "IN_PROGRESS"}
                      /\ p > n + 1 => x.steps[p] = "PENDING"
    BY DEF StepsAt
  <2>1. m.steps \in [Phases -> StepStatus]
    BY DEF Snapshot
  <2>2. x.steps[p] = IF p = n THEN "COMPLETED" ELSE m.steps[p]
    BY <2>1
  <2>3. QED
    BY <2>2, PhaseRange DEF Stage, StepsAt
<1>2. QED
  BY <1>1, PhaseRange DEF Stage

LEMMA Stays ==
  ASSUME NEW m \in Snapshot, NEW n \in Phases, Stage(m, n), NEW x \in Snapshot,
         \/ x.steps = m.steps /\ x.current = m.current
         \/ x.steps = [m.steps EXCEPT ![n] = "IN_PROGRESS"] /\ x.current = n,
         x.intent = m.intent, x.receipt = m.receipt, StatusAt(x.status, n)
  PROVE  Stage(x, n)
<1>1. StepsAt(x.steps, n)
  <2> SUFFICES ASSUME NEW p \in Phases
               PROVE  /\ p < n => x.steps[p] = "COMPLETED"
                      /\ p = n => x.steps[p] \in {"PENDING", "IN_PROGRESS"}
                      /\ p > n => x.steps[p] = "PENDING"
    BY DEF StepsAt
  <2>1. m.steps \in [Phases -> StepStatus]
    BY DEF Snapshot
  <2>2. x.steps[p] \in {m.steps[p], IF p = n THEN "IN_PROGRESS" ELSE m.steps[p]}
    BY <2>1
  <2>3. QED
    BY <2>2, PhaseRange DEF Stage, StepsAt
<1>2. QED
  BY <1>1, PhaseRange DEF Stage

(* A new version is the same close.                                        *)
LEMMA BumpStage ==
  ASSUME NEW x \in Snapshot
  PROVE  /\ Bump(x) \in Snapshot
         /\ Bump(x).status = x.status /\ Bump(x).receipt = x.receipt
         /\ \A n \in 1 .. ARCHIVE + 1 : Stage(Bump(x), n) <=> Stage(x, n)
<1>1. /\ Bump(x).status = x.status /\ Bump(x).receipt = x.receipt /\ Bump(x).steps = x.steps
      /\ Bump(x).intent = x.intent /\ Bump(x).current = x.current
  BY DEF Bump, Snapshot
<1>2. QED
  BY <1>1, BumpType DEF Stage

-----------------------------------------------------------------------------
(* What the steps do to the stores, to the run and to the losses.          *)
LEMMA SaveKeepsStores ==
  ASSUME StoresInv, NEW m \in DOMAIN snapshots, snapshots[m].status # "COMPLETED",
         NEW x \in Snapshot, Shaped(x), snapshots' = [snapshots EXCEPT ![m] = x],
         \/ minted' = minted /\ x.receipt = snapshots[m].receipt
         \/ minted' = minted + 1 /\ x.receipt = minted + 1,
         receipts' = receipts, exports' = exports, graph' \subseteq DOMAIN snapshots
  PROVE  StoresInv'
<1> USE DEF StoresInv
<1>1. /\ DOMAIN snapshots' = DOMAIN snapshots /\ snapshots'[m] = x
      /\ \A k \in DOMAIN snapshots \ {m} : snapshots'[k] = snapshots[k]
  OBVIOUS
<1>2. minted' \in Nat /\ minted <= minted'
  OBVIOUS
<1>3. \A k \in DOMAIN snapshots : snapshots[k].receipt \in Nat /\ snapshots[k].receipt <= minted
  BY DEF Snapshot
<1>4. \A k \in DOMAIN snapshots' :
        snapshots'[k] \in Snapshot /\ Shaped(snapshots'[k]) /\ snapshots'[k].receipt <= minted'
  BY <1>1, <1>2, <1>3
<1>5. CitedOnce'
  <2>1. CASE x.receipt = snapshots[m].receipt
    BY <1>1, <2>1 DEF CitedOnce
  <2>2. CASE x.receipt = minted + 1
    BY <1>1, <1>3, <2>2 DEF CitedOnce
  <2>3. QED
    BY <2>1, <2>2
<1>6. receipts' \subseteq 1 .. minted'
  BY <1>2
<1>7. ExportsStand'
  <2> SUFFICES ASSUME NEW e \in DOMAIN exports
               PROVE  /\ e \in Completed' /\ exports[e] = snapshots'[e].receipt
                      /\ exports[e] \in receipts
                      /\ \A n \in DOMAIN snapshots \ {e} : snapshots'[n].receipt # exports[e]
    BY <1>1 DEF ExportsStand
  <2>1. /\ e \in Completed /\ exports[e] = snapshots[e].receipt
        /\ exports[e] \in receipts
        /\ \A n \in DOMAIN snapshots \ {e} : snapshots[n].receipt # exports[e]
    BY DEF ExportsStand
  <2>2. e # m /\ e \in DOMAIN snapshots /\ snapshots'[e] = snapshots[e]
    BY <1>1, <2>1 DEF Completed
  <2>3. exports[e] \in 1 .. minted
    BY <2>1
  <2>4. \A n \in DOMAIN snapshots \ {e} : snapshots'[n].receipt # exports[e]
    BY <1>1, <2>1, <2>2, <2>3
  <2>5. e \in Completed'
    BY <1>1, <2>1, <2>2 DEF Completed
  <2>6. QED
    BY <2>1, <2>2, <2>4, <2>5
<1>8. QED
  BY <1>1, <1>2, <1>4, <1>5, <1>6, <1>7

(* A set with one element more at most.                                    *)
LEMMA OneMore ==
  ASSUME NEW S, IsFiniteSet(S), NEW x, NEW T, T \subseteq S \cup {x},
         NEW n \in Nat, Cardinality(S) <= n
  PROVE  IsFiniteSet(T) /\ Cardinality(T) <= n + 1
<1> DEFINE U == S \cup {x}
<1>1. Cardinality(S) \in Nat
  BY FS_CardinalityType
<1>2. IsFiniteSet(U) /\ Cardinality(U) <= Cardinality(S) + 1
  <2>1. IsFiniteSet(U) /\ Cardinality(U) = IF x \in S THEN Cardinality(S) ELSE Cardinality(S) + 1
    BY FS_AddElement
  <2> HIDE DEF U
  <2>2. QED
    BY <1>1, <2>1
<1> HIDE DEF U
<1>3. T \subseteq U
  BY DEF U
<1>4. IsFiniteSet(T) /\ Cardinality(T) <= Cardinality(U)
  BY <1>2, <1>3, FS_Subset
<1>5. Cardinality(T) \in Nat /\ Cardinality(U) \in Nat
  BY <1>2, <1>4, FS_CardinalityType
<1>6. QED
  BY <1>1, <1>2, <1>4, <1>5

LEMMA LossKept ==
  ASSUME LossInv, StoresInv, faults' = faults,
         Sealed' \ Carried' \subseteq Sealed \ Carried
  PROVE  LossInv'
<1>1. IsFiniteSet(Sealed \ Carried)
  <2>1. Sealed \ Carried \subseteq DOMAIN snapshots
    BY DEF Sealed
  <2>2. QED
    BY <2>1, FS_Subset DEF StoresInv
<1>2. /\ Cardinality(Sealed' \ Carried') \in Nat /\ Cardinality(Sealed \ Carried) \in Nat
      /\ Cardinality(Sealed' \ Carried') <= Cardinality(Sealed \ Carried)
  BY <1>1, FS_Subset, FS_CardinalityType
<1>3. QED
  BY <1>2 DEF LossInv

(* The loop goes on, or ends with no receipt at hand, but not for want of  *)
(* advances.                                                               *)
LEMMA ContinueKeeps ==
  ASSUME run \in Runs, BudgetSuffices, run.mission \in DOMAIN snapshots',
         NEW x \in Snapshot, Continue(x),
         NEW y, y = snapshots'[run.mission], y.status = x.status, y.receipt = x.receipt,
         \A n \in 1 .. ARCHIVE + 1 : Stage(y, n) <=> Stage(x, n),
         \/ Unplanned(x)
         \/ \E n \in 1 .. ARCHIVE + 1 :
              /\ Stage(x, n)
              /\ n \notin Phases \/ x.status \in Waiting \/ run.advances < n,
         run.receipt # 0 => run.receipt = x.receipt /\ run.receipt \in receipts'
  PROVE  RunInv' /\ BudgetSuffices' /\ Carried' = Carried
<1>1. /\ x.status # "FAILED"
      /\ x.status \in Waiting => run.receipt = 0
  <2>1. CASE Unplanned(x)
    BY <2>1, UnplannedRests
  <2>2. ASSUME NEW n \in 1 .. ARCHIVE + 1, Stage(x, n)
        PROVE  x.status # "FAILED" /\ (x.status \in Waiting => run.receipt = 0)
    BY <2>2, StageStatus
  <2>3. QED
    BY <2>1, <2>2
<1>2. CASE pc' = "finish" /\ UNCHANGED <<run, report>> /\ x.status = "COMPLETED"
  <2>1. Snap' = y
    BY <1>2 DEF Snap
  <2>2. RunInv'
    BY <1>2, <2>1 DEF RunInv, AtWork
  <2>3. QED
    BY <1>2, <2>2 DEF BudgetSuffices, Carried
<1>3. ASSUME NEW how, Ends(how), how # "no budget", run.receipt = 0
      PROVE  RunInv' /\ BudgetSuffices' /\ Carried' = Carried
  BY <1>3 DEF Ends, NoRun, Runs, RunInv, BudgetSuffices, Carried, AtWork
<1>4. CASE /\ x.status \notin Waiting \cup {"COMPLETED", "FAILED"}
           /\ run.advances + 1 < MONTHLY_CLOSE_MAX_ADVANCES
           /\ pc' = "advance" /\ run' = [run EXCEPT !.advances = @ + 1]
           /\ UNCHANGED report
  <2>1. /\ run' \in Runs /\ run'.mission = run.mission /\ run'.receipt = run.receipt
        /\ run'.advances = run.advances + 1
    BY <1>4 DEF Runs
  <2>2. Paced(y, run.advances + 1)
    <3> SUFFICES ASSUME NEW n \in Phases, Stage(x, n) PROVE run.advances + 1 <= n
      BY <1>4, PhaseRange DEF Paced
    <3>1. ~Unplanned(x)
      BY UnplannedRests, PhaseRange
    <3>2. PICK k \in 1 .. ARCHIVE + 1 : Stage(x, k) /\ (k \notin Phases \/ run.advances < k)
      BY <1>4, <3>1
    <3>3. k \in Phases
      BY <1>4, <3>2, StageStatus
    <3>4. k = n
      BY <3>2, <3>3, PreparedAt
    <3>5. QED
      BY <3>2, <3>3, <3>4, PhaseRange DEF Runs
  <2>3. RunInv'
    <3>1. Snap' = y /\ y.status # "COMPLETED"
      BY <1>4, <2>1 DEF Snap
    <3>2. QED
      BY <1>4, <2>1, <2>2, <3>1 DEF RunInv, AtWork
  <2>4. QED
    BY <1>4, <2>1, <2>3 DEF BudgetSuffices, Carried
<1>5. CASE /\ x.status \notin Waiting \cup {"COMPLETED", "FAILED"}
           /\ run.advances + 1 = MONTHLY_CLOSE_MAX_ADVANCES
           /\ Ends(IF x.steps[INTAKE] = "ABSENT" THEN "no plan" ELSE "no budget")
  <2>1. Unplanned(x)
    <3> SUFFICES ASSUME NEW k \in 1 .. ARCHIVE + 1, Stage(x, k), run.advances < k
                 PROVE  FALSE
      BY <1>5, StageStatus
    <3>1. k \in Phases
      BY <1>5, StageStatus
    <3>2. run.advances \in Nat /\ run.advances + 1 = 16
      BY <1>5 DEF MONTHLY_CLOSE_MAX_ADVANCES, Runs
    <3>3. QED
      BY <3>1, <3>2, PhaseRange
  <2>2. Ends("no plan") /\ run.receipt = 0
    BY <1>5, <2>1, UnplannedRests
  <2>3. QED
    BY <1>3, <2>2
<1>6. QED
  BY <1>1, <1>2, <1>3, <1>4, <1>5 DEF Continue

(* An advance that writes the close at its next stage, or at its own.      *)
LEMMA TurnKeeps ==
  ASSUME CloseInv, run.mission \in DOMAIN snapshots, Snap.status # "COMPLETED",
         pc \in {"advance", "approved"},
         NEW x \in Snapshot, NEW n \in 1 .. ARCHIVE + 1, Stage(x, n), x.receipt = Snap.receipt,
         n \notin Phases \/ x.status \in Waiting \/ run.advances < n,
         Save(Bump(x)), Continue(x), graph' \subseteq DOMAIN snapshots,
         UNCHANGED <<receipts, exports, minted, faults>>
  PROVE  CloseInv'
<1> DEFINE y == Bump(x)
<1>1. /\ y \in Snapshot /\ y.status = x.status /\ y.receipt = x.receipt
      /\ \A k \in 1 .. ARCHIVE + 1 : Stage(y, k) <=> Stage(x, k)
  BY BumpStage
<1>2. snapshots' = [snapshots EXCEPT ![run.mission] = y]
  BY DEF Save
<1>3. /\ DOMAIN snapshots' = DOMAIN snapshots /\ snapshots'[run.mission] = y
      /\ \A k \in DOMAIN snapshots \ {run.mission} : snapshots'[k] = snapshots[k]
  BY <1>2
<1>4. StoresInv'
  <2>1. Shaped(y)
    BY <1>1 DEF Shaped
  <2>2. QED
    BY <1>1, <1>2, <2>1, SaveKeepsStores DEF CloseInv, Snap
<1>5. RunInv' /\ BudgetSuffices' /\ Carried' = Carried
  <2>1. run \in Runs /\ BudgetSuffices
    BY DEF CloseInv, RunInv
  <2>2. run.receipt # 0 => run.receipt = x.receipt /\ run.receipt \in receipts'
    BY DEF CloseInv, RunInv
  <2>3. \E k \in 1 .. ARCHIVE + 1 :
          /\ Stage(x, k)
          /\ k \notin Phases \/ x.status \in Waiting \/ run.advances < k
    OBVIOUS
  <2> HIDE DEF y
  <2>4. QED
    BY <1>1, <1>3, <2>1, <2>2, <2>3, ContinueKeeps
<1>6. Sealed' = Sealed
  BY <1>1, <1>3 DEF Sealed, Snap
<1>7. QED
  BY <1>4, <1>5, <1>6, LossKept DEF CloseInv

-----------------------------------------------------------------------------
(* The steps of an advance.                                                *)
LEMMA AtHand ==
  ASSUME CloseInv, pc \in AtWork
  PROVE  run \in Runs /\ run.mission \in DOMAIN snapshots /\ Snap \in Snapshot /\ Shaped(Snap)
  BY DEF CloseInv, RunInv, StoresInv, Snap

LEMMA RunningAt ==
  ASSUME CloseInv, NEW phase \in Phases, Running(phase)
  PROVE  /\ Stage(Snap, phase) /\ Snap.status \notin Waiting /\ Snap.status # "COMPLETED"
         /\ run.advances <= phase
<1>1. pc = "advance" /\ Snap \in Snapshot /\ Shaped(Snap) /\ Snap.status # "COMPLETED"
  BY AtHand DEF Running, Advancing, AtWork, CloseInv, RunInv
<1>2. derivePreparedStep(Snap) = [phase |-> phase, disposition |-> "RUN"]
  BY DEF Running, Prepared
<1>3. derivePreparedStep(Snap).phase = phase /\ derivePreparedStep(Snap).disposition = "RUN"
  BY <1>2
<1>4. derivePreparedStep(Snap) # Nothing
  BY <1>3 DEF Nothing
<1>5. Stage(Snap, phase) /\ Snap.status \notin Waiting
  BY <1>1, <1>3, <1>4, StageOf
<1>6. QED
  BY <1>1, <1>5 DEF CloseInv, RunInv, Paced

LEMMA HeldAt ==
  ASSUME CloseInv, NEW statuses, Held(statuses)
  PROVE  /\ Snap.status \in statuses /\ Snap.status \in Waiting /\ Snap.status # "COMPLETED"
         /\ \E n \in {INGEST, APPROVE} : Stage(Snap, n) /\ run.advances < n
<1>1. pc = "advance" /\ Snap \in Snapshot /\ Shaped(Snap) /\ Snap.status # "COMPLETED"
  BY AtHand DEF Held, Advancing, AtWork, CloseInv, RunInv
<1>2. derivePreparedStep(Snap).disposition = "WAIT"
  BY DEF Held, Prepared
<1>3. derivePreparedStep(Snap) # Nothing
  BY <1>2 DEF Nothing
<1>4. PICK n \in Phases : Stage(Snap, n) /\ Snap.status \in Waiting
  BY <1>1, <1>2, <1>3, StageOf
<1>5. n \in {INGEST, APPROVE}
  BY <1>1, <1>4, StageStatus, PhaseRange
<1>6. run.advances < n
  BY <1>1, <1>4 DEF CloseInv, RunInv, Paced
<1>7. QED
  BY <1>1, <1>4, <1>5, <1>6 DEF Held

LEMMA Marked ==
  ASSUME NEW m \in Snapshot, NEW p \in Phases, NEW mark \in {"COMPLETED", "IN_PROGRESS"}
  PROVE  LET x == completeStep(m, p, mark) IN
         /\ x \in Snapshot /\ x.steps = [m.steps EXCEPT ![p] = mark] /\ x.current = p
         /\ x.intent = m.intent /\ x.receipt = m.receipt /\ x.status = m.status
  BY CompleteStepType DEF StepStatus, completeStep, Snapshot

(* Snapshots that differ in status, alarm and proposal alone.              *)
Like(x, m) ==
  /\ x \in Snapshot /\ x.steps = m.steps /\ x.current = m.current
  /\ x.intent = m.intent /\ x.receipt = m.receipt

LEMMA LikeStatus ==
  ASSUME NEW m \in Snapshot, NEW status \in Status
  PROVE  /\ Like([m EXCEPT !.status = status], m)
         /\ [m EXCEPT !.status = status].status = status
  BY DEF Like, Snapshot

LEMMA LikeAlarm ==
  ASSUME NEW m \in Snapshot, NEW status \in Status
  PROVE  /\ Like([m EXCEPT !.status = status, !.alarmed = TRUE], m)
         /\ [m EXCEPT !.status = status, !.alarmed = TRUE].status = status
  BY DEF Like, Snapshot

LEMMA SomeStatuses ==
  {"QUEUED", "RUNNING", "WAITING_FOR_EVIDENCE", "BLOCKED_BY_GATE", "AWAITING_APPROVAL",
   "APPROVED", "COMPLETED"} \subseteq Status
  BY DEF Status

(* A phase is done.                                                        *)
LEMMA PhaseTurn ==
  ASSUME CloseInv, NEW p \in Phases \ {CLOSE}, Running(p) \/ (pc = "approved" /\ p = APPROVE),
         NEW x, Like(x, completeStep(Snap, p, "COMPLETED")), StatusAt(x.status, p + 1),
         Save(Bump(x)), Continue(x), graph' \subseteq DOMAIN snapshots,
         UNCHANGED <<receipts, exports, minted, faults>>
  PROVE  CloseInv'
<1>1. /\ pc \in {"advance", "approved"} /\ Stage(Snap, p) /\ run.advances <= p
      /\ Snap.status # "COMPLETED"
  BY RunningAt DEF Running, Advancing, CloseInv, RunInv
<1>2. /\ run.mission \in DOMAIN snapshots /\ Snap \in Snapshot /\ run.advances \in Nat
  BY <1>1, AtHand DEF AtWork, Runs
<1>3. /\ x \in Snapshot /\ x.steps = [Snap.steps EXCEPT ![p] = "COMPLETED"] /\ x.current = p
      /\ x.intent = Snap.intent /\ x.receipt = Snap.receipt
  BY <1>2, Marked DEF Like
<1>4. x.receipt # 0 <=> p + 1 > CLOSE
  BY <1>1, <1>3, PhaseRange DEF Stage
<1>5. Stage(x, p + 1)
  BY <1>1, <1>2, <1>3, <1>4, Advances
<1>6. p + 1 \in 1 .. ARCHIVE + 1 /\ run.advances < p + 1
  BY <1>1, <1>2, PhaseRange
<1>7. QED
  BY <1>1, <1>2, <1>3, <1>5, <1>6, TurnKeeps

LEMMA LifecycleKeeps ==
  ASSUME CloseInv, Lifecycle
  PROVE  CloseInv'
<1>1. PICK p \in {INTAKE, BIND_SCOPE, ARCHIVE} :
        Running(p) /\ SavesAndContinues(genericIntentHandler(Snap, p))
  BY DEF Lifecycle
<1> DEFINE x == genericIntentHandler(Snap, p)
           y == completeStep(Snap, p, "COMPLETED")
           status == IF p = INTAKE THEN "QUEUED"
                     ELSE IF p = BIND_SCOPE THEN "RUNNING" ELSE "COMPLETED"
<1>2. p \in Phases \ {CLOSE}
  BY PhaseRange
<1>3. y \in Snapshot
  BY <1>1, <1>2, AtHand, Marked DEF Running, Advancing, AtWork
<1>4. x = [y EXCEPT !.status = status] /\ status \in Status
  BY PhaseRange DEF genericIntentHandler, Status
<1>5. Like(x, y) /\ StatusAt(x.status, p + 1)
  <2>1. StatusAt(status, p + 1)
    BY PhaseRange DEF StatusAt
  <2> HIDE DEF x, y, status
  <2>2. Like(x, y) /\ x.status = status
    BY <1>3, <1>4, LikeStatus
  <2>3. QED
    BY <2>1, <2>2
<1>6. graph \subseteq DOMAIN snapshots
  BY DEF CloseInv, StoresInv
<1> HIDE DEF x, y
<1>7. Like(x, completeStep(Snap, p, "COMPLETED"))
  BY <1>5 DEF y
<1>8. Save(Bump(x)) /\ Continue(x) /\ UNCHANGED <<graph, receipts, exports, minted, faults>>
  BY <1>1 DEF SavesAndContinues, x
<1>9. QED
  BY <1>1, <1>2, <1>5, <1>6, <1>7, <1>8, PhaseTurn

(* The phases that leave the status alone.                                 *)
LEMMA PassKeeps ==
  ASSUME CloseInv, Ingest \/ Steady \/ Propose \/ CompleteApprove \/ \E d \in BOOLEAN : Reconcile(d)
  PROVE  CloseInv'
<1>0. graph \subseteq DOMAIN snapshots
  BY DEF CloseInv, StoresInv
<1>1. ASSUME NEW p \in Phases \ {INTAKE, BIND_SCOPE, CLOSE, ARCHIVE},
             \/ Running(p) /\ (p = APPROVE => Snap.status = "APPROVED")
             \/ pc = "approved" /\ p = APPROVE,
             NEW x, Like(x, completeStep(Snap, p, "COMPLETED")), x.status = Snap.status,
             Save(Bump(x)), Continue(x), graph' \subseteq DOMAIN snapshots,
             UNCHANGED <<receipts, exports, minted, faults>>
      PROVE  CloseInv'
  <2>1. /\ Stage(Snap, p) /\ Snap.status \notin Waiting
        /\ p = APPROVE => Snap.status = "APPROVED"
    BY <1>1, RunningAt, AtHand DEF CloseInv, RunInv, Waiting
  <2>2. StatusAt(x.status, p + 1)
    BY <1>1, <2>1, PhaseRange DEF Stage, StatusAt, Waiting
  <2>3. QED
    BY <1>1, <2>2, PhaseTurn
<1>2. ASSUME NEW p \in Phases
      PROVE  /\ Running(p) \/ pc = "approved" =>
                  LET y == completeStep(Snap, p, "COMPLETED") IN
                  y \in Snapshot /\ y.status = Snap.status
  BY AtHand, Marked DEF Running, Advancing, AtWork
<1>3. CASE Ingest
  <2>1. /\ INGEST \in Phases \ {INTAKE, BIND_SCOPE, CLOSE, ARCHIVE} /\ INGEST # APPROVE
    BY PhaseRange
  <2>2. Like(completeStep(Snap, INGEST, "COMPLETED"), completeStep(Snap, INGEST, "COMPLETED"))
    BY <1>2, <1>3, <2>1 DEF Like, Ingest
  <2>3. QED
    BY <1>0, <1>1, <1>2, <1>3, <2>1, <2>2 DEF Ingest, SavesAndContinues
<1>4. CASE Steady
  <2>1. PICK p \in {NORMALIZE, CLASSIFY, INVESTIGATE, VERIFY, EXECUTE} :
          Running(p) /\ SavesAndContinues(completeStep(Snap, p, "COMPLETED"))
    BY <1>4 DEF Steady
  <2>2. p \in Phases \ {INTAKE, BIND_SCOPE, CLOSE, ARCHIVE} /\ p # APPROVE
    BY PhaseRange
  <2>3. Like(completeStep(Snap, p, "COMPLETED"), completeStep(Snap, p, "COMPLETED"))
    BY <1>2, <2>1, <2>2 DEF Like
  <2>4. QED
    BY <1>0, <1>1, <1>2, <2>1, <2>2, <2>3 DEF SavesAndContinues
<1>5. CASE Propose
  <2> DEFINE x == [completeStep(Snap, PROPOSE, "COMPLETED") EXCEPT !.proposal = TRUE]
  <2>1. /\ PROPOSE \in Phases \ {INTAKE, BIND_SCOPE, CLOSE, ARCHIVE} /\ PROPOSE # APPROVE
    BY PhaseRange
  <2>2. Like(x, completeStep(Snap, PROPOSE, "COMPLETED")) /\ x.status = Snap.status
    <3>1. /\ completeStep(Snap, PROPOSE, "COMPLETED") \in Snapshot
          /\ completeStep(Snap, PROPOSE, "COMPLETED").status = Snap.status
      BY <1>2, <1>5, <2>1 DEF Propose
    <3>2. QED
      BY <3>1 DEF Like, Snapshot
  <2>3. QED
    BY <1>0, <1>1, <1>5, <2>1, <2>2 DEF Propose, SavesAndContinues
<1>6. CASE CompleteApprove
  <2>1. /\ APPROVE \in Phases \ {INTAKE, BIND_SCOPE, CLOSE, ARCHIVE}
    BY PhaseRange
  <2>2. /\ Like(completeStep(Snap, APPROVE, "COMPLETED"), completeStep(Snap, APPROVE, "COMPLETED"))
    BY <1>2, <1>6, <2>1 DEF Like, CompleteApprove
  <2>3. QED
    BY <1>0, <1>1, <1>2, <1>6, <2>1, <2>2 DEF CompleteApprove, SavesAndContinues
<1>7. ASSUME NEW d \in BOOLEAN, Reconcile(d) PROVE CloseInv'
  <2> DEFINE y == completeStep(Snap, RECONCILE, "COMPLETED")
             x == IF d THEN [y EXCEPT !.alarmed = TRUE] ELSE y
  <2>1. /\ RECONCILE \in Phases \ {INTAKE, BIND_SCOPE, CLOSE, ARCHIVE} /\ RECONCILE # APPROVE
    BY PhaseRange
  <2>2. y \in Snapshot /\ y.status = Snap.status
    BY <1>2, <1>7, <2>1 DEF Reconcile
  <2>3. Like(x, y) /\ x.status = Snap.status
    BY <2>2 DEF Like, Snapshot
  <2>4. run.mission \in DOMAIN snapshots
    BY <1>7, AtHand DEF Reconcile, Running, Advancing, AtWork
  <2>5. /\ Save(Bump(x)) /\ Continue(x) /\ graph' \subseteq DOMAIN snapshots
        /\ UNCHANGED <<receipts, exports, minted, faults>> /\ Running(RECONCILE)
    BY <1>0, <1>7, <2>4 DEF Reconcile
  <2> HIDE DEF x
  <2>6. QED
    BY <1>1, <2>1, <2>3, <2>5
<1>8. QED
  BY <1>3, <1>4, <1>5, <1>6, <1>7

(* The steps that leave the phase where it is: asking for evidence,        *)
(* resuming, being blocked, denied, kept waiting.                          *)
LEMMA StayKeeps ==
  ASSUME CloseInv, AskEvidence \/ ResumeEvidence \/ GateBlocks \/ DenyWaiting
  PROVE  CloseInv'
<1>0. graph \subseteq DOMAIN snapshots
  BY DEF CloseInv, StoresInv
<1>1. ASSUME pc = "advance", Snap.status # "COMPLETED",
             NEW n \in {INGEST, APPROVE}, Stage(Snap, n), NEW x \in Snapshot,
             \/ x.steps = Snap.steps /\ x.current = Snap.current
             \/ x.steps = [Snap.steps EXCEPT ![n] = "IN_PROGRESS"] /\ x.current = n,
             x.intent = Snap.intent, x.receipt = Snap.receipt, StatusAt(x.status, n),
             x.status \in Waiting \/ run.advances < n,
             SavesAndContinues(x)
      PROVE  CloseInv'
  <2>1. n \in Phases /\ n \in 1 .. ARCHIVE + 1
    BY PhaseRange
  <2>2. run.mission \in DOMAIN snapshots /\ Snap \in Snapshot
    BY <1>1, AtHand DEF AtWork
  <2>3. Stage(x, n)
    BY <1>1, <2>1, <2>2, Stays
  <2>4. QED
    BY <1>0, <1>1, <2>1, <2>2, <2>3, TurnKeeps DEF SavesAndContinues
<1>2. CASE AskEvidence
  <2> DEFINE y == completeStep(Snap, INGEST, "IN_PROGRESS")
             x == [y EXCEPT !.status = "WAITING_FOR_EVIDENCE", !.alarmed = TRUE]
  <2>1. INGEST \in Phases /\ Running(INGEST) /\ pc = "advance"
    BY <1>2, PhaseRange DEF AskEvidence, Running, Advancing
  <2>2. Stage(Snap, INGEST) /\ Snap.status # "COMPLETED" /\ Snap \in Snapshot
    BY <2>1, RunningAt, AtHand DEF AtWork
  <2>3. /\ y \in Snapshot /\ y.steps = [Snap.steps EXCEPT ![INGEST] = "IN_PROGRESS"]
        /\ y.current = INGEST /\ y.intent = Snap.intent /\ y.receipt = Snap.receipt
    BY <2>1, <2>2, Marked
  <2> HIDE DEF y
  <2>4. Like(x, y) /\ x.status = "WAITING_FOR_EVIDENCE"
    BY <2>3, LikeAlarm, SomeStatuses
  <2>5. genericIntentHandler(Snap, INGEST) = x
    BY PhaseRange DEF genericIntentHandler, markInProgress, y
  <2>6. SavesAndContinues(x)
    BY <1>2, <2>5 DEF AskEvidence
  <2>7. StatusAt(x.status, INGEST) /\ x.status \in Waiting
    BY <2>4 DEF StatusAt, Waiting
  <2> HIDE DEF x
  <2>8. QED
    BY <1>1, <2>1, <2>2, <2>3, <2>4, <2>6, <2>7 DEF Like
<1>3. CASE ResumeEvidence
  <2> DEFINE x == [Snap EXCEPT !.status = "RUNNING"]
  <2>1. /\ pc = "advance" /\ Snap.status = "WAITING_FOR_EVIDENCE" /\ Snap \in Snapshot
        /\ \E n \in {INGEST, APPROVE} : Stage(Snap, n) /\ run.advances < n
    BY <1>3, HeldAt, AtHand DEF ResumeEvidence, Held, Advancing, AtWork
  <2>2. PICK n \in {INGEST, APPROVE} : Stage(Snap, n) /\ run.advances < n
    BY <2>1
  <2>3. Like(x, Snap) /\ x.status = "RUNNING"
    BY <2>1, LikeStatus, SomeStatuses
  <2>4. StatusAt(x.status, n)
    BY <2>3 DEF StatusAt
  <2>5. SavesAndContinues(x)
    BY <1>3 DEF ResumeEvidence
  <2> HIDE DEF x
  <2>6. QED
    BY <1>1, <2>1, <2>2, <2>3, <2>4, <2>5 DEF Like
<1>4. CASE GateBlocks
  <2> DEFINE x == [Snap EXCEPT !.status = "BLOCKED_BY_GATE", !.alarmed = TRUE]
  <2>1. APPROVE \in Phases /\ Running(APPROVE) /\ pc = "advance"
    BY <1>4, PhaseRange DEF GateBlocks, Running, Advancing
  <2>2. Stage(Snap, APPROVE) /\ Snap.status # "COMPLETED" /\ Snap \in Snapshot
    BY <2>1, RunningAt, AtHand DEF AtWork
  <2>3. Like(x, Snap) /\ x.status = "BLOCKED_BY_GATE"
    BY <2>2, LikeAlarm, SomeStatuses
  <2>4. StatusAt(x.status, APPROVE) /\ x.status \in Waiting
    BY <2>3 DEF StatusAt, GateStates, Waiting
  <2>5. SavesAndContinues(x)
    BY <1>4 DEF GateBlocks
  <2> HIDE DEF x
  <2>6. QED
    BY <1>1, <2>1, <2>2, <2>3, <2>4, <2>5 DEF Like
<1>5. CASE DenyWaiting
  <2> DEFINE x == [Snap EXCEPT !.status = "RUNNING"]
  <2>1. /\ pc = "advance" /\ Snap.status # "COMPLETED" /\ Snap \in Snapshot
        /\ \E n \in {INGEST, APPROVE} : Stage(Snap, n) /\ run.advances < n
    BY <1>5, HeldAt, AtHand DEF DenyWaiting, Held, Advancing, AtWork
  <2>2. PICK n \in {INGEST, APPROVE} : Stage(Snap, n) /\ run.advances < n
    BY <2>1
  <2>3. Like(x, Snap) /\ x.status = "RUNNING"
    BY <2>1, LikeStatus, SomeStatuses
  <2>4. StatusAt(x.status, n)
    BY <2>3 DEF StatusAt
  <2>5. SavesAndContinues(x)
    BY <1>5 DEF DenyWaiting
  <2> HIDE DEF x
  <2>6. QED
    BY <1>1, <2>1, <2>2, <2>3, <2>4, <2>5 DEF Like
<1>6. QED
  BY <1>2, <1>3, <1>4, <1>5

(* What only turns the loop, or only moves the run, leaves the stores.     *)
LEMMA StoresRest ==
  ASSUME StoresInv, UNCHANGED stores
  PROVE  /\ StoresInv' /\ Sealed' = Sealed
         /\ snapshots' = snapshots /\ receipts' = receipts
  BY DEF StoresInv, stores, CitedOnce, ExportsStand, Completed, Sealed

LEMMA IdleTurnKeeps ==
  ASSUME CloseInv, NothingPrepared \/ KeepWaiting
  PROVE  CloseInv'
<1>1. /\ pc = "advance" /\ Continue(Snap) /\ UNCHANGED <<stores, runs, faults>>
      /\ \/ Prepared = Nothing
         \/ Held(Waiting \ GateStates)
         \/ KeepWaiting
  BY DEF NothingPrepared, KeepWaiting, Held, Advancing
<1>2. /\ run \in Runs /\ run.mission \in DOMAIN snapshots /\ Snap \in Snapshot /\ Shaped(Snap)
      /\ Snap.status # "COMPLETED" /\ BudgetSuffices
  BY <1>1, AtHand DEF AtWork, CloseInv, RunInv
<1>3. /\ StoresInv' /\ Sealed' = Sealed /\ snapshots' = snapshots /\ receipts' = receipts
  BY <1>1, StoresRest DEF CloseInv
<1>4. \/ Unplanned(Snap)
      \/ \E n \in 1 .. ARCHIVE + 1 : Stage(Snap, n) /\ Snap.status \in Waiting
  <2>1. CASE NothingPrepared
    BY <1>2, <2>1, StageOf DEF NothingPrepared, Prepared
  <2>2. CASE KeepWaiting
    <3>1. \E n \in {INGEST, APPROVE} : Stage(Snap, n) /\ Snap.status \in Waiting
      BY <2>2, HeldAt DEF KeepWaiting
    <3>2. QED
      BY <3>1, PhaseRange
  <2>3. QED
    BY <2>1, <2>2
<1>5. run.receipt # 0 => run.receipt = Snap.receipt /\ run.receipt \in receipts'
  BY <1>1, <1>3 DEF CloseInv, RunInv
<1>6. /\ snapshots'[run.mission] = Snap /\ run.mission \in DOMAIN snapshots'
  BY <1>2, <1>3 DEF Snap
<1>7. RunInv' /\ BudgetSuffices' /\ Carried' = Carried
  BY <1>1, <1>2, <1>4, <1>5, <1>6, ContinueKeeps
<1>8. QED
  BY <1>1, <1>3, <1>7, LossKept DEF CloseInv

-----------------------------------------------------------------------------
(* The approval, one status at a time.                                     *)
LEMMA TowardsKeeps ==
  ASSUME CloseInv, run.mission \in DOMAIN snapshots, run \in Runs, run.receipt = 0,
         Snap.status # "COMPLETED", Stage(Snap, APPROVE), run.advances <= APPROVE,
         NEW x \in Snapshot, Stage(x, APPROVE), x.receipt = Snap.receipt,
         NEW there, Towards(x, there),
         \/ there = "approving" /\ x.status \in {"RUNNING", "AWAITING_APPROVAL"}
         \/ there = "approved" /\ x.status = "APPROVED"
  PROVE  CloseInv'
<1> DEFINE y == Bump(x)
<1>1. /\ y \in Snapshot /\ y.status = x.status /\ y.receipt = x.receipt /\ Stage(y, APPROVE)
  BY BumpStage, PhaseRange
<1>2. /\ snapshots' = [snapshots EXCEPT ![run.mission] = y] /\ pc' = there
      /\ UNCHANGED <<graph, receipts, exports, minted, run, report, runs, faults>>
  BY DEF Towards, Save
<1>3. /\ DOMAIN snapshots' = DOMAIN snapshots /\ snapshots'[run.mission] = y
      /\ \A k \in DOMAIN snapshots \ {run.mission} : snapshots'[k] = snapshots[k]
  BY <1>2
<1>4. StoresInv'
  <2>1. Shaped(y)
    BY <1>1, PhaseRange DEF Shaped
  <2>2. graph' \subseteq DOMAIN snapshots
    BY <1>2 DEF CloseInv, StoresInv
  <2>3. QED
    BY <1>1, <1>2, <2>1, <2>2, SaveKeepsStores DEF CloseInv, Snap
<1>5. RunInv'
  <2>1. Snap' = y
    BY <1>2, <1>3 DEF Snap
  <2> HIDE DEF y
  <2>2. QED
    BY <1>1, <1>2, <1>3, <2>1 DEF RunInv, AtWork
<1>6. Sealed' = Sealed /\ Carried' = Carried
  BY <1>1, <1>2, <1>3 DEF Sealed, Carried, Snap
<1>7. QED
  BY <1>2, <1>4, <1>5, <1>6, LossKept DEF CloseInv, BudgetSuffices

(* The run carries a receipt only once its close is sealed.                *)
LEMMA NoReceiptYet ==
  ASSUME CloseInv, NEW n \in Phases, Stage(Snap, n), n <= CLOSE
  PROVE  run.receipt = 0 /\ Snap.receipt = 0
  BY PhaseRange DEF CloseInv, RunInv, Stage

LEMMA ApprovalKeeps ==
  ASSUME CloseInv, AskApproval \/ Unblock \/ Approve
  PROVE  CloseInv'
<1>0. /\ APPROVE \in Phases /\ APPROVE \in 1 .. ARCHIVE + 1 /\ APPROVE <= CLOSE
  BY PhaseRange
<1>1. ASSUME pc \in AtWork, Stage(Snap, APPROVE), run.advances <= APPROVE,
             NEW x \in Snapshot,
             \/ x.steps = Snap.steps /\ x.current = Snap.current
             \/ x.steps = [Snap.steps EXCEPT ![APPROVE] = "IN_PROGRESS"] /\ x.current = APPROVE,
             x.intent = Snap.intent, x.receipt = Snap.receipt,
             NEW there, Towards(x, there),
             \/ there = "approving" /\ x.status \in {"RUNNING", "AWAITING_APPROVAL"}
             \/ there = "approved" /\ x.status = "APPROVED"
      PROVE  CloseInv'
  <2>1. run \in Runs /\ run.mission \in DOMAIN snapshots /\ Snap \in Snapshot
    BY <1>1, AtHand
  <2>2. StatusAt(x.status, APPROVE)
    BY <1>1 DEF StatusAt, GateStates
  <2>3. Stage(x, APPROVE)
    BY <1>0, <1>1, <2>1, <2>2, Stays
  <2>4. run.receipt = 0 /\ Snap.status # "COMPLETED"
    BY <1>0, <1>1, <2>1, NoReceiptYet, StageStatus
  <2>5. QED
    BY <1>1, <2>1, <2>3, <2>4, TowardsKeeps
<1>2. CASE AskApproval
  <2> DEFINE y == completeStep(Snap, APPROVE, "IN_PROGRESS")
             x == [y EXCEPT !.status = "AWAITING_APPROVAL"]
  <2>1. pc \in AtWork /\ Stage(Snap, APPROVE) /\ run.advances <= APPROVE
    BY <1>0, <1>2, RunningAt DEF AskApproval, Running, Advancing, AtWork, CloseInv, RunInv
  <2>2. Snap \in Snapshot
    BY <2>1, AtHand
  <2>3. /\ y \in Snapshot /\ y.steps = [Snap.steps EXCEPT ![APPROVE] = "IN_PROGRESS"]
        /\ y.current = APPROVE /\ y.intent = Snap.intent /\ y.receipt = Snap.receipt
    BY <1>0, <2>2, Marked
  <2> HIDE DEF y
  <2>4. Like(x, y) /\ x.status = "AWAITING_APPROVAL"
    BY <2>3, LikeStatus, SomeStatuses
  <2>5. genericIntentHandler(Snap, APPROVE) = x
    BY PhaseRange DEF genericIntentHandler, markInProgress, y
  <2>6. Towards(x, "approving")
    BY <1>2, <2>5 DEF AskApproval
  <2> HIDE DEF x
  <2>7. QED
    BY <1>1, <2>1, <2>3, <2>4, <2>6 DEF Like
<1>3. CASE Unblock
  <2> DEFINE x == [Snap EXCEPT !.status = "RUNNING"]
  <2>1. Held({"BLOCKED_BY_GATE"}) /\ Towards(x, "approving") /\ pc \in AtWork
    BY <1>3 DEF Unblock, Held, Advancing, AtWork
  <2>2. Snap \in Snapshot
    BY <2>1, AtHand
  <2>3. Stage(Snap, APPROVE) /\ run.advances <= APPROVE
    <3>1. PICK n \in {INGEST, APPROVE} : Stage(Snap, n) /\ run.advances < n
      BY <2>1, HeldAt
    <3>2. Snap.status = "BLOCKED_BY_GATE"
      BY <2>1, HeldAt
    <3>3. n = APPROVE
      BY <3>1, <3>2, PhaseRange DEF Stage, StatusAt
    <3>4. run.advances \in Nat
      BY <2>1, AtHand DEF Runs
    <3>5. QED
      BY <3>1, <3>3, <3>4, PhaseRange
  <2>4. Like(x, Snap) /\ x.status = "RUNNING"
    BY <2>2, LikeStatus, SomeStatuses
  <2> HIDE DEF x
  <2>5. QED
    BY <1>1, <2>1, <2>3, <2>4 DEF Like
<1>4. CASE Approve
  <2> DEFINE x == [Snap EXCEPT !.status = "APPROVED"]
  <2>1. /\ pc \in AtWork /\ Stage(Snap, APPROVE) /\ run.advances <= APPROVE
        /\ Towards(x, "approved")
    BY <1>4 DEF Approve, AtWork, CloseInv, RunInv
  <2>2. Snap \in Snapshot
    BY <2>1, AtHand
  <2>3. Like(x, Snap) /\ x.status = "APPROVED"
    BY <2>2, LikeStatus, SomeStatuses
  <2> HIDE DEF x
  <2>4. QED
    BY <1>1, <2>1, <2>3 DEF Like
<1>5. QED
  BY <1>2, <1>3, <1>4

(* A run starts, takes up a waiting approval, ends or dies.                *)
LEMMA RunKeeps ==
  ASSUME CloseInv,
         \/ \E refs, manifest \in BOOLEAN, tier \in {"R2", "R3"} : Run(refs, manifest, tier)
         \/ \E m \in Missions : FindActive(m)
         \/ TakeUpWaiting
         \/ CannotApprove
  PROVE  CloseInv'
<1>0. /\ StoresInv' /\ Sealed' = Sealed /\ snapshots' = snapshots /\ receipts' = receipts
      /\ faults' = faults
  <2>1. UNCHANGED stores /\ faults' = faults
    BY DEF Run, FindActive, TakeUpWaiting, CannotApprove
  <2>2. QED
    BY <2>1, StoresRest DEF CloseInv
<1>1. ASSUME NEW refs \in BOOLEAN, NEW manifest \in BOOLEAN, NEW tier \in {"R2", "R3"},
             Run(refs, manifest, tier)
      PROVE  RunInv' /\ BudgetSuffices' /\ Carried' = Carried
  <2>1. /\ run' \in Runs /\ run'.mission = NoMission /\ run'.receipt = 0 /\ run'.advances = 0
        /\ pc' = "find" /\ report' = "none" /\ run = NoRun
    BY <1>1 DEF Run, NoRun, Runs, CloseInv, RunInv
  <2>2. QED
    BY <2>1 DEF RunInv, BudgetSuffices, Carried, AtWork, NoRun
<1>2. ASSUME NEW m \in Missions, FindActive(m)
      PROVE  RunInv' /\ BudgetSuffices' /\ Carried' = Carried
  <2>1. /\ run.receipt = 0 /\ run.advances = 0 /\ run \in Runs
        /\ run' = [run EXCEPT !.mission = m, !.manifest = FALSE]
        /\ pc' = "advance" /\ report' = report
    BY <1>2 DEF FindActive, CloseInv, RunInv
  <2>2. /\ run' \in Runs /\ run'.mission = m /\ run'.receipt = 0 /\ run'.advances = 0
    BY <2>1 DEF Runs
  <2>3. /\ m \in DOMAIN snapshots /\ snapshots[m].status # "COMPLETED"
    BY <1>2 DEF FindActive, ActiveCloses
  <2>4. Snap' = snapshots[m] /\ Paced(snapshots[m], 0)
    BY <1>0, <2>2, PhaseRange DEF Snap, Paced
  <2>5. RunInv'
    BY <1>0, <2>1, <2>2, <2>3, <2>4 DEF RunInv, AtWork
  <2>6. QED
    BY <2>1, <2>2, <2>5 DEF CloseInv, BudgetSuffices, Carried
<1>3. ASSUME TakeUpWaiting
      PROVE  RunInv' /\ BudgetSuffices' /\ Carried' = Carried
  <2>1. /\ Held({"AWAITING_APPROVAL"}) /\ pc = "advance" /\ pc' = "approving"
        /\ UNCHANGED <<run, report>>
    BY <1>3 DEF TakeUpWaiting, Held, Advancing
  <2>2. PICK n \in {INGEST, APPROVE} : Stage(Snap, n) /\ run.advances < n
    BY <2>1, HeldAt
  <2>3. Snap.status = "AWAITING_APPROVAL" /\ run \in Runs /\ run.mission \in DOMAIN snapshots
    BY <2>1, HeldAt, AtHand DEF AtWork
  <2>4. n = APPROVE
    BY <2>2, <2>3, PhaseRange DEF Stage, StatusAt
  <2>5. run.receipt = 0 /\ run.advances <= APPROVE
    BY <2>2, <2>3, <2>4, NoReceiptYet, PhaseRange DEF Runs
  <2>6. Snap' = Snap
    BY <1>0, <2>1 DEF Snap
  <2>7. RunInv'
    BY <1>0, <2>1, <2>2, <2>3, <2>4, <2>5, <2>6 DEF RunInv, AtWork
  <2>8. QED
    BY <2>1, <2>7 DEF CloseInv, BudgetSuffices, Carried
<1>4. ASSUME CannotApprove
      PROVE  RunInv' /\ BudgetSuffices' /\ Carried' = Carried
  <2>1. run.receipt = 0
    BY <1>4, RunningAt, NoReceiptYet, PhaseRange DEF CannotApprove
  <2>2. pc' = "idle" /\ run' = NoRun /\ report' = "throws"
    BY <1>4 DEF CannotApprove, Ends
  <2>3. QED
    BY <2>1, <2>2 DEF NoRun, Runs, RunInv, BudgetSuffices, Carried, AtWork
<1>5. QED
  BY <1>0, <1>1, <1>2, <1>3, <1>4, LossKept DEF CloseInv

(* A close is started, and gets its plan.                                  *)
LEMMA StartKeeps ==
  ASSUME CloseInv, NEW m \in Missions, StartMission(m)
  PROVE  CloseInv'
<1> DEFINE x == Started("monthly-close")
<1>1. /\ pc = "find" /\ m \notin DOMAIN snapshots /\ snapshots' = Put(snapshots, m, x)
      /\ run' = [run EXCEPT !.mission = m] /\ pc' = "plan"
      /\ UNCHANGED <<graph, receipts, exports, minted, report, runs, faults>>
  BY DEF StartMission
<1>2. /\ DOMAIN snapshots' = DOMAIN snapshots \cup {m} /\ snapshots'[m] = x
      /\ \A k \in DOMAIN snapshots : snapshots'[k] = snapshots[k]
  <2>1. snapshots' = Put(snapshots, m, x)
    BY <1>1
  <2> HIDE DEF x
  <2>2. DOMAIN snapshots' = DOMAIN snapshots \cup {m} /\ snapshots'[m] = x
    BY <2>1 DEF Put
  <2>3. \A k \in DOMAIN snapshots \ {m} : snapshots'[k] = snapshots[k]
    BY <2>1 DEF Put
  <2>4. QED
    BY <1>1, <2>2, <2>3
<1>3. x \in Snapshot /\ x.receipt = 0 /\ Unplanned(x) /\ x.status = "DRAFT"
  BY StartedType, UnplannedRests DEF Unplanned, EdaIntent, EDA_INTENTS
<1> HIDE DEF x
<1>4. StoresInv'
  <2> USE DEF StoresInv, CloseInv
  <2>1. IsFiniteSet(DOMAIN snapshots') /\ DOMAIN snapshots' \subseteq Missions
    BY <1>2, FS_AddElement
  <2>2. \A k \in DOMAIN snapshots' :
          snapshots'[k] \in Snapshot /\ Shaped(snapshots'[k]) /\ snapshots'[k].receipt <= minted
    BY <1>2, <1>3 DEF Shaped
  <2>3. CitedOnce'
    BY <1>2, <1>3 DEF CitedOnce
  <2>4. ExportsStand'
    <3> SUFFICES ASSUME NEW e \in DOMAIN exports
                 PROVE  /\ e \in Completed' /\ exports[e] = snapshots'[e].receipt
                        /\ exports[e] \in receipts
                        /\ \A n \in DOMAIN snapshots' \ {e} : snapshots'[n].receipt # exports[e]
      BY <1>1 DEF ExportsStand
    <3>1. /\ e \in Completed /\ exports[e] = snapshots[e].receipt
          /\ exports[e] \in receipts /\ exports[e] \in 1 .. minted
          /\ \A n \in DOMAIN snapshots \ {e} : snapshots[n].receipt # exports[e]
      BY DEF ExportsStand
    <3>2. exports[e] # 0
      BY <3>1
    <3>3. QED
      BY <1>2, <1>3, <3>1, <3>2 DEF Completed
  <2>5. QED
    BY <1>1, <1>2, <2>1, <2>2, <2>3, <2>4
<1>5. RunInv'
  <2>1. /\ run \in Runs /\ run.receipt = 0 /\ run.advances = 0
    BY <1>1 DEF CloseInv, RunInv
  <2>2. /\ run' \in Runs /\ run'.mission = m /\ run'.receipt = 0 /\ run'.advances = 0
    BY <1>1, <2>1 DEF Runs
  <2>3. Snap' = x
    BY <1>2, <2>2 DEF Snap
  <2>4. QED
    BY <1>1, <1>2, <1>3, <2>2, <2>3 DEF RunInv, AtWork
<1>6. Sealed' \ Carried' \subseteq Sealed \ Carried
  <2>1. Sealed' \subseteq Sealed
    BY <1>1, <1>2, <1>3 DEF Sealed
  <2>2. Carried = {}
    BY <1>1 DEF CloseInv, RunInv, Carried
  <2>3. QED
    BY <2>1, <2>2
<1>7. QED
  BY <1>1, <1>4, <1>5, <1>6, LossKept DEF CloseInv, BudgetSuffices

LEMMA PlanKeeps ==
  ASSUME CloseInv, InjectPlan
  PROVE  CloseInv'
<1> DEFINE x == WithPlan(Snap)
           y == Bump(x)
<1>1. /\ pc = "plan" /\ snapshots' = [snapshots EXCEPT ![run.mission] = y] /\ pc' = "advance"
      /\ UNCHANGED <<graph, receipts, exports, minted, run, report, runs, faults>>
  BY DEF InjectPlan, Save
<1>2. /\ run \in Runs /\ run.mission \in DOMAIN snapshots /\ Snap \in Snapshot
      /\ Unplanned(Snap) /\ run.advances = 0 /\ run.receipt = 0
  BY <1>1, AtHand DEF AtWork, CloseInv, RunInv
<1>3. Snap.status = "DRAFT" /\ Snap.receipt = 0 /\ Snap.intent = "monthly-close"
  BY <1>2, UnplannedRests DEF Unplanned, Started
<1>4. x \in Snapshot /\ Stage(x, INTAKE) /\ x.receipt = Snap.receipt /\ x.status = "DRAFT"
  <2>1. x \in Snapshot
    BY <1>2, WithPlanType
  <2>2. /\ x.steps = [p \in Phases |-> "PENDING"] /\ x.current = INTAKE
        /\ x.status = "DRAFT" /\ x.receipt = 0 /\ x.intent = "monthly-close"
    BY <1>2, <1>3 DEF WithPlan, Snapshot
  <2> HIDE DEF x
  <2>3. StepsAt(x.steps, INTAKE)
    BY <2>2, PhaseRange DEF StepsAt
  <2>4. QED
    BY <1>3, <2>1, <2>2, <2>3, PhaseRange DEF Stage, StatusAt
<1> HIDE DEF x
<1>5. /\ y \in Snapshot /\ y.receipt = Snap.receipt /\ Stage(y, INTAKE) /\ y.status = "DRAFT"
  BY <1>4, BumpStage, PhaseRange
<1> HIDE DEF y
<1>6. /\ DOMAIN snapshots' = DOMAIN snapshots /\ snapshots'[run.mission] = y
      /\ \A k \in DOMAIN snapshots \ {run.mission} : snapshots'[k] = snapshots[k]
  BY <1>1, <1>2
<1>7. StoresInv'
  <2>1. Shaped(y)
    BY <1>5, PhaseRange DEF Shaped
  <2>2. graph' \subseteq DOMAIN snapshots
    BY <1>1 DEF CloseInv, StoresInv
  <2>3. QED
    BY <1>1, <1>2, <1>3, <1>5, <2>1, <2>2, SaveKeepsStores DEF CloseInv, Snap
<1>8. RunInv'
  <2>1. Snap' = y
    BY <1>1, <1>6 DEF Snap
  <2>2. Paced(y, 0)
    BY <1>5, PhaseRange DEF Paced
  <2>3. QED
    BY <1>1, <1>2, <1>5, <1>6, <2>1, <2>2 DEF RunInv, AtWork
<1>9. Sealed' = Sealed /\ Carried' = Carried
  BY <1>1, <1>5, <1>6 DEF Sealed, Carried, Snap
<1>10. QED
  BY <1>1, <1>7, <1>8, <1>9, LossKept DEF CloseInv, BudgetSuffices

(* The receipt is minted and cited, then stored, then exported.            *)
LEMMA SealKeeps ==
  ASSUME CloseInv, SealClose
  PROVE  CloseInv'
<1> DEFINE z == completeStep(Snap, CLOSE, "COMPLETED")
           x == [z EXCEPT !.receipt = minted + 1]
           y == Bump(x)
<1>1. /\ Running(CLOSE) /\ snapshots' = [snapshots EXCEPT ![run.mission] = y]
      /\ run' = [run EXCEPT !.receipt = minted + 1] /\ pc' = "store" /\ minted' = minted + 1
      /\ UNCHANGED <<graph, receipts, exports, report, runs, faults>>
  BY DEF SealClose, Save
<1>2. /\ Stage(Snap, CLOSE) /\ Snap.status # "COMPLETED" /\ run.advances <= CLOSE
      /\ run \in Runs /\ run.mission \in DOMAIN snapshots /\ Snap \in Snapshot
  BY <1>1, RunningAt, AtHand, PhaseRange DEF Running, Advancing, AtWork
<1>3. run.receipt = 0 /\ Snap.receipt = 0 /\ minted \in Nat
  BY <1>2, NoReceiptYet, PhaseRange DEF CloseInv, StoresInv
<1>4. /\ z \in Snapshot /\ z.steps = [Snap.steps EXCEPT ![CLOSE] = "COMPLETED"]
      /\ z.current = CLOSE /\ z.intent = Snap.intent /\ z.status = Snap.status
  <2>1. CLOSE \in Phases
    BY PhaseRange
  <2>2. QED
    BY <1>2, <2>1, Marked
<1> HIDE DEF z
<1>5. /\ x \in Snapshot /\ x.steps = [Snap.steps EXCEPT ![CLOSE] = "COMPLETED"]
      /\ x.current = CLOSE /\ x.intent = Snap.intent /\ x.status = Snap.status
      /\ x.receipt = minted + 1
  BY <1>3, <1>4 DEF Snapshot
<1> HIDE DEF x
<1>6. Stage(x, ARCHIVE)
  <2>1. StatusAt(x.status, CLOSE + 1)
    BY <1>2, <1>5, PhaseRange DEF Stage, StatusAt
  <2>2. x.receipt # 0 <=> CLOSE + 1 > CLOSE
    BY <1>3, <1>5, PhaseRange
  <2>3. Stage(x, CLOSE + 1)
    <3>1. CLOSE \in Phases
      BY PhaseRange
    <3>2. QED
      BY <1>2, <1>5, <2>1, <2>2, <3>1, Advances
  <2>4. QED
    BY <2>3, PhaseRange
<1>7. /\ y \in Snapshot /\ y.receipt = minted + 1 /\ Stage(y, ARCHIVE)
  BY <1>5, <1>6, BumpStage, PhaseRange
<1> HIDE DEF y
<1>8. /\ DOMAIN snapshots' = DOMAIN snapshots /\ snapshots'[run.mission] = y
      /\ \A k \in DOMAIN snapshots \ {run.mission} : snapshots'[k] = snapshots[k]
  BY <1>1, <1>2
<1>9. StoresInv'
  <2>1. Shaped(y)
    BY <1>7, PhaseRange DEF Shaped
  <2>2. graph' \subseteq DOMAIN snapshots
    BY <1>1 DEF CloseInv, StoresInv
  <2>3. QED
    BY <1>1, <1>2, <1>7, <2>1, <2>2, SaveKeepsStores DEF CloseInv, Snap
<1>10. /\ run' \in Runs /\ run'.mission = run.mission /\ run'.advances = run.advances
       /\ run'.receipt = minted + 1
  BY <1>1, <1>2, <1>3 DEF Runs
<1>11. RunInv'
  <2>1. Snap' = y
    BY <1>8, <1>10 DEF Snap
  <2>2. run.advances < ARCHIVE
    BY <1>2, PhaseRange DEF Runs
  <2>3. QED
    BY <1>1, <1>2, <1>3, <1>7, <1>8, <1>10, <2>1, <2>2 DEF RunInv, AtWork
<1>12. Sealed' \ Carried' \subseteq Sealed \ Carried
  <2>1. run.mission \in Carried'
    BY <1>2, <1>3, <1>10 DEF Carried, CloseInv, StoresInv
  <2>2. Carried = {}
    BY <1>3 DEF Carried
  <2>3. QED
    BY <1>1, <1>8, <2>1, <2>2 DEF Sealed
<1>13. QED
  BY <1>1, <1>9, <1>11, <1>12, LossKept DEF CloseInv, BudgetSuffices

LEMMA StoreKeeps ==
  ASSUME CloseInv, StoreReceipt
  PROVE  CloseInv'
<1>1. /\ pc = "store" /\ receipts' = receipts \cup {run.receipt} /\ Continue(Snap)
      /\ UNCHANGED <<snapshots, graph, exports, minted, runs, faults>>
  BY DEF StoreReceipt
<1>2. /\ run \in Runs /\ run.mission \in DOMAIN snapshots /\ Snap \in Snapshot
      /\ Stage(Snap, ARCHIVE) /\ run.advances < ARCHIVE
      /\ run.receipt # 0 /\ run.receipt = Snap.receipt /\ BudgetSuffices
  BY <1>1, AtHand DEF AtWork, CloseInv, RunInv
<1>3. run.receipt \in 1 .. minted
  BY <1>2 DEF CloseInv, StoresInv, Snap, Runs
<1>4. StoresInv'
  <2>1. receipts' \subseteq 1 .. minted /\ receipts \subseteq receipts'
    BY <1>1, <1>3 DEF CloseInv, StoresInv
  <2>2. ExportsStand' /\ CitedOnce'
    BY <1>1, <2>1 DEF CloseInv, StoresInv, ExportsStand, CitedOnce, Completed
  <2>3. QED
    BY <1>1, <2>1, <2>2 DEF CloseInv, StoresInv
<1>5. RunInv' /\ BudgetSuffices' /\ Carried' = Carried
  <2>1. \E n \in 1 .. ARCHIVE + 1 :
          Stage(Snap, n) /\ (n \notin Phases \/ Snap.status \in Waiting \/ run.advances < n)
    BY <1>2, PhaseRange
  <2>2. Snap = snapshots'[run.mission] /\ run.mission \in DOMAIN snapshots'
    BY <1>1, <1>2 DEF Snap
  <2>3. run.receipt # 0 => run.receipt = Snap.receipt /\ run.receipt \in receipts'
    BY <1>1, <1>2
  <2>4. QED
    BY <1>1, <1>2, <2>1, <2>2, <2>3, ContinueKeeps
<1>6. Sealed' = Sealed
  BY <1>1 DEF Sealed
<1>7. QED
  BY <1>1, <1>4, <1>5, <1>6, LossKept DEF CloseInv

LEMMA ExportKeeps ==
  ASSUME CloseInv, Export
  PROVE  CloseInv'
<1>1. /\ pc = "finish" /\ pc' = "idle" /\ run' = NoRun
      /\ report' \in {"completed", "receipt missing"}
      /\ \/ run.receipt # 0 /\ exports' = Put(exports, run.mission, run.receipt)
         \/ run.receipt = 0 /\ exports' = exports
      /\ UNCHANGED <<snapshots, graph, receipts, minted, runs, faults>>
  BY DEF Export, Ends
<1>2. /\ run \in Runs /\ run.mission \in DOMAIN snapshots /\ Snap.status = "COMPLETED"
      /\ run.receipt # 0 => run.receipt = Snap.receipt /\ run.receipt \in receipts
  BY <1>1, AtHand DEF AtWork, CloseInv, RunInv
<1>3. RunInv' /\ BudgetSuffices' /\ Carried' = {}
  BY <1>1 DEF NoRun, Runs, RunInv, BudgetSuffices, Carried, AtWork
<1>4. CASE run.receipt = 0
  <2>1. StoresInv' /\ Sealed' = Sealed
    <3>1. UNCHANGED stores
      BY <1>1, <1>4 DEF stores
    <3>2. QED
      BY <3>1, StoresRest DEF CloseInv
  <2>2. Carried = {}
    BY <1>4 DEF Carried
  <2>3. QED
    BY <1>1, <1>3, <2>1, <2>2, LossKept DEF CloseInv
<1>5. CASE run.receipt # 0
  <2>1. /\ DOMAIN exports' = DOMAIN exports \cup {run.mission}
        /\ exports'[run.mission] = run.receipt
        /\ \A k \in DOMAIN exports \ {run.mission} : exports'[k] = exports[k]
    <3>1. exports' = Put(exports, run.mission, run.receipt)
      BY <1>1, <1>5
    <3>2. QED
      BY <3>1 DEF Put
  <2>2. ExportsStand'
    <3> SUFFICES ASSUME NEW e \in DOMAIN exports'
                 PROVE  /\ e \in Completed /\ exports'[e] = snapshots[e].receipt
                        /\ exports'[e] \in receipts
                        /\ \A n \in DOMAIN snapshots \ {e} : snapshots[n].receipt # exports'[e]
      BY <1>1 DEF ExportsStand, Completed
    <3>1. CASE e = run.mission
      <4>1. snapshots[e] = Snap /\ exports'[e] = Snap.receipt /\ Snap.receipt # 0
        BY <1>2, <1>5, <2>1, <3>1 DEF Snap
      <4>2. e \in Completed
        BY <1>2, <3>1, <4>1 DEF Completed
      <4>3. QED
        BY <1>2, <1>5, <3>1, <4>1, <4>2 DEF CloseInv, StoresInv, CitedOnce
    <3>2. CASE e # run.mission
      BY <2>1, <3>2 DEF CloseInv, StoresInv, ExportsStand
    <3>3. QED
      BY <3>1, <3>2
  <2>3. StoresInv'
    BY <1>1, <1>2, <2>1, <2>2 DEF CloseInv, StoresInv, CitedOnce
  <2>4. Sealed' \ Carried' \subseteq Sealed \ Carried
    BY <1>1, <1>3, <2>1 DEF Sealed, Carried
  <2>5. QED
    BY <1>1, <1>3, <2>3, <2>4, LossKept DEF CloseInv
<1>6. QED
  BY <1>4, <1>5

(* Another session appends evidence; a run dies, and may lose what it was  *)
(* carrying.                                                               *)
LEMMA AppendKeeps ==
  ASSUME CloseInv, NEW m \in Missions, AppendEvidence(m)
  PROVE  CloseInv'
<1>1. /\ graph' = graph \cup {m} /\ m \in DOMAIN snapshots
      /\ UNCHANGED <<snapshots, receipts, exports, minted, pc, run, report, runs, faults>>
  BY DEF AppendEvidence
<1>2. StoresInv'
  BY <1>1 DEF CloseInv, StoresInv, CitedOnce, ExportsStand, Completed
<1>3. RunInv'
  <2>1. Snap' = Snap
    BY <1>1 DEF Snap
  <2>2. QED
    BY <1>1, <2>1 DEF CloseInv, RunInv
<1>4. Sealed' = Sealed /\ Carried' = Carried
  BY <1>1 DEF Sealed, Carried
<1>5. QED
  BY <1>1, <1>2, <1>3, <1>4, LossKept DEF CloseInv, BudgetSuffices

LEMMA DieKeeps ==
  ASSUME CloseInv, Die
  PROVE  CloseInv'
<1>1. /\ pc' = "idle" /\ run' = NoRun /\ report' = "died" /\ faults' = faults + 1
      /\ UNCHANGED stores
  BY DEF Die, Ends
<1>2. StoresInv' /\ Sealed' = Sealed
  BY <1>1, StoresRest DEF CloseInv
<1>3. RunInv' /\ BudgetSuffices'
  BY <1>1 DEF NoRun, Runs, RunInv, BudgetSuffices, AtWork
<1>4. LossInv'
  <2> DEFINE before == Sealed \ Carried
  <2>1. IsFiniteSet(before)
    <3>1. before \subseteq DOMAIN snapshots
      BY DEF Sealed
    <3>2. QED
      BY <3>1, FS_Subset DEF CloseInv, StoresInv
  <2>2. Sealed \subseteq before \cup {run.mission}
    BY DEF Carried
  <2>3. faults \in Nat /\ Cardinality(before) <= faults
    BY DEF CloseInv, LossInv
  <2> HIDE DEF before
  <2>4. Cardinality(Sealed) <= faults + 1
    BY <2>1, <2>2, <2>3, OneMore
  <2>5. Sealed' \ Carried' = Sealed
    BY <1>1, <1>2 DEF Carried, NoRun
  <2>6. QED
    BY <1>1, <2>3, <2>4, <2>5 DEF LossInv
<1>5. QED
  BY <1>2, <1>3, <1>4 DEF CloseInv

-----------------------------------------------------------------------------
LEMMA CloseInit == Init => CloseInv
<1> SUFFICES ASSUME Init PROVE CloseInv
  OBVIOUS
<1>1. DOMAIN snapshots = {} /\ DOMAIN exports = {}
  BY DEF Init
<1>2. StoresInv
  BY <1>1, FS_EmptySet DEF Init, StoresInv, CitedOnce, ExportsStand
<1>3. RunInv
  BY DEF Init, RunInv, NoRun, Runs, AtWork
<1>4. Sealed \ Carried = {}
  BY <1>1 DEF Sealed
<1>5. LossInv
  BY <1>4, FS_EmptySet DEF Init, LossInv
<1>6. QED
  BY <1>2, <1>3, <1>5 DEF Init, CloseInv, BudgetSuffices

LEMMA CloseStep == CloseInv /\ [Next]_vars => CloseInv'
<1> SUFFICES ASSUME CloseInv, [Next]_vars PROVE CloseInv'
  OBVIOUS
<1>1. CASE UNCHANGED vars
  <2>1. UNCHANGED <<stores, pc, run, report, runs, faults>>
    BY <1>1 DEF vars
  <2>2. StoresInv' /\ Sealed' = Sealed /\ snapshots' = snapshots /\ receipts' = receipts
    BY <2>1, StoresRest DEF CloseInv
  <2>3. RunInv' /\ Carried' = Carried
    <3>1. Snap' = Snap
      BY <2>1, <2>2 DEF Snap
    <3>2. QED
      BY <2>1, <2>2, <3>1 DEF CloseInv, RunInv, Carried
  <2>4. QED
    BY <2>1, <2>2, <2>3, LossKept DEF CloseInv, BudgetSuffices
<1>2. CASE Next
  BY <1>2, RunKeeps, StartKeeps, AppendKeeps, PlanKeeps, IdleTurnKeeps, LifecycleKeeps,
     StayKeeps, PassKeeps, ApprovalKeeps, SealKeeps, StoreKeeps, ExportKeeps, DieKeeps
     DEF Next
<1>3. QED
  BY <1>1, <1>2

LEMMA CloseInvariant == Spec => []CloseInv
  BY CloseInit, CloseStep, PTL DEF Spec

(* Every store holds documents of its kind, and what the run knows of them *)
(* is there.                                                               *)
THEOREM CloseTypeCorrect == Spec => []TypeOK
<1>1. CloseInv => TypeOK
  <2> SUFFICES ASSUME CloseInv PROVE TypeOK
    OBVIOUS
  <2>1. run.mission \in DOMAIN snapshots \cup {NoMission}
    BY DEF CloseInv, RunInv, NoRun
  <2>2. run.receipt \in 0 .. minted
    BY DEF CloseInv, RunInv, Runs, StoresInv, Snap, AtWork
  <2>3. QED
    BY <2>1, <2>2 DEF CloseInv, StoresInv, TypeOK
<1>2. QED
  BY <1>1, CloseInvariant, PTL

(* However many closes there are and wherever runs die: an export names    *)
(* the receipt of a completed close, stored and cited by no other.         *)
THEOREM ExportsHold == Spec => []ExportsStand
<1>1. CloseInv => ExportsStand
  BY DEF CloseInv, StoresInv
<1>2. QED
  BY <1>1, CloseInvariant, PTL

(* However many runs there are: no more closes lose their export or their  *)
(* receipt than runs have died.                                            *)
THEOREM ClosesLostByDeath == Spec => []LostClosesBounded
<1>1. CloseInv => LostClosesBounded
  <2> SUFFICES ASSUME CloseInv, pc = "idle"
               PROVE  Cardinality({m \in Completed : m \notin DOMAIN exports
                                     \/ snapshots[m].receipt \notin receipts}) <= faults
    BY DEF LostClosesBounded
  <2> DEFINE lost == {m \in Completed : m \notin DOMAIN exports
                                          \/ snapshots[m].receipt \notin receipts}
  <2>1. lost \subseteq Sealed \ Carried
    <3> SUFFICES ASSUME NEW m \in lost PROVE m \in Sealed \ Carried
      OBVIOUS
    <3>1. m \in DOMAIN snapshots /\ snapshots[m].status = "COMPLETED"
      BY DEF Completed
    <3>2. snapshots[m].receipt # 0
      <4>1. snapshots[m] \in Snapshot /\ Shaped(snapshots[m])
        BY <3>1 DEF CloseInv, StoresInv
      <4>2. PICK n \in 1 .. ARCHIVE + 1 : Stage(snapshots[m], n)
        BY <3>1, <4>1, UnplannedRests DEF Shaped
      <4>3. n \notin Phases
        BY <3>1, <4>1, <4>2, StageStatus
      <4>4. QED
        BY <4>2, <4>3, PhaseRange DEF Stage
    <3>3. m \notin DOMAIN exports
      BY DEF CloseInv, StoresInv, ExportsStand
    <3>4. m \notin Carried
      BY DEF CloseInv, RunInv, NoRun, Carried
    <3>5. QED
      BY <3>1, <3>2, <3>3, <3>4 DEF Sealed
  <2>2. IsFiniteSet(Sealed \ Carried)
    <3>1. Sealed \ Carried \subseteq DOMAIN snapshots
      BY DEF Sealed
    <3>2. QED
      BY <3>1, FS_Subset DEF CloseInv, StoresInv
  <2>3. /\ Cardinality(lost) <= Cardinality(Sealed \ Carried)
        /\ Cardinality(lost) \in Nat /\ Cardinality(Sealed \ Carried) \in Nat
    <3> HIDE DEF lost
    <3>1. QED
      BY <2>1, <2>2, FS_Subset, FS_CardinalityType
  <2> HIDE DEF lost
  <2>4. Cardinality(lost) <= faults
    BY <2>3 DEF CloseInv, LossInv
  <2>5. QED
    BY <2>4 DEF lost
<1>2. QED
  BY <1>1, CloseInvariant, PTL

(* Sixteen advances are enough, however many runs died, waited or were     *)
(* denied before.                                                          *)
THEOREM BudgetIsEnough == Spec => []BudgetSuffices
<1>1. CloseInv => BudgetSuffices
  BY DEF CloseInv
<1>2. QED
  BY <1>1, CloseInvariant, PTL
=============================================================================
