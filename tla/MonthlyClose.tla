---------------------------- MODULE MonthlyClose ----------------------------
(***************************************************************************)
(* The monthly close: one command that finds or starts the close of its    *)
(* period and advances it phase by phase, through the gate of its approver *)
(* and the sealing of its receipt, until it completes or has to wait.      *)
(*                                                                         *)
(* What a run knows besides the stores (source references, the manifest to *)
(* reconcile, materiality, the receipt it sealed) lives in the chain       *)
(* object, and the command makes a new object for every run: whatever a    *)
(* run that dies has not stored is gone.  A run may die between any two    *)
(* writes; one that fails to write ends in the same way.                   *)
(*                                                                         *)
(* One session closes a period here.  A command of the engine is one step, *)
(* and so is a progress update: the races and crashes inside them are the  *)
(* subject of MissionCoordinator.                                          *)
(***************************************************************************)
EXTENDS MissionProtocol, FiniteSets

CONSTANTS
  Missions,     \* mission ids the engine may draw
  MaxRuns,      \* bound: runs of the command
  MaxFaults,    \* bound: runs that die
  NoMission     \* the mission of a run that has none

ASSUME CloseAssumption ==
  /\ NoMission \notin Missions /\ MaxRuns \in Nat /\ MaxFaults \in Nat

VARIABLES
  snapshots,   \* .local/missions/snapshots: mission -> Snapshot
  graph,       \* .local/evidence: the missions with a node
  receipts,    \* .local/receipts: the receipts stored
  exports,     \* .local/exports: mission -> the receipt it names
  minted,      \* receipts signed so far
  pc,          \* where the run is
  run,         \* what the run knows
  report,      \* how the last run ended
  runs,        \* runs so far
  faults       \* runs that died

stores == <<snapshots, graph, receipts, exports, minted>>
vars   == <<stores, pc, run, report, runs, faults>>

(* Variant: a budget that leaves no slack for the phases. *)
TWELVE_ADVANCES == 12

MONTHLY_CLOSE_MAX_ADVANCES == 16

NoRun == [ mission |-> NoMission, refs |-> FALSE, manifest |-> FALSE, tier |-> "R2",
           advances |-> 0, receipt |-> 0 ]

Init ==
  /\ snapshots = << >> /\ graph = {} /\ receipts = {} /\ exports = << >> /\ minted = 0
  /\ pc = "idle" /\ run = NoRun /\ report = "none" /\ runs = 0 /\ faults = 0

(***************************************************************************)
(* The ends of a run, and what follows an advance.                         *)
(***************************************************************************)
Ends(how) == pc' = "idle" /\ run' = NoRun /\ report' = how

Snap     == snapshots[run.mission]
Prepared == derivePreparedStep(Snap)

Save(m) == snapshots' = [snapshots EXCEPT ![run.mission] = m]

(* The loop of run: completed, waiting, failed, out of budget, or on.      *)
Continue(m) ==
  \/ /\ m.status = "COMPLETED"
     /\ pc' = "finish" /\ UNCHANGED <<run, report>>
  \/ m.status \in Waiting /\ Ends("waits")
  \/ m.status = "FAILED" /\ Ends("failed")
  \/ /\ m.status \notin Waiting \cup {"COMPLETED", "FAILED"}
     /\ \/ /\ run.advances + 1 < MONTHLY_CLOSE_MAX_ADVANCES
           /\ pc' = "advance"
           /\ run' = [run EXCEPT !.advances = @ + 1]
           /\ UNCHANGED report
        \/ /\ run.advances + 1 = MONTHLY_CLOSE_MAX_ADVANCES
           /\ Ends(IF m.steps[INTAKE] = "ABSENT" THEN "no plan" ELSE "no budget")

Advancing == pc = "advance"
Running(phase) == Advancing /\ Prepared = [phase |-> phase, disposition |-> "RUN"]
GateStates == {"AWAITING_APPROVAL", "BLOCKED_BY_GATE"}
Held(statuses) == Advancing /\ Prepared.disposition = "WAIT" /\ Snap.status \in statuses

SavesAndContinues(m) ==
  /\ Save(Bump(m)) /\ Continue(m)
  /\ UNCHANGED <<graph, receipts, exports, minted, runs, faults>>

(***************************************************************************)
(* Starting a run: the command passes no references and R2 materiality,    *)
(* other callers may pass references, a manifest or a higher tier.         *)
(***************************************************************************)
Run(refs, manifest, tier) ==
  /\ pc = "idle" /\ runs < MaxRuns
  /\ runs' = runs + 1
  /\ run' = [NoRun EXCEPT !.refs = refs, !.manifest = manifest, !.tier = tier]
  /\ pc' = "find" /\ report' = "none"
  /\ UNCHANGED <<stores, faults>>

ActiveCloses ==
  {m \in DOMAIN snapshots :
     snapshots[m].status \notin {"COMPLETED", "FAILED", "REJECTED"}}

(* A close in flight is continued; its manifest is not brought back.       *)
FindActive(m) ==
  /\ pc = "find" /\ m \in ActiveCloses
  /\ run' = [run EXCEPT !.mission = m, !.manifest = FALSE]
  /\ pc' = "advance"
  /\ UNCHANGED <<stores, report, runs, faults>>

StartMission(m) ==
  /\ pc = "find" /\ ActiveCloses = {} /\ m \notin DOMAIN snapshots
  /\ snapshots' = Put(snapshots, m, Started("monthly-close"))
  /\ run' = [run EXCEPT !.mission = m]
  /\ pc' = "plan"
  /\ UNCHANGED <<graph, receipts, exports, minted, report, runs, faults>>

InjectPlan ==
  /\ pc = "plan"
  /\ Save(Bump(WithPlan(Snap)))
  /\ pc' = "advance"
  /\ UNCHANGED <<graph, receipts, exports, minted, run, report, runs, faults>>

(***************************************************************************)
(* Advancing one phase.                                                    *)
(***************************************************************************)
(* Without a plan there is nothing to do, and the loop goes on doing it.   *)
NothingPrepared ==
  /\ Advancing /\ Prepared = Nothing
  /\ Continue(Snap)
  /\ UNCHANGED <<stores, runs, faults>>

(* The intake, the binding of the scope, the archive: engine commands.     *)
Lifecycle ==
  \E phase \in {INTAKE, BIND_SCOPE, ARCHIVE} :
    /\ Running(phase)
    /\ LegalTarget(Snap, genericIntentHandler(Snap, phase))
    /\ SavesAndContinues(genericIntentHandler(Snap, phase))

HasEvidence == run.refs \/ run.mission \in graph

AskEvidence ==
  /\ Running(INGEST) /\ ~HasEvidence
  /\ SavesAndContinues(genericIntentHandler(Snap, INGEST))

Ingest ==
  /\ Running(INGEST) /\ HasEvidence
  /\ SavesAndContinues(completeStep(Snap, INGEST, "COMPLETED"))

Steady ==
  \E phase \in {NORMALIZE, CLASSIFY, INVESTIGATE, VERIFY, EXECUTE} :
    /\ Running(phase)
    /\ SavesAndContinues(completeStep(Snap, phase, "COMPLETED"))

(* The run resumes an evidence wait by itself once the graph has a node;   *)
(* any other wait but that of the approve phase stands.                    *)
ResumeEvidence ==
  /\ Held({"WAITING_FOR_EVIDENCE"}) /\ run.mission \in graph
  /\ SavesAndContinues([Snap EXCEPT !.status = "RUNNING"])

KeepWaiting ==
  /\ Held(Waiting \ GateStates) /\ (Snap.status = "WAITING_FOR_EVIDENCE" => run.mission \notin graph)
  /\ Continue(Snap)
  /\ UNCHANGED <<stores, runs, faults>>

(* Differences never halt the phase: they raise an ERROR blocker.          *)
Reconcile(differences) ==
  /\ Running(RECONCILE) /\ (differences => run.manifest)
  /\ LET m == completeStep(Snap, RECONCILE, "COMPLETED")
         n == IF differences THEN [m EXCEPT !.alarmed = TRUE] ELSE m
     IN  Save(Bump(n)) /\ Continue(n)
  /\ graph' = IF run.manifest THEN graph \cup {run.mission} ELSE graph
  /\ UNCHANGED <<receipts, exports, minted, runs, faults>>

Propose ==
  /\ Running(PROPOSE)
  /\ SavesAndContinues([completeStep(Snap, PROPOSE, "COMPLETED") EXCEPT !.proposal = TRUE])

(***************************************************************************)
(* The approve phase.  One approver is enough for R2, not for R3.  The     *)
(* phase comes after PROPOSE, so a proposal is attached.                   *)
(***************************************************************************)
Allowed == run.tier = "R2"

GateBlocks ==
  /\ Running(APPROVE) /\ ~Allowed
  /\ Snap.status = "RUNNING"
  /\ SavesAndContinues([Snap EXCEPT !.status = "BLOCKED_BY_GATE", !.alarmed = TRUE])

(* Writes a status on the way to approval, and stays in the approve phase. *)
Towards(m, at) ==
  /\ Save(Bump(m)) /\ pc' = at
  /\ UNCHANGED <<graph, receipts, exports, minted, run, report, runs, faults>>

AskApproval ==
  /\ \/ Running(APPROVE) /\ Allowed
     \/ pc = "approving" /\ Snap.status = "RUNNING"
  /\ LegalTarget(Snap, genericIntentHandler(Snap, APPROVE))
  /\ Towards(genericIntentHandler(Snap, APPROVE), "approving")

(* An approver answers a wait the mission was left in: denied, the engine  *)
(* falls back to RUNNING and the phase runs again.                         *)

DenyWaiting ==
  /\ Held(GateStates) /\ ~Allowed
  /\ SavesAndContinues([Snap EXCEPT !.status = "RUNNING"])

TakeUpWaiting ==
  /\ Held({"AWAITING_APPROVAL"}) /\ Allowed
  /\ pc' = "approving"
  /\ UNCHANGED <<stores, run, report, runs, faults>>

Unblock ==
  /\ Held({"BLOCKED_BY_GATE"}) /\ Allowed
  /\ Towards([Snap EXCEPT !.status = "RUNNING"], "approving")

Approve ==
  /\ pc = "approving" /\ Snap.status = "AWAITING_APPROVAL"
  /\ Towards([Snap EXCEPT !.status = "APPROVED"], "approved")

CompleteApprove ==
  /\ pc = "approved"
  /\ SavesAndContinues(completeStep(Snap, APPROVE, "COMPLETED"))

(* A mission approved by a run that died before it completed the step asks *)
(* for an approval the engine no longer allows.                            *)
CannotApprove ==
  /\ Running(APPROVE) /\ Snap.status # "RUNNING"
  /\ Ends("throws")
  /\ UNCHANGED <<stores, runs, faults>>

(***************************************************************************)
(* Sealing and exporting.  The mission cites the receipt before the store  *)
(* has it.                                                                 *)
(***************************************************************************)
SealClose ==
  /\ Running(CLOSE)
  /\ minted' = minted + 1
  /\ Save(Bump([completeStep(Snap, CLOSE, "COMPLETED") EXCEPT !.receipt = minted + 1]))
  /\ run' = [run EXCEPT !.receipt = minted + 1]
  /\ pc' = "store"
  /\ UNCHANGED <<graph, receipts, exports, report, runs, faults>>

(* Variant: the receipt is cited but never stored. *)
ForgetReceipt ==
  /\ pc = "store"
  /\ Continue(Snap)
  /\ UNCHANGED <<stores, runs, faults>>

StoreReceipt ==
  /\ pc = "store"
  /\ receipts' = receipts \cup {run.receipt}
  /\ Continue(Snap)
  /\ UNCHANGED <<snapshots, graph, exports, minted, runs, faults>>

(* Variant: the run returns its result and leaves the export to others. *)
ReturnOnly ==
  /\ pc = "finish"
  /\ Ends("completed")
  /\ UNCHANGED <<stores, runs, faults>>

Export ==
  /\ pc = "finish"
  /\ \/ /\ run.receipt # 0
        /\ exports' = Put(exports, run.mission, run.receipt)
        /\ Ends("completed")
     \/ run.receipt = 0 /\ Ends("receipt missing") /\ UNCHANGED exports
  /\ UNCHANGED <<snapshots, graph, receipts, minted, runs, faults>>

(***************************************************************************)
(* The evidence chain of another session appends a node; a run dies.       *)
(***************************************************************************)
AppendEvidence(m) ==
  /\ m \in DOMAIN snapshots /\ m \notin graph
  /\ graph' = graph \cup {m}
  /\ UNCHANGED <<snapshots, receipts, exports, minted, pc, run, report, runs, faults>>

Die ==
  /\ pc # "idle" /\ faults < MaxFaults
  /\ faults' = faults + 1
  /\ Ends("died")
  /\ UNCHANGED <<stores, runs>>

Next ==
  \/ \E refs, manifest \in BOOLEAN, tier \in {"R2", "R3"} : Run(refs, manifest, tier)
  \/ \E m \in Missions : FindActive(m) \/ StartMission(m) \/ AppendEvidence(m)
  \/ InjectPlan \/ NothingPrepared \/ Lifecycle \/ AskEvidence \/ Ingest \/ Steady
  \/ ResumeEvidence \/ KeepWaiting \/ \E d \in BOOLEAN : Reconcile(d)
  \/ Propose \/ GateBlocks \/ AskApproval \/ DenyWaiting \/ TakeUpWaiting \/ Unblock
  \/ Approve \/ CompleteApprove \/ CannotApprove
  \/ SealClose \/ StoreReceipt \/ Export \/ Die

Spec == Init /\ [][Next]_vars

(***************************************************************************)
(* Properties.                                                             *)
(***************************************************************************)
(* Every variable has the shape its operations expect. *)
TypeOK ==
  /\ \A m \in DOMAIN snapshots : m \in Missions /\ snapshots[m] \in Snapshot
  /\ graph \subseteq DOMAIN snapshots /\ DOMAIN exports \subseteq DOMAIN snapshots
  /\ receipts \subseteq 1 .. minted /\ run.receipt \in 0 .. minted
  /\ run.mission \in DOMAIN snapshots \cup {NoMission}

Completed == {m \in DOMAIN snapshots : snapshots[m].status = "COMPLETED"}

(* An exported close is completed, and its export names the very receipt   *)
(* the mission cites, which the receipt store holds and no other mission   *)
(* cites.                                                                  *)
ExportsStand ==
  \A m \in DOMAIN exports :
    /\ m \in Completed /\ exports[m] = snapshots[m].receipt
    /\ exports[m] \in receipts
    /\ \A n \in DOMAIN snapshots \ {m} : snapshots[n].receipt # exports[m]

(* A close completes without its export, its receipt or both only if a run *)
(* died on it: no other order of waits, denials and resumptions loses one. *)
LostClosesBounded ==
  pc = "idle" =>
    Cardinality({m \in Completed : m \notin DOMAIN exports
                                     \/ snapshots[m].receipt \notin receipts}) <= faults

(* Sixteen advances are enough for every close that has its plan, however  *)
(* often it waited, was denied or was interrupted.                         *)
BudgetSuffices == report # "no budget"
=============================================================================
