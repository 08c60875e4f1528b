# Verification of drenyra-pi: missions, chains, evidence, receipts, routing

TLA+ modules, TLC runs and TLAPS proofs kept beside the drenyra-pi harness.
Source paths are relative to `src/`; "the engine" is the pinned `drenyra-ai`
package, which the harness calls and whose source is not in the repository. Its
transition table, command pipeline and gates are marked external and were
compared with the compiled package in `vendored/drenyra-ai-0.4.1.tgz`, the one
`package.json` depends on. `PROJECT.json` maps every definition to the lines it
models.

## 1. The system

drenyra-pi runs accounting *missions* (monthly close, corrections,
reconciliations, reviews) through thirteen phases. A mission is a snapshot on
disk plus an append-only event log; commands read it, decide on one phase, and
write it back. Nothing holds a lock: every store call is an `await`, several
sessions may share a workspace, and a process may die between any two writes.

Which component is modelled, and how far, stands in `PROJECT.json`.

| component | state it keeps | operations | what makes it correct |
|---|---|---|---|
| lifecycle policy (`lib/accounting-status.ts`, `lib/authority-gates.ts`) | none | `derivePreparedStep`, `nextAuthorizedActionFor`, `assertMonotonicAuthority`, gates, materiality | phases in order; conditional phases skipped only without a trigger; monotonic authority |
| mission coordinator (`lib/mission-commands.ts`) | source references per mission, in memory | `start`, `advance`, `resumeAll`, `findActiveMission`, routing port | one phase per advance; no transition twice; what it reports happened |
| durable stores, recovery (`lib/mission-store.ts`) | snapshots, event logs, idempotency records, recovery records | `save`, `append`, `get`/`put`, `listExecuting`, `recoverDurableMissions` | snapshot and log agree; recovery touches running missions only |
| authority store (`lib/authority-store.ts`) | NDJSON of authorizations per mission | append, list, find bound | identical replay accepted, conflicting id refused |
| chain pipeline (`lib/chain-pipeline.ts`) | none of its own; missions, authorizations, evidence, receipts on disk | `startChainMission`, `runChainStep`, `executePreparedStep` | no governed step without a bound authorization and passed gates; receipt and snapshot agree |
| chains (`chains/*.ts`) | monthly close keeps references, materiality and the close receipt in memory | start, advance, `completeApproval`, `sealClose`, `run` | close only after approval, with the receipt of exactly the evidence approved |
| evidence graph (`lib/evidence-graph.ts`) and projections | NDJSON of nodes and edges per mission | `appendNode`, `appendEdge`, `load`, `validate`, `lineage`, hash | acyclic, ids unique, conclusions grounded, order-independent hash |
| receipts and trusted keys (`lib/receipt-store.ts`, `lib/receipt-verification.ts`, `lib/trusted-key-registry.ts`) | receipts by hash; key registry document | save, load, verify; put, resolve | receipts immutable; verification fails closed; revocation is not undone |
| routing (`lib/routing/*`) | budget ledger of one work item | preflight, `executeRoutingWork`, direct port | one dispatch, within budget, only validated targets adopted |
| scope and context (`runtime/context.ts`, `lib/canonicalization.ts`, `extensions/scope-guard.ts`) | context document | load, save, bind, hash | a mission runs only under the scope it was created for |
| engram client (`runtime/engram-client.ts`, `engram-pin.ts`) | a child process, the requests pending before it | verify, spawn, handshake, `callTool`, `shutdown` | answers matched to calls; a dead child settles them; no process left behind |
| runtime pin, installer, doctor; configurator | lock facts; host configuration | install decision, verify; managed transition | refuses unpinned code; failed transition leaves no trace |
| extensions (`extensions/*`) | none durable | slash commands, guards, panels | each command builds a new coordinator and calls the parts above |
| scripts, agents, prompts, skills, themes, contracts | — | build and release tools, text | — |

Interactions: extensions call the coordinator and the chains; the chains call
the pipeline; the pipeline and the coordinator write the mission stores, partly
directly (`phaseOnlyUpdate`) and partly through the engine's
`MissionRuntime.apply`, which adds the idempotency record; recovery goes through
`MissionRuntime.recoverIncomplete`. They share state only through files.

Hard parts, listed line by line as hazards in `PROJECT.json`: the order of the
two or three writes of one command against a crash; retries under an
idempotency key; two sessions between each other's awaits; recovery deciding
from version numbers; memory lost on restart; conditional phases whose trigger
is recorded while the plan is under way; a registry rewritten whole by two
processes; a mission read once and routed later; a child process that dies when
nobody listens.

## 2. Modules

| module | models | state and actions |
|---|---|---|
| `MissionProtocol` | the lifecycle policy and the engine's tables | no state: statuses, transition table, phases, applicability, authority modes, the snapshot, `derivePreparedStep`, the generic handler |
| `EdaMission` | the abstract promise of one mission | intent, status, next phase; `Create Plan Accept Bind Pass AskEvidence AskApproval Finish LoseTrack` |
| `MissionCoordinator` | coordinator, file stores, engine command pipeline, recovery | one action per durable write or decision (below) |
| `MCMissionCoordinator` | small instances for TLC | none |
| `AuthorityGates` | authority gates (`lib/authority-gates.ts`, `PHASE_FAMILY`, `targetStatusFor`) | no state: action families and their modes, the stages, `FirstBlocked` |
| `GovernedMission` | the abstract promise of one mission run by a chain | intent, status, next phase, proposal, authorized families and scopes; `Create Plan Authorize Accept Bind Pass Skip AskEvidence Gate Release AskApproval Approve RecordApproval Finish` |
| `ChainPipeline` | `runChainStep` over the mission, authority and receipt stores | one action per durable write, read or decision (below) |
| `MCChainPipeline` | small instances for TLC: scopes, inputs of a run | none |
| `EvidenceGraph` | `lib/evidence-graph.ts` and `projectEvidence` | the log of one mission's evidence, sessions that append to it and project it (below) |
| `EvidenceOrder` | Kahn's algorithm in `findCycle` and `topologicalOrder` | no state of its own: the algorithm, run on the graphs of `EvidenceGraph` |
| `MCEvidenceGraph` | small instances for TLC: what the phases append | none |
| `MonthlyClose` | `chains/monthly-close.ts`: `run` and what it calls | stores that survive a run, the memory of a run that does not (below) |
| `TrustedReceipts` | key registry, receipt store, receipt verification | processes between the read and the rename of an operation (below) |
| `MCTrustedReceipts` | small instances for TLC: key entries, records | none |
| `RoutingPreflight` | `lib/routing/preflight.ts` | no state: the nine stages, the budgets, the route |
| `Routing` | ledger, executor, ports, and the host that routes (`statusHandler`) | one host before stores that other sessions move (below) |
| `MCRouting` | small instances for TLC: requests, consumptions | none |
| `EngramClient` | `runtime/engram-client.ts` | the client's event loop, its pipes and the child (below) |
| `MissionProtocolProofs` | lemmas on the pure functions | |
| `MissionCoordinatorProofs` | types, sealed keys, sound snapshots, logs, waits and the refinement of `EdaMission` | |
| `ChainPipelineProofs` | types, one scope, authorized steps, receipts, ceremony and waits of the pipeline; with one fault, sound snapshots and the refinement of `GovernedMission` | |
| `EvidenceGraphProofs` | types, growth, anchored edges, grounding, acyclicity, completed phases and projections of the evidence graph | |
| `MonthlyCloseProofs` | types, exports, lost closes and the budget of the close | |
| `TrustedReceiptsProofs` | types, receipts that agree, fresh trust, writes that stand | |
| `RoutingProofs` | types, budget, admission, stops and successes of routed work | |
| `EngramClientProofs` | types and pending requests of the client | |

`MissionCoordinator` keeps the five file stores (`snapshots`, `events`, `torn`,
`idempotency`, `recovery`), each session's memory (`sourceRefs`) and, in
`sess`, where each session is inside its command: the snapshot the decision was
taken on (`base`), the one read last or about to be written (`next`), recovery's
work list. An await in the code is a boundary between two actions:

- `start` is `StartMission` (the engine's save), `LogEvent`, `Refresh`,
  `SaveSnapshot`, `LogEvent` (the plan).
- `advance` decides in `ReportOnly`, `AdvanceSkip`, `AdvancePhaseOnly` or
  `AdvanceCommand`. Phase-only work goes `Refresh` (read again, compare the
  version), `SaveSnapshot`, `LogEvent`. Engine work goes `ReplayKey` or
  `NewKey`, `LoadMission`, `ExecuteCommand` (EXECUTING record, version check,
  handler, legality), `SaveSnapshot`, `LogEvent`, `SealKey`; or `FailKey`.
- `resumeAll` is `RecoverScan`, `RecoverFind`, and `RecoverSave`, `LogEvent`
  for each running mission.
- `Crash` may fall between any two steps, loses the session's memory, and may
  leave a truncated line of an append. `StoreError` is a store call that
  throws: inside the engine's execution it leads to `FailKey`, elsewhere the
  command just ends. `Expire` drops an idempotency record.

`ChainPipeline` keeps `snapshots`, the missions whose log is `torn` or has any
event (`logged`: all that a replay asks of a log), `idempotency`,
`authorizations` and the authority logs that are `spoilt`, the stored `receipts`
and the count of those `minted`, and in `sess` where each session is inside its
run: program counter, the operation `op` under way, inputs of the run, the
snapshots `base` and `next`, the outcome of the chain. It shares the engine's
tables and `MissionProtocol` with the coordinator, not its state: a chain works
on the missions of its own intent.

- stage 2 is `BelowMode`; stage 3 `FindMission`, or `FindNone`, `StartMission`,
  `LogEvent`, `Refresh`, `SaveSnapshot`, `LogEvent`; stage 4 is `Prepared`, part
  of the action that learns the mission.
- stage 5 is `FindAuthorization`, `ScopeBound`, `CheckConflict`,
  `AppendAuthorization`; stage 6 is `Allowed`, `GateBlock` or `Blocked`.
- the chain's own computation is `ComputeThrows`, `ComputeWaits` or
  `ComputeDone`; its evidence writes are `EvidenceGraph`'s.
- `executePreparedStep` is `Refresh`, `SaveSnapshot`, `LogEvent` for phase-only
  work, and `ReplayKey` or `NewKey`, `LoadMission`, `ExecuteCommand`,
  `SaveSnapshot`, `LogEvent`, `SealKey` (or `FailKey`) for each engine command;
  `Applied` says what follows a command (the approve command, a note, the approve
  step). `StoreReceipt` comes last.
- `Crash`, `StoreError` and `Expire` are as in the coordinator; a crash may also
  cut the authority log's last line, which is then never read again.

`EvidenceGraph` keeps the `nodes` and `edges` of one log in their order, whether
its last line is `whole`, `open` (no newline) or `broken` (`tail`), the batches some
phase has appended to the end (`done`), and in `sess` where each session is.

- A phase is a batch: `Begin`, then each entry by `Replay` (same id, same bytes),
  `Reject` (same id, other bytes; an edge against the rules: the phase ends), or
  `Admit` (load and decide) and `Write` (the line). Between `Admit` and `Write`
  the file may grow; `raced` remembers that it did.
- `projectEvidence` is `Project` (the load), one `Lineage` per terminal, each
  with a load of its own, and `Propose`; or `Untraceable`.
- A line that does not parse makes every load throw: `Unavailable`.
- `Crash` in the middle of an append leaves nothing, part of the line, or all of
  it; `StoreError` nothing or all. A line written after one without its newline
  joins it, and both are malformed (`WholeLine`).

`MonthlyClose` keeps what is on disk (`snapshots`, the missions with evidence in
`graph`, `receipts`, `exports`), and in `run` what the chain object knows: source
references, manifest, materiality, the receipt it sealed. The command makes a new
object for each run.

- `run` is `Run`, `FindActive` or `StartMission` and `InjectPlan`, then one action
  per advance: `Lifecycle`, `AskEvidence` or `Ingest`, `Steady`, `Reconcile`,
  `Propose`; `NothingPrepared` and `KeepWaiting` write nothing. `Continue` is what
  the loop makes of the mission an advance left.
- the approve phase is `GateBlocks`, or `AskApproval`, `Approve`,
  `CompleteApprove`; from a wait `DenyWaiting`, `TakeUpWaiting`, `Unblock`.
- `SealClose` (the snapshot), `StoreReceipt`, `Export`.
- `Die` ends a run between any two of these. `AppendEvidence` is another session.

`TrustedReceipts` keeps `keys`, `receipts`, the clock `now`, and in `at` what each
process has read: `put` is the load and `putRename` the merge and the write;
`save` is the check and `saveRename` the write; `load`, `resolve` and
`verifyHarnessReceipt` are the two reads and the verdict of a verification.
`Abandon` is a throw or a death anywhere between.

`Routing` keeps the `missions` of the scope with their `authority` and valid
graphs, and one host: the snapshot it has `seen`, the `unit` it was admitted
with, its `ledger`, the `response` of the port and the `answers` so far.

- the host is `Locate`, `Authorize`, `Admit` (the whole preflight), and after an
  answer `Again` or `GiveUp`.
- `executeRoutingWork` is `StopMisbound`, `StopUnknown`, `StopExhausted` or
  `Dispatch`, the port, and `SettleRejected`, `SettleExhausted`, `SettleInvalid`,
  `SettleStopped` or `SettleSucceeded`.
- the ports are `PortDirect` (a chain), `PortDurable` (an advance of the
  coordinator), `PortInjected` (whatever a host brings), and `PortThrows`.
- `OtherStarts`, `OtherMoves`, `Grant`, `WriteGraph` are the other sessions.

`EngramClient` keeps the stage of `spawnEngramClient`, the `child` and whether its
exit was `told`, what is in the pipes (`asked`, `pipe`, `bounced`), and the
client's `healthy`, `pending`, and its callers' `call` and `closing`. A listener,
a timer or a call is an action; the child greets, answers and dies when it likes.

Abstractions. A phase is its number. Blockers are one bit (an unresolved ERROR
or CRITICAL one exists), a proposal is one bit. Timestamps, names, evidence
lists and text are left out. A record expires only when no command under its
key is half done (retention is 24 hours). The scan of the recovery pass is one
step, since it only reads the mission stores. `advance` is given any mission;
which one `/drenyra:continue` would pick, and the check that it belongs to the
bound company and period, are not modelled.

In the pipeline, a scope is a model value with an authority level; a run that
finds several active missions may take any (the code takes the last updated).
What a chain computes is one of `Outputs`, with an evidence wait, an ERROR blocker
or an exception where the chain may answer so. Materiality is the tier it
derives. Stage 1 (a malformed scope) and the scope stage of the gates are left
out: the first touches nothing, and the second compares an authorization with the
very values it was looked up by. No caller sets an authorization's expiry.

In the evidence graph, the two depth-first searches are the least closed sets
they compute, and a record is its id, its kind or endpoints, and one `content`
that stands for payload, relation and instant. No chain names an instant, so the
store stamps each attempt anew: content is chosen when the line is decided on.
Payload tampering, records of another mission, symbolic links and repair by hand
are left out, and so is the evidence chain's own look at its citations before it
appends, which repeats a rule of the store on an older graph. `findCycle` keeps to
edges between nodes of the graph; `EdgesAnchored` is why the model may take all.

In the close, an engine command is one step, and so is a progress update: what
happens inside them is the subject of `MissionCoordinator`. The comparison of the
manifest with the records is one bit. The proposal is never missing when approval
is asked for, since PROPOSE comes first. A chain object used for two missions
could export the first one's receipt; no caller keeps one.

With receipts and keys, a digest is what it is the digest of, an instant a number
on one clock. Paths and symbolic links, unreadable files and the schema of an
entry are left out, and so is a put that throws in the last fsync, after its
rename, which leaves what the model leaves.
Nothing under `src/` calls `put`: the registry is a library operation for
whoever administers the keys. `/drenyra:receipt verify` compares mission, policy
and target of a receipt with the record's own, so those three always agree.

In routing, a request is a record of what each stage looks at; the ledger's own
identity check is left out, as the unit carries the ledger it was made with.
`APPROVAL_REQUIRED` as a stop condition of the unit, and `evidenceBound`, are
never consulted by the executor and so are not in the unit.

With the engram client, the pin is a verdict. The `error` event of a pipe nobody
listens to, which would end the whole process, is left out.

## 3. Runs

| run | instance | question |
|---|---|---|
| `mission_crash` | 1 session, 2 intents (every phase required; three conditional), modes ANALYZE and EXECUTE, 2 faults | all safety properties and the refinement of `EdaMission` |
| `mission_settles` | 1 session, 2 intents, 1 fault | a planned mission ends or comes to a wait |
| `chain_crash` | 1 session, 3 chains, 1 fault, 1 detour, 4 kinds of run | all one-session safety and the refinement of `GovernedMission` |
| `chain_race` | 2 sessions, the evidence chain, scopes of three levels | who may authorize, pass and execute, whoever races |
| `chain_completes` | 1 session, 3 chains, no fault, 2 detours | every mission is completed |
| `chain_approval` | 1 session, 2 faults | an approve step is completed on an approved mission only: violated |
| `evidence_race` | 2 sessions, 3 nodes, 3 edges, 4 batches, 1 fault | what a race can and cannot break, and the two runs of Kahn's algorithm |
| `close` | 2 missions of one period, 4 runs, 2 of which die | what a close leaves behind, whenever its runs die |
| `receipts` | 2 processes, 2 key ids, 5 entries, 5 records, 3 instants | what a write may take back, and how old a verdict may be |
| `routing` | 1 host, 26 requests, 2 missions, 1 step of other sessions, 3 answers | budgets, admission, stops and successes of routed work |
| `engram` | 2 calls, 2 shutdowns | calls and processes whatever the child does |
| `engram_shutdown` | 1 call, 1 shutdown, fair | a shutdown resolves: violated |

Safety properties of `mission_crash`:

- `SnapshotsSound`: every stored and logged snapshot has its phases passed in
  order up to the current step and pending after it, a status that says how far
  that is, only conditional phases skipped, and no proposal past approval
  without approval having been asked for.
- `OneEventPerVersion`, `EqualVersionsAgree`: what recovery silently relies on
  when it compares version numbers.
- `LostEventsBounded`: the log lags the snapshot by at most one event per fault.
- `CompletedKeysLogged`: a replayed success never covers for a lost write. That
  this holds for racing sessions too is a theorem (section 4).
- `WaitsHeld` (action): no command, retry or recovery writes a mission that
  waits for a human, is of unknown outcome or has finished.
- `KeepsPromise` (refinement): seen through its stored snapshot, every mission
  is an `EdaMission`; no crash or retry makes it take a step the abstract
  mission has not.

Safety properties of the chain runs:

- `OneScopePerMission` (race): all authorizations of a mission are bound to the
  scope of the run that started it, although lookup, scope check, conflict check
  and append are four separate awaits.
- `AuthorizedSteps` (race): a phase is completed only under an authorization of
  its family whose level that family requires.
- `CeremonyEarned` (action, crash): a mission turns APPROVED only by a
  run whose approvals satisfy its materiality, and an executing phase completes
  only by one that also brings a trusted receipt.
- `WaitsReleasedOnRequest` (action, crash): a wait ends only by a run that asked
  for its end. With two sessions this fails by design of the stores: nothing
  stops two writers of the same version.
- `SnapshotsSound` (crash): phases in order, status in agreement, ceremony kept,
  a receipt cited exactly by a closed reconciliation.
- `LostReceiptsBounded` (crash): a snapshot cites a receipt the store does not
  have only between the two writes, and once per fault after that.
- `KeepsPromise` (refinement, crash): seen through its snapshot and its
  authorizations, every mission is a `GovernedMission`.

Safety properties of `evidence_race`:

- `EdgesAnchored`, `CitationsGrounded`: the rules an edge was held to on an old
  copy of the graph still hold in the present one, even where two sessions
  recorded one id with two kinds. Appends only add, and a lookup takes the first.
- `QuietGraphsSound`: no cycle and no id twice as long as no append landed on a
  file that had grown since its load. With a race both happen: two sessions each
  append an edge that is acyclic alone, and from then on every lineage throws.
- `DoneRecorded`: what a completed phase reports is in the graph.
- `ProjectionBounded`: a proposal is bound to at least the evidence there was
  at the load and at most what there is when the last lineage is read.
- `EvidenceGrows` (action): the items a terminal is hashed over are never lost
  and never change kind.
- `CyclesFound`, `LineageOrdered`: the counters of `findCycle` leave exactly the
  nodes on or behind a cycle, and `topologicalOrder` lists a lineage completely and
  in order, on every graph of the run, with edges recorded twice among them.

Type invariants are checked where a run lists `TypeOK`; those of `Routing`,
`MonthlyClose`, `TrustedReceipts` and `EngramClient` are proved (section 4).

Properties of `close`:

- `ExportsStand`: an export names a completed close and the very receipt it
  cites, which is stored and no other mission cites.
- `LostClosesBounded`: a close completes without export or receipt only where a
  run died; no order of waits, denials and resumptions loses one.
- `BudgetSuffices`: sixteen advances are enough for every planned close.

Properties of `receipts`:

- `WritesStand` (action): a write takes back only what came after its own read.
  The registry is loaded, merged and written whole, so a concurrent put is lost;
  nothing older is.
- `TrustIsFresh` (action): a receipt is accepted only if at some moment since its
  verification began the registry had its signer current and unrevoked: a
  revocation that landed before is never missed.
- `ReceiptsAgree`: two saves of one hash may race and one replace the other, but
  two accepted records of one hash state the same.

Properties of `routing`:

- `BudgetKept`: a limit is passed by at most the last consumption, over any
  number of executions of a unit, and an open ledger is below all its limits.
- `AdmittedLawfully`: a unit is bound under an authorization for its mission and
  family, at a sufficient mode, below the ceilings of policy and harness.
- `NoDispatchAfterStop` (action): no port is called for a unit that was stopped,
  nor on a mission seen UNKNOWN or not the unit's.
- `SuccessEarned` (action): a success is about the unit's mission, which the step
  did not lose or fail, and names a legal transition.

Properties of `engram`:

- `PendingMatchesCalls`: the requests pending are the calls in flight, and each
  has still something that will settle it, or the child is alive, or its exit is
  yet to be heard.
- `CallsSettle` (liveness): once the child is gone every call is settled, also
  when it died before the client had a listener.
- `NoOrphan` (liveness): a failed handshake and a shutdown end the process.

Bounds of the mission runs. One mission is enough for all of these but recovery's
work list, since missions share no document; sharing shows in the idempotency
directory, where recovery's "some record is EXECUTING" only adds diagnostics. Two
faults allow a fault in the repair of a fault. `MaxLog = 30` exceeds the 15 events
a mission can have with one session, so it cuts nothing. Mode 1 lets the mission
reach INVESTIGATE and then be denied; mode 3 lets it finish.

Bounds of the chain runs. One mission: missions of different ids share no
document but the directory of keys, which are named by mission. Four kinds of
run (nothing brought along, an approver with a receipt, a resumer, everything)
meet every branch that looks at the inputs, and a run under a scope of level ASK
meets stage 2. `MaxFaults = 1` in `chain_crash` because with two faults the
pipeline no longer refines its promise: `chain_approval` is the two-fault
behaviour that breaks it. `chain_race` has no faults and one intent, which two
sessions and three scopes make large enough; sessions are symmetric there
because every property of that run and the specification treat them alike.
`MaxDetours` bounds evidence waits and gate blocks, each of which returns the
mission to where it was.

Bounds of the evidence run. The ids bound the file: without a race an id is
recorded once, with one at most once per session, so there is no bound on its
length. Three nodes and three edges hold a line from a transformation through a
conclusion to an action, an edge back that closes a cycle, and ids used again for
another kind; the third edge is what tells a cycle from a line. `Contents` has one
element: it only matters that two sessions may write identical lines (in the same
millisecond).

Bounds of the other runs. In `close`, four runs of which two die reach every
pair of a crash and what later runs make of it, and two missions the close that
is started after another was completed without export. In `receipts`, the
entries of one key id are the ones that can disagree (an id taken for another
key, revoked at once or later), those of the other expire; three instants put
each before, at and after those dates. In `routing` the 26 requests have each
axis wrong once; one step of another session, anywhere between
the host's, is what makes a reading stale, and three answers let a unit run, run again and be
refused. TLC covers 1.8 million states there, so neither bound is larger. In
`engram`, two calls let one be answered while the other waits, and two shutdowns
let one come late.

Fairness of the coordinator (`FairSpec`). A command once started runs on (weak
fairness of `Step`: Node drains its queue). Somebody keeps asking to continue, with a sufficient
mode, and is not shut out for ever (strong fairness of `Continue`: other commands
of the session may disable it again and again). Records expire (weak fairness).
Nothing obliges anyone to start missions, to run recovery, or to crash.

Fairness of the pipeline. A run once begun goes on (weak, `Step`). A run that
brings everything (`Equipped`) is tried again and again (strong, `Begin`: other
runs of the session may disable it in between). A computation that is repeated
eventually succeeds instead of throwing (strong, `ComputeDone`): without it no
chain could promise anything. Records expire (weak). Runs that lack an approver
or a receipt may come in between at any time.

Fairness of the engram client. The event loop gets round to every event it was
given and every timer that has run out (weak). The child owes nothing, not even
an answer to SIGTERM, and nobody has to call or to shut down.

The other modules claim no liveness: the close may wait for a human, and routed
work may be given up.

Violations are real disagreements between a comment of the repository and its
code; `PROJECT.json` quotes the lines. Two crashes in the approval ceremony, with
a replay after each, complete the approve step of a mission that was never
APPROVED. A shutdown of the engram client whose child was ended by a signal waits
for an exit event that was emitted before, since such a child has no exit code.

Met on the way and kept out of the runs:

- a crash in `start` leaves a DRAFT without a plan that stays the active mission
  of its period;
- two sessions under one key execute twice, which `docs/architecture.md`
  reserves to the production engine;
- a lost event is masked by the next one: recovery compares the last version
  only and calls a mission with a hole in its log consistent
  (`lib/mission-store.ts:639`);
- recovery moves a RUNNING mission to UNKNOWN, for which `derivePreparedStep`
  prepares nothing, so the mission never resumes, while
  `openspec/specs/mission-protocol/spec.md:67` has it resume "via the next legal
  step";
- an approver at a gate block is refused by the run that resolves it (the handler
  sends the mission to RUNNING, where approve is illegal); the next run succeeds;
- `actionGrounded` accepts transformation, conclusion, action without a source;
- `advance` returns the phase it prepared whatever the engine did
  (`lib/mission-commands.ts:429`): under the key of a crashed attempt the mission
  is reflected unchanged, yet :118 says "the phase completed by this advance, or
  null when none advanced";
- a mission a crash left AWAITING_APPROVAL in a chain stays there, since the
  resolution (`lib/chain-pipeline.ts:1119`) asks the mission gate for a transition
  to the status it already has, while :1091 lets "an explicit approver resolve
  the R2 gate from BLOCKED_BY_GATE/AWAITING_APPROVAL";
- the reconcile chain records refutations that cite nothing
  (`chains/reconcile.ts:449`), which `openspec/specs/evidence-graph/spec.md:27`
  rejects, and which makes the graph invalid for verify and the preflight;
- the monthly close's reconcile phase, once it failed between two appends, is
  refused by its own first record (`lib/evidence-graph.ts:266`), as no instant is
  named and each attempt stamps anew;
- the close, after a crash between start and plan, is found by every later run
  and never advances; after a crash between the approve command and the approve
  step every later run throws; after one between CLOSE and ARCHIVE the next run
  ends without export and the one after starts a second close of the period;
- after a restart the close completes RECONCILE without its manifest;
- two concurrent puts of one key id under two public keys both succeed, while
  `lib/trusted-key-registry.ts:255` calls the key of an id immutable; likewise two
  racing saves do not see each other's "differing bytes";
- `/drenyra:status route` asks for a cost limit of 0, which a ledger that counts a
  reached limit as exhausted refuses before any dispatch; a research limit of 1
  always ends exhausted, after the work. `lib/routing/types.ts:287` allows debits
  up to the ceiling;
- a work unit is created at DRAFT whatever its mission is at, so a mission past
  QUEUED that moves is written first and then answered with INVALID_TRANSITION;
  the UNKNOWN edge `lib/routing/executor.ts:23` speaks of is not among a DRAFT's;
- the direct port runs a chain that looks its mission up by its own intent: it
  may write another mission than the unit's, which is then rejected;
- a call to the engram child has no timeout, so a mute child hangs its command; a
  child that dies between its greeting and the client's listener leaves a client
  that calls itself healthy (its calls bounce).

## 4. Proofs

All theorems hold for every value of the constants that satisfies the named
assumptions: `IntentsAssumption`, `ModesAssumption`, `BoundsAssumption` and
`NoMissionAssumption` of the coordinator, `ChainIntentsAssumption`,
`ScopesAssumption`, `RunsAssumption`, `OutputsAssumption` and
`ChainBoundsAssumption` of the pipeline, `BatchesAssumption`,
`TerminalsAssumption` and `FaultsAssumption` of the evidence graph,
`CloseAssumption` of the close, `ReceiptsAssumption` of the receipts,
`RoutingAssumption` and `RequestsAssumption` of the router. They only say of what
kind a constant is. Theorems that need more say so in their statement:
`OneSession` (at most one session works on the store, which is what the
properties in question are true for) and `IsFiniteSet(Sessions)` where sessions
are counted. No theorem bounds the number of detours, and only two bound that of
faults: `SnapshotsStaySound` and `PromiseKept` of the pipeline speak of runs with
no more than one crash or I/O error.

Coordinator:

- `TypeCorrect`: `Spec => []TypeOK`. Inductive invariant `TypeInv`: besides the
  types, a session past `idle` has the mission and phase its program counter
  needs (`Placed`), and recovery's list names stored missions.
- `CompletedKeys`: `Spec => []CompletedKeysLogged`, for any number of sessions.
  `KeysInv` adds that a session about to seal a key has logged the transition,
  and one about to log under a key carries the version after the key's; logs
  only grow, so a fact about a sealed key stays true.
- `Soundness`: with one session, `Spec => []SnapshotsSound`. `SoundInv`
  adds that a session in a command holds exactly what the decision was taken
  on (`Ready`), and that a session about to save carries a sound snapshot
  (`Sure`). The assumption is needed: two sessions may both write version n+1,
  after which a third writer passes a check that compares numbers only.
- `RisingLogs`, `VersionsAgree`, `EventsLostByFaults`, `WaitsAreHeld`: with one
  session, `OneEventPerVersion`, `EqualVersionsAgree`, `LostEventsBounded` and
  `WaitsHeld`. `LogInv` compares each log with its snapshot: versions rise, and an
  event of the snapshot's own version is the snapshot, unless its event is still
  `Due` (`Filed`); what a session is about to save is one version up and
  a legal continuation of what is stored (`Fed`); and the distance between log and
  snapshot is at most the faults so far, plus one while an event is due (`Missed`).
- `PromiseKept`: with one session, `Spec => KeepsPromise`, the refinement of
  `EdaMission`. `Writes` is what a save may make of a stored snapshot; one lemma per
  writer shows that what it saves is that, and `Writes` implies a step of the
  abstract mission.

Pipeline:

- `ChainTypeCorrect`: `Spec => []TypeOK` of the pipeline. Its `TypeInv` adds what
  each program counter presupposes (`Placed`): a stored mission, a run, a phase,
  an operation of the right kind.
- `OneScope`: `Spec => []OneScopePerMission`, for any number of sessions. The
  code looks an authorization up, asks whether the scope is bound, looks for a
  conflict and appends in four awaits, and the conflict check compares mission and
  action family only, so nothing in the last step itself keeps a second scope out.
  `ScopeInv` says what does: a mission has at most one owner, the run that started
  it (`Lone`), as ids are never reused (`Unstarted`); while the owner works, only
  its own scope is granted (`Owned`); and every other run that reaches the append
  has seen an authorization of its own scope, which cannot have gone away since
  (`Granting`).
- `NoUnauthorizedStep`: `Spec => []AuthorizedSteps`, for any number of sessions. A
  run passes the gates on one snapshot and an engine command completes the next
  step of the one it loads, so racing runs do complete steps they never asked
  leave for. `AuthInv` shows why an authorization exists all the same: every
  stored snapshot is `Good` (each completed step is `Covered` by a record, and the
  plan is gone through in order), and every snapshot a session holds is backed by
  the records of its mission (`Backed`); such a step is INTAKE or BIND_SCOPE, of the
  family whoever got past INTAKE was granted, or ARCHIVE, which shares CLOSE's.
- `ReceiptsLostByFaults`: `IsFiniteSet(Sessions)` implies `Spec =>
  []LostReceiptsBounded`. Nothing in the stores marks a lost receipt, so `LossInv`
  names a set of missions of at most `faults` elements outside of which the
  receipt of every snapshot, stored or about to be, is stored or `InHand`.
- `EffectsAreEarned`, `WaitsAreReleased`: with one session, `Spec =>
  CeremonyEarned` and `Spec => WaitsReleasedOnRequest`, for any number of faults.
  `SoloInv` says that while nobody else writes, what a run decides on is what is
  stored until it saves, and what it saved until it is done (`InStep`); what it
  `Found` to be done there is what it does; and what leave it was given at the
  gates it still has (`Ceremony`). `RecordsBehind` keeps a replay from bringing
  back an older snapshot: a sealed key is of an earlier version than the mission.
  `Effect` then reads off what a save can change.
- `SnapshotsStaySound`: with one session, `Spec => [](faults <= 1 =>
  SnapshotsSound)`. The bound is sharp: with two faults TLC finds a
  snapshot that is not sound, in the way `chain_approval` reports. An approval is two
  commands; each dies between its key and its save, and the next run finds both keys
  EXECUTING, takes the mission as it stands for their outcome and completes the
  step. `KeptInv` therefore counts: of all keys under
  execution no more than one has no session that will settle it, and none before the
  first fault (`OneOrphan`); no key is ahead of its mission (`RecordsUpTo`), a saved
  command is ahead of all keys of its mission (`Latest`), and so the approval of a run
  never meets a key under execution (`Unanswered`). With `Aimed` and `Licensed`, what
  a session is about to do and with whose leave, each save is one of the moves of
  `Writes`, and those keep a snapshot `Whole`.
- `PromiseKept`: with one session, `Spec /\ [](faults <= 1) => KeepsPromise`, the
  refinement of `GovernedMission`. The promise speaks of the next phase the plan
  leaves open; `ReadyNext`, `PassNext`, `WaitNext`, `ReleaseNext` and `PlanNext` say
  that this is what the moves of `Writes` are about, and one lemma per move
  (`PromisePasses`, `PromiseWaits`, `PromiseReleases`) that it is a step of the
  promise. A granted authorization is one too, and needs `ScopeInv`.

Evidence graph:

- `EvidenceTypeCorrect`: `Spec => []TypeOK` of the evidence graph, which is
  inductive as it stands: it includes what each program counter presupposes
  (`Placed`).
- `EvidenceGrowth`: `Spec => EvidenceGrows`. A lookup takes the first record of an
  id, so it is stable under appends; that there is a first one (`Indexed`) is kept
  as an invariant, since induction over data is out of reach. `StepShape` reduces
  the next-state relation to what matters for the file: it rests, or one session
  that has decided writes its record.
- `Anchoring`, `Grounding`: `Spec => []EdgesAnchored` and `Spec =>
  []CitationsGrounded`. What an edge is held to (`Cited`) is monotone in nodes and
  edges; `CitedInv` adds that an edge decided on but not yet written satisfies it in
  the graph it would give, and keeps doing so while others append.
- `QuietGraphs`: `Spec => []QuietGraphsSound`. In `QuietInv` a session about to write
  has seen no more than there is, and if it has seen exactly that, its id is free
  and its edge closes no cycle. `NoCycle` is the graph-theoretic step: if every node
  of a set had a predecessor in it, either the part of the set that the edge's
  end does not reach or the whole set would have been a cycle before.
- `PhasesRecorded`: `Spec => []DoneRecorded`. `DoneInv` says what a session has
  `Behind` it of its batch, that this is in the graph (`Progress`), and that a
  malformed file stays malformed.
- `Projections`: `Spec => []ProjectionBounded`. `ProjectInv` says what has been
  `Traced` so far, against the prefix of the log that was loaded.

Close, receipts, routing, engram client:

- `CloseTypeCorrect`, `ExportsHold`, `ClosesLostByDeath`, `BudgetIsEnough`: `Spec =>
  []TypeOK`, `Spec => []ExportsStand`, `Spec => []LostClosesBounded`, `Spec =>
  []BudgetSuffices`. `CloseInv`
  joins `StoresInv` (every snapshot has one of the shapes the chain gives it; a
  receipt is cited once), `RunInv` (what each program counter knows of the snapshot
  under way, and that no more advances are used up than phases are behind it),
  `LossInv` (sealed closes that are not exported, but for the one the run still
  carries, are at most as many as the deaths) and `BudgetSuffices` itself.
- `ReceiptsTypeCorrect`, `OneMeaning`, `FreshTrust`: `Spec => []TypeOK`, `Spec =>
  []ReceiptsAgree`, `Spec => TrustIsFresh`. `VerifyInv` says that a record about to be
  judged was checked against its digest (`Checked`), that what a verification
  read of its signer is among what the registry has had since it began
  (`Standing`), and that an accepted record is what its digest says (`Meant`).
- `WritesHold`: `Spec => WritesStand`, from the types alone.
- `RoutingTypeCorrect`, `BudgetIsKept`, `WorkIsLawful`: `Spec => []TypeOK`, `Spec =>
  []BudgetKept`, `Spec => []AdmittedLawfully`. `RoutingInv` joins the three with
  `Open` (a ledger under which a port is at work is open and below every limit,
  since the dispatch was decided on it) and `Backed` (the authorization a host has
  been told of is one the store has: other sessions grant, nobody withdraws).
  `AllPass` turns a preflight that names no stop into nine stages that passed.
- `StopsAreFinal`, `SuccessIsEarned`: `Spec => NoDispatchAfterStop`, `Spec =>
  SuccessEarned`. `Stopping` says that every stop but that of a unit presented with
  another mission has closed the ledger, which is all that keeps the next dispatch
  away; `Seeing`, that a mission that did not move is neither terminal nor UNKNOWN.
- `ClientTypeCorrect`, `PendingRequests`: `Spec => []TypeOK` and `Spec =>
  []PendingMatchesCalls`. `ClientInv` adds `Staged`: no child before the spawn, an
  exit is told of a child that is gone, only a client that finished its
  handshake is healthy; without these a call could enter the map after the
  last event that would settle it.

Only model-checked: `CyclesFound` and `LineageOrdered` (the recursion of
`EvidenceOrder` is out of the prover's reach), and liveness (fairness and ENABLED
are too). TLC also checked the inductive invariants before they were proved.

## 5. Not modelled, and the plan

Left out for good: text output, prompts and skills, JSON schema validation,
canonical string hashing, parsing of accounting records, runtime pin and
installer, build and release scripts. They have no state whose interleavings
could matter, or their correctness is that of a string.

The configurator (`lib/configurator.ts`) is a sequence of file writes around an
external program, run by one process at a time. A crash between its manifest and
its marker, and a second bootstrap after that, is the case a model of it should
be about; the parts several processes share came first. Of the extensions, the
handlers that only pass their arguments on, the fiscal guard (patterns over text)
and the panels are left out.

What would come next:

1. `Configurator`: the managed transition with rollback and crash.
2. Composition of `EvidenceGraph` with the pipeline and with `MonthlyClose`:
   evidence appended between proposal and close.
