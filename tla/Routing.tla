------------------------------- MODULE Routing -------------------------------
(***************************************************************************)
(* Routed work: a host looks up the active mission of its scope, passes    *)
(* the preflight, and executes the admitted work unit through one of three *)
(* ports, under a budget ledger the unit owns.                             *)
(*                                                                         *)
(* The mission is read once, before the preflight; the work unit, the      *)
(* ledger and the port all act on that reading, while other sessions go on *)
(* moving missions, granting authority and writing the evidence graph.     *)
(* One host is modelled: to it, every other one is an environment step.    *)
(***************************************************************************)
EXTENDS RoutingPreflight, FiniteSets

CONSTANTS
  Requests,      \* the requests a host may make
  Intents,       \* the intents of missions other sessions start
  Chains,        \* the intents of the chains a direct port may be bound to
  Level,         \* the authority level of the bound scope
  Consumptions,  \* what a port may report it consumed
  MaxMissions,   \* bound: missions of the scope
  MaxStirs,      \* bound: steps of other sessions in one behaviour
  MaxAnswers,    \* bound: different answers a host takes before it gives up
  NoUnit         \* the unit of a host that has none

Dimensions == {"time", "tokens", "cost", "research", "correction"}
Amounts    == [Dimensions -> Nat]
Families   == {r.family : r \in Requests}

Unit == [ mission : Nat, family : ACTION_FAMILY, stage : Status,
          route   : {"direct", "delegated", "durable"},
          limits  : [Dimensions -> Int], policy : [{"time", "tokens", "cost"} -> Int] ]

ASSUME RoutingAssumption ==
  /\ Intents \subseteq EdaIntent /\ Chains \subseteq EdaIntent
  /\ Level \in AuthorityMode /\ Consumptions \subseteq Amounts
  /\ MaxMissions \in Nat /\ MaxStirs \in Nat /\ MaxAnswers \in Nat
  /\ NoUnit \notin Unit

ASSUME RequestsAssumption ==
  \A r \in Requests :
    /\ r.family \in ACTION_FAMILY
    /\ r.requested \in [Dimensions -> Int]
    /\ r.policyMax \in [{"time", "tokens", "cost"} -> Int]

VARIABLES
  missions,    \* .local/missions: the missions of the scope, as they started
  authority,   \* .local/authority: mission -> families granted to the scope
  graphValid,  \* .local/evidence: the missions whose graph validates
  stirs,       \* steps of other sessions so far
  pc,          \* where the host is
  seen,        \* the mission snapshot it read
  asked,       \* the family it asks for, and whether it is granted
  unit,        \* the work unit it was admitted with
  ledger,      \* what the unit has consumed, and whether it is closed
  last,        \* what the last port call consumed
  response,    \* what the port answered
  answers      \* the answers the host got for this unit

stores == <<missions, authority, graphValid, stirs>>
work   == <<unit, ledger, last>>
vars   == <<stores, pc, seen, asked, work, response, answers>>

Zero     == [d \in Dimensions |-> 0]
Plus(a, b) == [d \in Dimensions |-> a[d] + b[d]]

NoAnswer == [ok |-> FALSE, reason |-> "none", fields |-> "none",
             from |-> "none", to |-> "none"]

Fresh == [used |-> Zero, closed |-> FALSE]

NoAsk   == [family |-> "none", granted |-> FALSE]
NotSeen == [id |-> 0, intent |-> "none", status |-> "none"]

(* The other sessions have been at work before the host starts.            *)
Init ==
  /\ \/ missions = <<>> /\ authority = <<>> /\ graphValid = {}
     \/ /\ \E i \in Intents, s \in Status : missions = <<[intent |-> i, status |-> s]>>
        /\ \E fs \in SUBSET Families : authority = <<fs>>
        /\ graphValid \in SUBSET {1}
  /\ stirs = 0
  /\ pc = "idle"
  /\ seen = NotSeen
  /\ asked = NoAsk
  /\ unit = NoUnit /\ ledger = Fresh /\ last = Zero
  /\ response = "none" /\ answers = {}

(***************************************************************************)
(* The other sessions.                                                     *)
(***************************************************************************)
TERMINAL_STATUSES == {"COMPLETED", "FAILED", "REJECTED"}

Stir == stirs < MaxStirs /\ stirs' = stirs + 1

Begun(intent, status) ==
  /\ missions' = Append(missions, [intent |-> intent, status |-> status])
  /\ authority' = Append(authority, {})

OtherStarts(intent) ==
  /\ Stir
  /\ Len(missions) < MaxMissions
  /\ Begun(intent, "DRAFT")
  /\ UNCHANGED <<graphValid, pc, seen, asked, work, response, answers>>

OtherMoves(m, status) ==
  /\ Stir
  /\ status \in VALID_TRANSITIONS[missions[m].status]
  /\ missions' = [missions EXCEPT ![m].status = status]
  /\ UNCHANGED <<authority, graphValid, pc, seen, asked, work,
                 response, answers>>

Grant(m, family) ==
  /\ Stir
  /\ family \notin authority[m]
  /\ authority' = [authority EXCEPT ![m] = @ \cup {family}]
  /\ UNCHANGED <<missions, graphValid, pc, seen, asked, work,
                 response, answers>>

(* A graph is absent or torn, then saved whole, then perhaps torn again.   *)
WriteGraph(m) ==
  /\ Stir
  /\ graphValid' = IF m \in graphValid THEN graphValid \ {m} ELSE graphValid \cup {m}
  /\ UNCHANGED <<missions, authority, pc, seen, asked, work,
                 response, answers>>

(***************************************************************************)
(* Looking up the mission, the authorization, and the preflight.           *)
(***************************************************************************)
Active == {m \in DOMAIN missions : missions[m].status \notin TERMINAL_STATUSES}

(* The most recently updated mission of the scope, whatever its intent.    *)
findActiveEdaMission(m) ==
  /\ m \in Active
  /\ seen' = [id |-> m, intent |-> missions[m].intent, status |-> missions[m].status]

Locate(m) ==
  /\ pc = "idle"
  /\ findActiveEdaMission(m)
  /\ pc' = "located"
  /\ UNCHANGED <<stores, asked, work, response, answers>>

Authorize(family) ==
  /\ pc = "located"
  /\ asked' = [family |-> family, granted |-> family \in authority[seen.id]]
  /\ pc' = "authorized"
  /\ UNCHANGED <<stores, seen, work, response, answers>>

Answer(a) ==
  /\ answers' = answers \cup {a}
  /\ pc' = "answered"
  /\ response' = "none"

Refused(reason, fields) ==
  [NoAnswer EXCEPT !.reason = reason, !.fields = fields]

Preflight(r) == runRoutingPreflight(r, seen.intent, asked.granted, Level,
                                    seen.id \in graphValid)

(* createWorkUnit starts every unit at DRAFT, whatever the mission is at.  *)
Admit(r) ==
  /\ pc = "authorized" /\ r.family = asked.family
  /\ \/ /\ Preflight(r) # "none"
        /\ Answer(Refused(Preflight(r), "preflight"))
        /\ UNCHANGED work
     \/ /\ Preflight(r) = "none"
        /\ unit' = [ mission |-> seen.id, family |-> r.family,
                     stage   |-> "DRAFT", route  |-> route(r),
                     limits  |-> normalizeBudgets(r),
                     policy  |-> r.policyMax ]
        /\ ledger' = Fresh /\ last' = Zero
        /\ pc' = "bound"
        /\ UNCHANGED <<response, answers>>
  /\ UNCHANGED <<stores, seen, asked>>

(***************************************************************************)
(* The ledger.  A ceiling that is reached is as exhausted as one exceeded. *)
(***************************************************************************)
Order == <<"time", "tokens", "cost", "research", "correction">>

Within(used, limits) == \A d \in Dimensions : used[d] < limits[d]

(* Variant: only an exceeded ceiling is exhausted. *)
Exceeded(l, limits) ==
  IF l.closed THEN "time"
  ELSE LET over == {i \in DOMAIN Order : l.used[Order[i]] > limits[Order[i]]}
       IN  IF over = {} THEN "none" ELSE Order[CHOOSE i \in over : \A j \in over : i <= j]

Exhausted(l, limits) ==
  IF l.closed THEN "time"
  ELSE LET over == {i \in DOMAIN Order : l.used[Order[i]] >= limits[Order[i]]}
       IN  IF over = {} THEN "none" ELSE Order[CHOOSE i \in over : \A j \in over : i <= j]

close == ledger' = [ledger EXCEPT !.closed = TRUE]

(***************************************************************************)
(* Execution up to the port.                                               *)
(***************************************************************************)
canonicalEntryStage == [s \in Status |-> IF s = "DRAFT" THEN {"QUEUED"} ELSE {}]

Stopped(reason, fields, targets) ==
  [ ok |-> FALSE, reason |-> reason, fields |-> fields,
    from |-> IF targets = {} THEN "none" ELSE unit.stage,
    to |-> IF targets = {} THEN "none" ELSE CHOOSE t \in targets : TRUE ]

(* The one stop that does not close the ledger: the unit is presented with *)
(* a mission that is not its own.                                          *)
Misbound == Stopped("AMBIGUOUS_INPUT", "workUnit.missionId", {})

StopMisbound ==
  /\ pc = "bound" /\ unit.mission # seen.id
  /\ Answer(Misbound)
  /\ UNCHANGED <<stores, seen, asked, work>>

Bound == pc = "bound" /\ unit.mission = seen.id

StopUnknown ==
  /\ Bound /\ seen.status = "UNKNOWN"
  /\ close
  /\ Answer(Stopped("AMBIGUOUS_INPUT", "mission.status", {}))
  /\ UNCHANGED <<stores, seen, asked, unit, last>>

StopExhausted ==
  /\ Bound /\ seen.status # "UNKNOWN"
  /\ Exhausted(ledger, unit.limits) # "none"
  /\ close
  /\ Answer(Stopped("BUDGET_EXHAUSTED", Exhausted(ledger, unit.limits),
                    canonicalEntryStage[unit.stage]))
  /\ UNCHANGED <<stores, seen, asked, unit, last>>

Dispatch ==
  /\ Bound /\ seen.status # "UNKNOWN"
  /\ Exhausted(ledger, unit.limits) = "none"
  /\ pc' = "dispatched"
  /\ UNCHANGED <<stores, seen, asked, work, response, answers>>

(***************************************************************************)
(* The ports.  A response tells the mission it is about, the status before *)
(* (as the caller read it) and after, the stop if any, the status Core     *)
(* proposes next, the consumption, and its form: "unverified" responses    *)
(* break their own evidence, tools or numbers, "unbuildable" ones have     *)
(* candidates whose provenance is lost.                                    *)
(***************************************************************************)
Responds(mission, after, stop, proposed, consumption, form) ==
  /\ response' = [ mission |-> mission, before |-> seen.status, after |-> after,
                   stop |-> stop, proposed |-> proposed,
                   consumption |-> consumption, form |-> form ]
  /\ pc' = "responded"
  /\ UNCHANGED <<seen, asked, work, answers>>

OneAttempt == [Zero EXCEPT !["research"] = 1]

(* The statuses one run of a chain may leave a mission in.                 *)
ChainStatus == {"DRAFT", "QUEUED", "RUNNING", "WAITING_FOR_EVIDENCE",
                "AWAITING_APPROVAL", "BLOCKED_BY_GATE", "APPROVED", "COMPLETED"}

ChainSteps(s) ==
  LET once == VALID_TRANSITIONS[s] \cap ChainStatus
  IN  {s} \cup once \cup ((UNION {VALID_TRANSITIONS[t] : t \in once}) \cap ChainStatus)

(* The kind of wait a status stands for; with evidence hashes the stop is  *)
(* MISSING_EVIDENCE, without them AMBIGUOUS_INPUT.                         *)
waitStopFor(status, hashes) ==
  CASE status = "WAITING_FOR_EVIDENCE" /\ hashes -> "MISSING_EVIDENCE"
    [] status = "RETRYING" -> "EXTERNAL_SYSTEM_UNAVAILABLE"
    [] status \in {"AWAITING_APPROVAL", "BLOCKED_BY_GATE", "BLOCKED"} -> "APPROVAL_REQUIRED"
    [] OTHER -> "AMBIGUOUS_INPUT"

ChainStop(after, blocked, hashes) ==
  CASE blocked -> "AMBIGUOUS_INPUT"
    [] ~blocked /\ after \in Waiting -> waitStopFor(after, hashes)
    [] OTHER -> "none"

(* The chain finds the active mission of its own intent, or starts one: it *)
(* is not told which mission the work unit is bound to.                    *)
PortDirect(chain) ==
  /\ pc = "dispatched" /\ unit.route = "direct"
  /\ \/ Responds(seen.id, seen.status, "AMBIGUOUS_INPUT", "none", OneAttempt, "well")
           /\ UNCHANGED stores
     \/ \E m \in Active : missions[m].intent = chain
          /\ \E after \in ChainSteps(missions[m].status), blocked, hashes \in BOOLEAN :
               /\ missions' = [missions EXCEPT ![m].status = after]
               /\ Responds(m, after, ChainStop(after, blocked, hashes), "none",
                           OneAttempt, "well")
          /\ UNCHANGED <<authority, graphValid, stirs>>
     \/ /\ \A m \in Active : missions[m].intent # chain
        /\ Len(missions) < MaxMissions
        /\ Begun(chain, "QUEUED")
        /\ Responds(Len(missions) + 1, "QUEUED", "none", "none", OneAttempt, "well")
        /\ UNCHANGED <<graphValid, stirs>>

(* The status the next phase of a mission leads to, if it leads to one.    *)
lifecycleStatusForPhase ==
  [s \in Status |-> CASE s = "DRAFT" -> {"QUEUED"} [] s = "QUEUED" -> {"RUNNING"}
                      [] s = "RUNNING" -> {"none", "WAITING_FOR_EVIDENCE",
                                           "AWAITING_APPROVAL", "COMPLETED"}
                      [] s = "APPROVED" -> {"none", "COMPLETED"}
                      [] OTHER -> {"none"}]

(* One advance of the coordinator, by the mission's id.                    *)
DurableSteps(s) == {s} \cup (lifecycleStatusForPhase[s] \cap VALID_TRANSITIONS[s])

PortDurable ==
  /\ pc = "dispatched" /\ unit.route = "durable"
  /\ LET s == missions[seen.id].status
     IN  \/ Responds(seen.id, s, "POLICY_BLOCKED", "none", OneAttempt, "well")
              /\ UNCHANGED stores
         \/ \E after \in DurableSteps(s), hashes \in BOOLEAN :
              /\ missions' = [missions EXCEPT ![seen.id].status = after]
              /\ UNCHANGED <<authority, graphValid, stirs>>
              /\ IF after \in Waiting
                 THEN Responds(seen.id, after, waitStopFor(after, hashes), "none",
                               OneAttempt, "well")
                 ELSE \E target \in lifecycleStatusForPhase[after] :
                        Responds(seen.id, after, "none", target, OneAttempt, "well")

(* A port the host injects (no implementation is shipped for delegated     *)
(* work): the executor has to check whatever it answers.                   *)
PortInjected(m, after, consumption, form) ==
  /\ pc = "dispatched" /\ unit.route = "delegated"
  /\ after \in {missions[m].status} \cup VALID_TRANSITIONS[missions[m].status]
  /\ missions' = [missions EXCEPT ![m].status = after]
  /\ UNCHANGED <<authority, graphValid, stirs>>
  /\ \E target \in {"none", after} :
       Responds(m, after, "none", target, consumption, form)

(* A port that throws may have moved the mission before.                   *)
PortThrows(m, after) ==
  /\ pc = "dispatched"
  /\ after \in {missions[m].status} \cup VALID_TRANSITIONS[missions[m].status]
  /\ missions' = [missions EXCEPT ![m].status = after]
  /\ close
  /\ Answer(Stopped("AMBIGUOUS_INPUT", "ports", {}))
  /\ UNCHANGED <<authority, graphValid, stirs, seen, asked, unit, last>>

(***************************************************************************)
(* The executor's settlement of a response: verified, accounted, observed, *)
(* and turned into a structured result.                                    *)
(***************************************************************************)
(* Variant: the mission a response is about is not compared. *)
verifyForm == response.form # "unverified"

verifyResponse ==
  response.mission = unit.mission /\ response.form # "unverified"

Debited == [ledger EXCEPT !.used = Plus(@, response.consumption)]

(* The mission moved into a status the unit follows it into.               *)
Moved   == response.after # response.before
Follows == Moved /\ response.after \notin TERMINAL_STATUSES \cup {"UNKNOWN"}

advanceWorkUnit == IF Follows THEN [unit EXCEPT !.stage = response.after] ELSE unit

resolveNextTarget(stage, proposed) ==
  LET observed == IF Moved THEN {response.after} ELSE {}
      legal(ts) == ts \cap VALID_TRANSITIONS[stage]
  IN  IF legal({proposed}) # {} THEN {proposed} ELSE legal(observed)

Outcome ==
  CASE Moved /\ response.after \in {"UNKNOWN", "FAILED", "REJECTED"} -> "AMBIGUOUS_INPUT"
    [] Moved /\ response.after = "COMPLETED" -> "none"
    [] OTHER -> response.stop

SettleRejected ==
  /\ pc = "responded" /\ ~verifyResponse
  /\ close
  /\ Answer(Stopped("AMBIGUOUS_INPUT", "response", {}))
  /\ UNCHANGED <<stores, seen, asked, unit, last>>

Accounted == last' = response.consumption

SettleExhausted ==
  /\ pc = "responded" /\ verifyResponse
  /\ Exhausted(Debited, unit.limits) # "none"
  /\ ledger' = [Debited EXCEPT !.closed = TRUE] /\ Accounted
  /\ LET targets == IF response.form = "unbuildable" THEN {}
                    ELSE resolveNextTarget(unit.stage, "none")
     IN  Answer(Stopped("BUDGET_EXHAUSTED", Exhausted(Debited, unit.limits), targets))
  /\ UNCHANGED <<stores, seen, asked, unit>>

InBudget ==
  /\ pc = "responded" /\ verifyResponse
  /\ Exhausted(Debited, unit.limits) = "none"
  /\ Accounted

NextTargets ==
  LET stage    == advanceWorkUnit.stage
      resolved == resolveNextTarget(stage, response.proposed)
  IN  IF resolved # {} THEN resolved ELSE canonicalEntryStage[stage]

Derailed == Follows /\ response.after \notin VALID_TRANSITIONS[unit.stage]

(* Variant: a transition the unit cannot follow leaves its ledger open. *)
SettleOpen ==
  /\ InBudget /\ (Derailed \/ NextTargets = {})
  /\ ledger' = Debited
  /\ Answer(Stopped("INVALID_TRANSITION", response.after, {}))
  /\ UNCHANGED <<stores, seen, asked, unit>>

SettleInvalid ==
  /\ InBudget /\ (Derailed \/ NextTargets = {})
  /\ ledger' = [Debited EXCEPT !.closed = TRUE]
  /\ Answer(Stopped("INVALID_TRANSITION", response.after, {}))
  /\ UNCHANGED <<stores, seen, asked, unit>>

Settled == InBudget /\ ~Derailed /\ NextTargets # {}

SettleStopped ==
  /\ Settled /\ (response.form = "unbuildable" \/ Outcome # "none")
  /\ ledger' = [Debited EXCEPT !.closed = TRUE]
  /\ LET a == IF response.form = "unbuildable"
              THEN Stopped("AMBIGUOUS_INPUT", "candidates", {})
              ELSE Stopped(Outcome, "outcome", NextTargets)
     IN  Answer([a EXCEPT !.from = IF a.from = "none" THEN "none"
                                   ELSE advanceWorkUnit.stage])
  /\ UNCHANGED <<stores, seen, asked, unit>>

SettleSucceeded ==
  /\ Settled /\ response.form # "unbuildable" /\ Outcome = "none"
  /\ ledger' = Debited
  /\ unit' = advanceWorkUnit
  /\ \E t \in NextTargets :
       Answer([ ok |-> TRUE, reason |-> "none", fields |-> "none",
                from |-> advanceWorkUnit.stage, to |-> t ])
  /\ UNCHANGED <<stores, seen, asked>>

(***************************************************************************)
(* A host may execute its unit again, on a fresh reading of the active     *)
(* mission, or give it up.                                                 *)
(***************************************************************************)
Again(m) ==
  /\ pc = "answered" /\ unit # NoUnit /\ Cardinality(answers) < MaxAnswers
  /\ findActiveEdaMission(m)
  /\ pc' = "bound"
  /\ UNCHANGED <<stores, asked, work, response, answers>>

GiveUp ==
  /\ pc = "answered"
  /\ pc' = "idle" /\ seen' = NotSeen /\ asked' = NoAsk
  /\ unit' = NoUnit /\ ledger' = Fresh /\ last' = Zero
  /\ answers' = {}
  /\ UNCHANGED <<stores, response>>

Others ==
  \/ \E i \in Intents : OtherStarts(i)
  \/ \E m \in DOMAIN missions :
       \/ \E s \in Status : OtherMoves(m, s)
       \/ \E f \in Families : Grant(m, f)
       \/ WriteGraph(m)

Ports ==
  \/ \E c \in Chains : PortDirect(c)
  \/ PortDurable
  \/ \E m \in DOMAIN missions, s \in Status :
       \/ PortThrows(m, s)
       \/ \E c \in Consumptions, form \in {"well", "unverified", "unbuildable"} :
            PortInjected(m, s, c, form)

Executor ==
  \/ StopMisbound \/ StopUnknown \/ StopExhausted \/ Dispatch
  \/ SettleRejected \/ SettleExhausted \/ SettleInvalid
  \/ SettleStopped \/ SettleSucceeded

Host ==
  \/ \E m \in Active : Locate(m) \/ Again(m)
  \/ \E f \in Families : Authorize(f)
  \/ \E r \in Requests : Admit(r)
  \/ GiveUp

Next == Others \/ Ports \/ Executor \/ Host

Spec == Init /\ [][Next]_vars

(***************************************************************************)
(* Properties.                                                             *)
(***************************************************************************)
Response == [ mission : Nat, before : Status, after : Status,
              stop : Stop \cup {"none"}, proposed : Status \cup {"none"},
              consumption : Amounts, form : {"well", "unverified", "unbuildable"} ]

StoresOK ==
  /\ missions \in Seq([intent : EdaIntent, status : Status])
  /\ authority \in Seq(SUBSET ACTION_FAMILY) /\ Len(authority) = Len(missions)
  /\ graphValid \subseteq DOMAIN missions /\ stirs \in Nat

HostOK ==
  /\ pc \in {"idle", "located", "authorized", "bound", "dispatched", "responded",
              "answered"}
  /\ pc # "idle" => seen.id \in DOMAIN missions /\ seen.status \in Status
  /\ pc = "authorized" => asked.family \in ACTION_FAMILY /\ asked.granted \in BOOLEAN
  /\ pc \in {"bound", "dispatched", "responded"} => unit # NoUnit
  /\ pc = "responded" => response \in Response

WorkOK ==
  /\ unit # NoUnit => unit \in Unit /\ unit.mission \in DOMAIN missions
  /\ ledger \in [used : Amounts, closed : BOOLEAN] /\ last \in Amounts

(* Every variable has the shape its operations expect, and a host that has *)
(* read a mission or holds a unit refers to a mission of the scope.        *)
TypeOK == StoresOK /\ HostOK /\ WorkOK

(* Whatever the ports report, a unit overruns a ceiling by no more than    *)
(* what its last response consumed, and while its ledger is open it has    *)
(* not even reached one: the accounts are kept across executions.          *)
BudgetKept ==
  unit # NoUnit /\ ledger.used # Zero =>
    /\ \A d \in Dimensions : ledger.used[d] - last[d] < unit.limits[d]
    /\ ~ledger.closed => Within(ledger.used, unit.limits)

(* A port is only called for a unit whose executions so far succeeded (or  *)
(* were turned away for another mission's snapshot), and never on a        *)
(* snapshot that is UNKNOWN: a stop is not retried.                        *)
NoDispatchAfterStop ==
  [][pc' = "dispatched" /\ pc # "dispatched" =>
       /\ \A a \in answers : a.ok \/ a = Misbound
       /\ seen.status # "UNKNOWN" /\ seen.id = unit.mission]_vars

(* A success is about the unit's own mission, which is neither lost nor    *)
(* failed by the step, and names a transition that is legal from the       *)
(* stage the unit is now at.                                               *)
SuccessEarned ==
  [][\A a \in answers' \ answers : a.ok =>
       /\ response.mission = unit.mission
       /\ response.after \notin {"UNKNOWN", "FAILED", "REJECTED"}
       /\ a.from = unit'.stage /\ a.to \in VALID_TRANSITIONS[a.from]
       /\ unit'.stage \in {unit.stage} \cup VALID_TRANSITIONS[unit.stage]
       /\ Within(ledger'.used, unit.limits)]_vars

(* A unit is only bound under an authorization the scope was granted for   *)
(* its mission and family, at a sufficient mode, and never with ceilings   *)
(* above the policy's or the harness's own.                                *)
AdmittedLawfully ==
  unit # NoUnit =>
    /\ unit.family \in authority[unit.mission]
    /\ ACTION_REQUIRED_MODE[unit.family] <= Level
    /\ \A d \in DOMAIN unit.policy : unit.limits[d] <= unit.policy[d]
    /\ unit.limits.research \in 1 .. 3 /\ unit.limits.correction = 1
=============================================================================
