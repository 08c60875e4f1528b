-------------------------- MODULE RoutingPreflight --------------------------
(***************************************************************************)
(* The preflight of routed work: the fixed stages a request passes before  *)
(* a bounded work unit is made of it, and the route the engine picks for   *)
(* it.  The first stage that stops the request names the stop; nothing is  *)
(* written.  No state lives here: what a stage reads from a store is an    *)
(* argument of its operator.                                               *)
(***************************************************************************)
EXTENDS AuthorityGates, Sequences

(***************************************************************************)
(* A request, by what the stages tell apart.  "scope" says what is wrong   *)
(* with the bound scope, "forgery" with its canonical bytes, "foreign"     *)
(* that its identities differ from the mission's or the work unit's; the   *)
(* axes say what the work does: an axis outside its closed union is        *)
(* "rogue".                                                                *)
(***************************************************************************)
Reversibility == {"reversible", "partially-reversible", "irreversible"}

Stop == {"SCOPE_MISMATCH", "AMBIGUOUS_INPUT", "POLICY_BLOCKED",
         "MISSING_EVIDENCE", "UNSUPPORTED_WORK", "EXTERNAL_SYSTEM_UNAVAILABLE",
         "APPROVAL_REQUIRED", "BUDGET_EXHAUSTED", "INVALID_TRANSITION"}

(* The first of a sequence of stops that is one, "none" if they all pass.  *)
FirstStop(stops) ==
  LET hits == {i \in DOMAIN stops : stops[i] # "none"}
  IN  IF hits = {} THEN "none"
                   ELSE stops[CHOOSE i \in hits : \A j \in hits : i <= j]

When(fault, stop) == IF fault THEN stop ELSE "none"

(* A scope that cannot be expressed in work-scope keys is ambiguous.       *)
ScopeStop(fault) ==
  CASE fault = "none" -> "none"
    [] fault = "mappable" -> "SCOPE_MISMATCH"
    [] OTHER -> "AMBIGUOUS_INPUT"

stageScope(r) ==
  FirstStop(<< ScopeStop(r.scope),
               ScopeStop(r.forgery),
               When(r.foreign, "SCOPE_MISMATCH") >>)

(* Variant: a granted record is enough, whatever its mode. *)
GrantedPermissions(r, granted, level) ==
  FirstStop(<< When(~r.pinned, "AMBIGUOUS_INPUT"),
               When(~granted, "POLICY_BLOCKED") >>)

(* The authorization is looked up under the mission, the scope, the actor  *)
(* and the family of the request, so those comparisons hold; its mode is   *)
(* the authority level its scope binds, and nothing writes an expiry.      *)
stagePermissions(r, granted, level) ==
  FirstStop(<< When(~r.pinned, "AMBIGUOUS_INPUT"),
               When(~granted, "POLICY_BLOCKED"),
               When(level < ACTION_REQUIRED_MODE[r.family], "POLICY_BLOCKED") >>)

stageEvidence(r, graphValid) ==
  FirstStop(<< When(~r.hashesWell, "AMBIGUOUS_INPUT"),
               When(~graphValid, "MISSING_EVIDENCE"),
               When(~r.evidenceThere, "MISSING_EVIDENCE") >>)

stageMateriality(r, missionIntent) ==
  FirstStop(<< When(missionIntent \notin EDA_INTENTS, "UNSUPPORTED_WORK"),
               When(r.tier = "none", "AMBIGUOUS_INPUT"),
               When(r.declaredTier \notin {"none", r.tier}, "AMBIGUOUS_INPUT") >>)

stageReversibility(r) ==
  FirstStop(<< When(r.reversibility \notin Reversibility, "AMBIGUOUS_INPUT"),
               When(r.declaredReversibility \notin {"none", r.reversibility},
                    "AMBIGUOUS_INPUT") >>)

(* systems: a sequence of verdicts on the systems in the order they are    *)
(* named.  "unlisted" needs a tool or a destination the unit may not use.  *)
stageSystems(r) ==
  FirstStop([ i \in DOMAIN r.systems |->
                CASE r.systems[i] = "available" -> "none"
                  [] r.systems[i] = "unavailable" -> "EXTERNAL_SYSTEM_UNAVAILABLE"
                  [] r.systems[i] \in {"malformed", "unlisted"} -> "AMBIGUOUS_INPUT" ])

(* Never grants an approval: a required one is kept as a stop condition.   *)
stageApproval(r) ==
  When(r.approval \notin {"not-required", "required"}, "AMBIGUOUS_INPUT")

Least(a, b) == IF a < b THEN a ELSE b

BudgetFault(r) ==
  \/ r.requested.research < 1 \/ r.requested.correction < 1
  \/ \E d \in {"time", "tokens", "cost"} : r.requested[d] < 0 \/ r.policyMax[d] < 0

normalizeBudgets(r) ==
  [ time       |-> Least(r.requested.time, r.policyMax.time),
    tokens     |-> Least(r.requested.tokens, r.policyMax.tokens),
    cost       |-> Least(r.requested.cost, r.policyMax.cost),
    research   |-> Least(r.requested.research, 3),
    correction |-> 1 ]

(* "unit": what the published helpers find wrong with the unit's input.    *)
stageWorkUnit(r) ==
  FirstStop(<< When(BudgetFault(r), "AMBIGUOUS_INPUT"),
               CASE r.unit = "well" -> "none"
                 [] r.unit = "scope" -> "SCOPE_MISMATCH"
                 [] r.unit = "hash" -> "MISSING_EVIDENCE"
                 [] OTHER -> "AMBIGUOUS_INPUT" >>)

(* The router of the engine (external): it refuses a contradiction, gives  *)
(* any durable sign to a durable mission, any sign of a change or of       *)
(* bounded work to a specialized agent, and analyses the rest directly.    *)
Contradictory(r) ==
  r.axes.effect = "read-only"
    /\ (r.approval = "required" \/ r.reversibility = "irreversible")

Durable(r) ==
  \/ r.axes.effect = "core-governed-change" \/ r.tier \in {"R2", "R3"}
  \/ r.reversibility = "irreversible" \/ r.axes.external = "material"
  \/ r.axes.duration = "recoverable" \/ Len(r.systems) > 1
  \/ r.axes.duties = "required" \/ r.axes.regulated = "applicable"
  \/ r.approval = "required"

Specialized(r) ==
  \/ r.axes.effect = "proposes-change" \/ r.reversibility = "partially-reversible"
  \/ r.axes.external = "bounded" \/ r.axes.duration = "bounded-interruptible"

route(r) == CASE Durable(r) -> "durable"
              [] ~Durable(r) /\ Specialized(r) -> "delegated"
              [] OTHER -> "direct"

stageRouting(r) ==
  FirstStop(<< When(\E a \in DOMAIN r.axes : r.axes[a] = "rogue", "AMBIGUOUS_INPUT"),
               When(r.systems = <<>>, "AMBIGUOUS_INPUT"),
               When(Contradictory(r), "AMBIGUOUS_INPUT") >>)

runRoutingPreflight(r, missionIntent, granted, level, graphValid) ==
  FirstStop(<< stageScope(r),
               stagePermissions(r, granted, level),
               stageEvidence(r, graphValid),
               stageMateriality(r, missionIntent),
               stageReversibility(r),
               stageSystems(r),
               stageApproval(r),
               stageWorkUnit(r),
               stageRouting(r) >>)
=============================================================================
