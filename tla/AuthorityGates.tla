--------------------------- MODULE AuthorityGates ---------------------------
(***************************************************************************)
(* The authority pipeline: the stages a requested action has to pass, in   *)
(* their fixed order, of which the first that does not allow it stops the  *)
(* run.  No state lives here.  The scope stage is left to the caller: the  *)
(* chain pipeline only ever presents an authorization it looked up under   *)
(* the very scope, mission, actor and family it asks for.                  *)
(*                                                                         *)
(* The mission, approval and receipt stages are gates of the engine, which *)
(* is outside the repository's source.                                     *)
(***************************************************************************)
EXTENDS MissionProtocol

(***************************************************************************)
(* Action families.                                                        *)
(***************************************************************************)
familyForPhase(phase) ==
  CASE phase \in {INTAKE, BIND_SCOPE} -> "QUERY"
    [] phase \in INGEST .. INVESTIGATE \cup {VERIFY} -> "INVESTIGATE"
    [] phase = PROPOSE -> "PREPARE_CANDIDATE"
    [] phase = APPROVE -> "APPROVE"
    [] phase \in EXECUTE .. ARCHIVE -> "EXECUTE_TARGET"

ACTION_FAMILY == {"QUERY", "INVESTIGATE", "PREPARE_CANDIDATE", "APPROVE",
                  "EXECUTE_TARGET"}
READ_ONLY_FAMILIES == {"QUERY", "INVESTIGATE"}

ACTION_REQUIRED_MODE ==
  [ QUERY             |-> ASK,
    INVESTIGATE       |-> ANALYZE,
    PREPARE_CANDIDATE |-> PREPARE,
    APPROVE           |-> PREPARE,
    EXECUTE_TARGET    |-> EXECUTE_MODE ]

(* Variant: only approval asks leave for a transition. *)
TransitionOfApproval == [ APPROVE |-> "AWAITING_APPROVAL" ]

(* The transition a family asks leave for; the others ask for none. *)
Transitions == [ APPROVE |-> "AWAITING_APPROVAL", EXECUTE_TARGET |-> "COMPLETED" ]

(***************************************************************************)
(* A request: the authority mode of the authorization, the family asked    *)
(* for, the status of the mission, the tier derived from the materiality   *)
(* that was given ("none" if it is missing or incomplete), whether an      *)
(* approver is named, whether a receipt signed by a trusted key is brought,*)
(* and whether the action is declared read-only.                           *)
(***************************************************************************)
Tier == {"none", "R0", "R1", "R2", "R3"}

Request == [ mode     : AuthorityMode, family  : ACTION_FAMILY,
             status   : Status,        tier    : Tier,
             approver : BOOLEAN,       trusted : BOOLEAN,
             readOnly : BOOLEAN ]

ReadOnlyRequest(r) == r.family \in READ_ONLY_FAMILIES \/ r.readOnly

(* Whether an engine gate looks at the request at all. *)
Bearing(r) == ~ReadOnlyRequest(r) /\ r.family \in DOMAIN Transitions

(* The engine's approval table (external): R2 takes one approver, R3 two,  *)
(* and the harness never presents more than one.                           *)
LacksApproval(r) == r.tier = "R3" \/ (r.tier = "R2" /\ ~r.approver)

Stages == <<"mode", "materiality", "mission", "approval", "receipt">>

Blocks(stage, r) ==
  CASE stage = "mode"        -> r.mode < ACTION_REQUIRED_MODE[r.family]
    [] stage = "materiality" -> ~ReadOnlyRequest(r) /\ r.tier = "none"
    [] stage = "mission"     ->
         Bearing(r) /\ Transitions[r.family] \notin VALID_TRANSITIONS[r.status]
    [] stage = "approval"    -> Bearing(r) /\ LacksApproval(r)
    [] stage = "receipt"     ->
         Bearing(r) /\ r.family = "EXECUTE_TARGET" /\ ~r.trusted

(* The stage that stops the request, "none" if every one lets it pass. *)
FirstBlocked(r) ==
  LET stops == {i \in DOMAIN Stages : Blocks(Stages[i], r)}
  IN  IF stops = {} THEN "none"
                    ELSE Stages[CHOOSE i \in stops : \A j \in stops : i <= j]
=============================================================================
