--------------------------- MODULE RoutingProofs ---------------------------
(***************************************************************************)
(* Routed work keeps its budget and its authority: for any requests, ports,*)
(* consumptions and steps of other sessions, and without any bound on them.*)
(***************************************************************************)
EXTENDS Routing, SequenceTheorems, TLAPS

-----------------------------------------------------------------------------
(* The tables.                                                             *)

LEMMA TransitionsOK ==
  /\ DOMAIN VALID_TRANSITIONS = Status
  /\ \A s \in Status : VALID_TRANSITIONS[s] \subseteq Status
  BY DEF VALID_TRANSITIONS, Status

LEMMA ModesOK ==
  /\ AuthorityMode \subseteq Int
  /\ \A f \in ACTION_FAMILY : ACTION_REQUIRED_MODE[f] \in AuthorityMode
  BY DEF ACTION_FAMILY, ACTION_REQUIRED_MODE, AuthorityMode, ASK, ANALYZE,
     PREPARE, EXECUTE_MODE

LEMMA PhaseTargets ==
  \A s \in Status : lifecycleStatusForPhase[s] \subseteq Status \cup {"none"}
<1> SUFFICES ASSUME NEW s \in Status
             PROVE  lifecycleStatusForPhase[s] \subseteq Status \cup {"none"}
  OBVIOUS
<1>1. lifecycleStatusForPhase[s] \in
        { {"QUEUED"}, {"RUNNING"}, {"none"}, {"none", "COMPLETED"},
          {"none", "WAITING_FOR_EVIDENCE", "AWAITING_APPROVAL", "COMPLETED"} }
  BY DEF lifecycleStatusForPhase
<1>2. {"QUEUED", "RUNNING", "WAITING_FOR_EVIDENCE", "AWAITING_APPROVAL", "COMPLETED"}
        \subseteq Status
  BY DEF Status
<1>3. QED
  BY <1>1, <1>2

LEMMA ChainTargets ==
  ASSUME NEW s \in Status
  PROVE  ChainSteps(s) \subseteq Status
<1>1. ChainStatus \subseteq Status
  BY DEF ChainStatus, Status
<1>2. ChainSteps(s) \subseteq {s} \cup ChainStatus
  BY DEF ChainSteps
<1>3. QED
  BY <1>1, <1>2

-----------------------------------------------------------------------------
(* Stages: a sequence of at most nine stops is passed only if all are.     *)

LEMMA LeastOfNine ==
  ASSUME NEW T \in SUBSET (1 .. 9), T # {}
  PROVE  \E i \in T : \A j \in T : i <= j
<1>1. CASE 1 \in T
  BY <1>1
<1>2. CASE 2 \in T /\ 1 \notin T
  BY <1>2
<1>3. CASE 3 \in T /\ T \cap {1, 2} = {}
  BY <1>3
<1>4. CASE 4 \in T /\ T \cap {1, 2, 3} = {}
  BY <1>4
<1>5. CASE T \cap {1, 2, 3, 4} = {}
  <2>1. T \subseteq 5 .. 9
    BY <1>5
  <2>2. CASE 5 \in T
    BY <2>1, <2>2
  <2>3. CASE 6 \in T /\ 5 \notin T
    BY <2>1, <2>3
  <2>4. CASE 7 \in T /\ T \cap {5, 6} = {}
    BY <2>1, <2>4
  <2>5. CASE 8 \in T /\ T \cap {5, 6, 7} = {}
    BY <2>1, <2>5
  <2>6. CASE T \cap {5, 6, 7, 8} = {}
    <3>1. \A j \in T : j = 9
      BY <2>1, <2>6
    <3>2. PICK i \in T : TRUE
      OBVIOUS
    <3>3. QED
      BY <3>1, <3>2
  <2>7. QED
    BY <2>2, <2>3, <2>4, <2>5, <2>6
<1>6. QED
  BY <1>1, <1>2, <1>3, <1>4, <1>5

LEMMA AllPass ==
  ASSUME NEW stops, DOMAIN stops \subseteq 1 .. 9, FirstStop(stops) = "none"
  PROVE  \A i \in DOMAIN stops : stops[i] = "none"
<1> DEFINE hits == {i \in DOMAIN stops : stops[i] # "none"}
<1>1. SUFFICES ASSUME hits # {} PROVE FALSE
  OBVIOUS
<1>2. \E i \in hits : \A j \in hits : i <= j
  <2>1. hits \in SUBSET (1 .. 9)
    OBVIOUS
  <2> HIDE DEF hits
  <2>2. QED
    BY <1>1, <2>1, LeastOfNine
<1>3. (CHOOSE i \in hits : \A j \in hits : i <= j) \in hits
  BY <1>2
<1>4. FirstStop(stops) # "none"
  BY <1>1, <1>3 DEF FirstStop
<1>5. QED
  BY <1>4

(* What a request that passes the preflight has passed.                    *)
LEMMA PreflightPassed ==
  ASSUME NEW r \in Requests, NEW intent, NEW granted \in BOOLEAN, NEW valid \in BOOLEAN,
         runRoutingPreflight(r, intent, granted, Level, valid) = "none"
  PROVE  /\ granted
         /\ ACTION_REQUIRED_MODE[r.family] <= Level
         /\ ~BudgetFault(r)
<1> DEFINE stages == << stageScope(r), stagePermissions(r, granted, Level),
                        stageEvidence(r, valid), stageMateriality(r, intent),
                        stageReversibility(r), stageSystems(r), stageApproval(r),
                        stageWorkUnit(r), stageRouting(r) >>
<1>1. DOMAIN stages = 1 .. 9 /\ stages[2] = stagePermissions(r, granted, Level)
      /\ stages[8] = stageWorkUnit(r)
  OBVIOUS
<1>2. FirstStop(stages) = "none"
  BY DEF runRoutingPreflight
<1> HIDE DEF stages
<1>3. stages[2] = "none" /\ stages[8] = "none"
  BY <1>1, <1>2, AllPass
<1>4. granted /\ ~(Level < ACTION_REQUIRED_MODE[r.family])
  <2> DEFINE stops == << When(~r.pinned, "AMBIGUOUS_INPUT"),
                         When(~granted, "POLICY_BLOCKED"),
                         When(Level < ACTION_REQUIRED_MODE[r.family], "POLICY_BLOCKED") >>
  <2>1. /\ DOMAIN stops = 1 .. 3
        /\ stops[2] = When(~granted, "POLICY_BLOCKED")
        /\ stops[3] = When(Level < ACTION_REQUIRED_MODE[r.family], "POLICY_BLOCKED")
    OBVIOUS
  <2>2. stagePermissions(r, granted, Level) = FirstStop(stops)
    BY DEF stagePermissions
  <2> HIDE DEF stops
  <2>3. DOMAIN stops \subseteq 1 .. 9
    BY <2>1
  <2>4. FirstStop(stops) = "none"
    BY <1>1, <1>3, <2>2
  <2>5. \A i \in DOMAIN stops : stops[i] = "none"
    BY <2>3, <2>4, AllPass
  <2>6. 2 \in DOMAIN stops /\ 3 \in DOMAIN stops
    BY <2>1
  <2>7. QED
    BY <2>1, <2>5, <2>6 DEF When
<1>5. ~BudgetFault(r)
  <2> DEFINE fit   == CASE r.unit = "well" -> "none"
                        [] r.unit = "scope" -> "SCOPE_MISMATCH"
                        [] r.unit = "hash" -> "MISSING_EVIDENCE"
                        [] OTHER -> "AMBIGUOUS_INPUT"
             stops == << When(BudgetFault(r), "AMBIGUOUS_INPUT"), fit >>
  <2>1. stageWorkUnit(r) = FirstStop(stops)
    BY DEF stageWorkUnit
  <2> HIDE DEF fit
  <2>2. DOMAIN stops = 1 .. 2 /\ stops[1] = When(BudgetFault(r), "AMBIGUOUS_INPUT")
    OBVIOUS
  <2> HIDE DEF stops
  <2>3. DOMAIN stops \subseteq 1 .. 9
    BY <2>2
  <2>4. FirstStop(stops) = "none"
    BY <1>1, <1>3, <2>1
  <2>5. \A i \in DOMAIN stops : stops[i] = "none"
    BY <2>3, <2>4, AllPass
  <2>6. 1 \in DOMAIN stops
    BY <2>2
  <2>7. QED
    BY <2>2, <2>5, <2>6 DEF When
<1>6. ACTION_REQUIRED_MODE[r.family] \in Int /\ Level \in Int
  BY ModesOK, RequestsAssumption, RoutingAssumption
<1>7. QED
  BY <1>4, <1>5, <1>6

LEMMA BudgetsOK ==
  ASSUME NEW r \in Requests, ~BudgetFault(r)
  PROVE  /\ normalizeBudgets(r) \in [Dimensions -> Int]
         /\ \A d \in {"time", "tokens", "cost"} : normalizeBudgets(r)[d] <= r.policyMax[d]
         /\ normalizeBudgets(r).research \in 1 .. 3
         /\ normalizeBudgets(r).correction = 1
<1>1. /\ r.requested \in [Dimensions -> Int]
      /\ r.policyMax \in [{"time", "tokens", "cost"} -> Int]
  BY RequestsAssumption
<1>2. /\ \A d \in Dimensions : r.requested[d] \in Int
      /\ \A d \in {"time", "tokens", "cost"} : r.policyMax[d] \in Int
      /\ r.requested.research \in Int
  BY <1>1 DEF Dimensions
<1>3. r.requested.research >= 1
  <2>1. ~(r.requested.research < 1)
    BY DEF BudgetFault
  <2>2. QED
    BY <1>2, <2>1
<1>4. \A a, b \in Int : Least(a, b) \in Int /\ Least(a, b) <= b /\ (Least(a, b) = a \/ Least(a, b) = b)
  BY DEF Least
<1>5. Least(r.requested.research, 3) \in 1 .. 3
  <2>1. \A n \in Int : n >= 1 => Least(n, 3) \in 1 .. 3
    BY DEF Least
  <2>2. QED
    BY <1>2, <1>3, <2>1
<1>6. \A d \in {"time", "tokens", "cost"} :
        /\ normalizeBudgets(r)[d] = Least(r.requested[d], r.policyMax[d])
        /\ normalizeBudgets(r)[d] \in Int
        /\ normalizeBudgets(r)[d] <= r.policyMax[d]
  BY <1>2, <1>4 DEF normalizeBudgets, Dimensions
<1>7. normalizeBudgets(r).research \in 1 .. 3 /\ normalizeBudgets(r).correction = 1
  BY <1>5 DEF normalizeBudgets
<1>8. normalizeBudgets(r) \in [Dimensions -> Int]
  <2>1. DOMAIN normalizeBudgets(r) = Dimensions
    BY DEF normalizeBudgets, Dimensions
  <2>2. \A d \in Dimensions : normalizeBudgets(r)[d] \in Int
    BY <1>6, <1>7 DEF Dimensions
  <2>3. normalizeBudgets(r) = [d \in Dimensions |-> normalizeBudgets(r)[d]]
    BY <2>1 DEF normalizeBudgets
  <2>4. QED
    BY <2>2, <2>3
<1>9. QED
  BY <1>6, <1>7, <1>8

-----------------------------------------------------------------------------
(* The stores only grow: a mission never disappears, nor a grant.          *)

Grows ==
  /\ Len(missions) <= Len(missions')
  /\ \A m \in DOMAIN missions : authority[m] \subseteq authority'[m]

LEMMA Positions ==
  ASSUME StoresOK
  PROVE  /\ Len(missions) \in Nat
         /\ DOMAIN missions = 1 .. Len(missions)
         /\ DOMAIN authority = 1 .. Len(missions)
         /\ \A m \in DOMAIN missions : /\ missions[m] \in [intent : EdaIntent, status : Status]
                                       /\ authority[m] \in SUBSET ACTION_FAMILY
<1> DEFINE M == [intent : EdaIntent, status : Status]
           A == SUBSET ACTION_FAMILY
<1>1. missions \in Seq(M) /\ authority \in Seq(A) /\ Len(authority) = Len(missions)
  BY DEF StoresOK
<1> HIDE DEF M, A
<1>2. /\ Len(missions) \in Nat
      /\ DOMAIN missions = 1 .. Len(missions) /\ DOMAIN authority = 1 .. Len(missions)
  BY <1>1
<1>3. \A m \in DOMAIN missions : missions[m] \in M /\ authority[m] \in A
  BY <1>1, <1>2
<1>4. QED
  BY <1>2, <1>3 DEF M, A

LEMMA Moves ==
  ASSUME StoresOK, NEW m \in DOMAIN missions, NEW s \in Status,
         missions' = [missions EXCEPT ![m].status = s], UNCHANGED authority,
         graphValid' \subseteq DOMAIN missions, stirs' \in Nat
  PROVE  StoresOK' /\ Grows
<1> DEFINE M == [intent : EdaIntent, status : Status]
           v == [missions[m] EXCEPT !.status = s]
<1>1. missions \in Seq(M) /\ m \in 1 .. Len(missions) /\ missions[m] \in M
  BY Positions DEF StoresOK
<1>2. v \in M
  BY <1>1
<1>3. missions' = [missions EXCEPT ![m] = v]
  OBVIOUS
<1> HIDE DEF v, M
<1>4. missions' \in Seq(M) /\ Len(missions') = Len(missions)
  BY <1>1, <1>2, <1>3, ExceptSeq
<1>5. DOMAIN missions' = DOMAIN missions
  BY <1>1, <1>4
<1>6. Len(missions) <= Len(missions')
  BY <1>4, Positions
<1>7. QED
  BY <1>4, <1>5, <1>6 DEF StoresOK, Grows, M

LEMMA Begins ==
  ASSUME StoresOK, NEW i \in EdaIntent, NEW s \in Status, Begun(i, s),
         UNCHANGED graphValid, stirs' \in Nat
  PROVE  StoresOK' /\ Grows
<1> DEFINE M == [intent : EdaIntent, status : Status]
           v == [intent |-> i, status |-> s]
<1>1. missions \in Seq(M) /\ v \in M /\ authority \in Seq(SUBSET ACTION_FAMILY)
      /\ Len(authority) = Len(missions)
  BY DEF StoresOK
<1>2. missions' = Append(missions, v) /\ authority' = Append(authority, {})
  BY DEF Begun
<1>3. {} \in SUBSET ACTION_FAMILY
  OBVIOUS
<1> HIDE DEF v, M
<1>4. missions' \in Seq(M) /\ Len(missions') = Len(missions) + 1
  BY <1>1, <1>2, AppendProperties
<1>5. /\ authority' \in Seq(SUBSET ACTION_FAMILY) /\ Len(authority') = Len(authority) + 1
      /\ \A j \in 1 .. Len(authority) : authority'[j] = authority[j]
  BY <1>1, <1>2, <1>3, AppendProperties
<1>6. Len(missions) \in Nat /\ DOMAIN missions = 1 .. Len(missions)
      /\ DOMAIN missions' = 1 .. Len(missions')
  BY <1>1, <1>4
<1>7. graphValid' \subseteq DOMAIN missions'
  BY <1>4, <1>6 DEF StoresOK
<1>8. Len(authority') = Len(missions') /\ Len(missions) <= Len(missions')
  BY <1>1, <1>4, <1>5, <1>6
<1>9. \A m \in DOMAIN missions : authority[m] \subseteq authority'[m]
  BY <1>1, <1>5, <1>6
<1>10. QED
  BY <1>4, <1>5, <1>7, <1>8, <1>9 DEF StoresOK, Grows, M

LEMMA Grants ==
  ASSUME StoresOK, NEW m \in DOMAIN missions, NEW f \in Families, Grant(m, f)
  PROVE  StoresOK' /\ Grows
<1> DEFINE fs == authority[m] \cup {f}
<1>1. authority \in Seq(SUBSET ACTION_FAMILY) /\ m \in 1 .. Len(authority)
      /\ DOMAIN missions = 1 .. Len(authority) /\ Len(missions) \in Nat
  BY Positions DEF StoresOK
<1>2. fs \in SUBSET ACTION_FAMILY
  BY Positions, RequestsAssumption DEF Families
<1>3. authority' = [authority EXCEPT ![m] = fs]
      /\ UNCHANGED <<missions, graphValid>> /\ stirs' \in Nat
  BY DEF Grant, Stir, StoresOK
<1>4. /\ authority' \in Seq(SUBSET ACTION_FAMILY) /\ Len(authority') = Len(authority)
      /\ \A j \in 1 .. Len(authority) : authority'[j] = IF j = m THEN fs ELSE authority[j]
  <2> HIDE DEF fs
  <2>1. QED
    BY <1>1, <1>2, <1>3, ExceptSeq
<1>5. \A j \in DOMAIN missions : authority[j] \subseteq authority'[j]
  BY <1>1, <1>4
<1> HIDE DEF fs
<1>6. QED
  BY <1>1, <1>3, <1>4, <1>5 DEF StoresOK, Grows

LEMMA Stays ==
  ASSUME StoresOK, UNCHANGED stores
  PROVE  StoresOK' /\ Grows
<1>1. Len(missions) \in Nat
  BY Positions
<1>2. QED
  BY <1>1 DEF StoresOK, Grows, stores

LEMMA ScopeMission ==
  ASSUME TypeOK, NEW m \in DOMAIN missions
  PROVE  /\ m \in Nat /\ missions[m].status \in Status
         /\ VALID_TRANSITIONS[missions[m].status] \subseteq Status
         /\ DurableSteps(missions[m].status) \subseteq Status
         /\ ChainSteps(missions[m].status) \subseteq Status
<1>1. m \in Nat /\ missions[m].status \in Status
  BY Positions DEF TypeOK
<1>2. QED
  BY <1>1, TransitionsOK, ChainTargets DEF DurableSteps

LEMMA OthersStores ==
  ASSUME TypeOK, Others
  PROVE  StoresOK' /\ Grows
<1>0. StoresOK /\ (Stir => stirs' \in Nat) /\ graphValid \subseteq DOMAIN missions
  BY DEF TypeOK, StoresOK, Stir
<1>1. ASSUME NEW i \in Intents, OtherStarts(i) PROVE StoresOK' /\ Grows
  <2>1. i \in EdaIntent /\ "DRAFT" \in Status
    BY RoutingAssumption DEF Status
  <2>2. QED
    BY <1>0, <1>1, <2>1, Begins DEF OtherStarts
<1>2. ASSUME NEW m \in DOMAIN missions, NEW s \in Status, OtherMoves(m, s)
      PROVE  StoresOK' /\ Grows
  BY <1>0, <1>2, Moves DEF OtherMoves
<1>3. ASSUME NEW m \in DOMAIN missions, NEW f \in Families, Grant(m, f)
      PROVE  StoresOK' /\ Grows
  BY <1>0, <1>3, Grants
<1>4. ASSUME NEW m \in DOMAIN missions, WriteGraph(m) PROVE StoresOK' /\ Grows
  <2>1. Len(missions) \in Nat
    BY <1>0, Positions
  <2>2. graphValid' \subseteq DOMAIN missions
    BY <1>0, <1>4 DEF WriteGraph
  <2>3. UNCHANGED <<missions, authority>> /\ stirs' \in Nat
    BY <1>0, <1>4 DEF WriteGraph
  <2>4. QED
    BY <1>0, <2>1, <2>2, <2>3 DEF StoresOK, Grows
<1>5. QED
  BY <1>1, <1>2, <1>3, <1>4 DEF Others

LEMMA Kept ==
  ASSUME TypeOK, UNCHANGED <<graphValid, stirs>>
  PROVE  graphValid' \subseteq DOMAIN missions /\ stirs' \in Nat
  BY DEF TypeOK, StoresOK

LEMMA PortsStores ==
  ASSUME TypeOK, Ports
  PROVE  StoresOK' /\ Grows
<1>0. StoresOK
  BY DEF TypeOK
<1>1. ASSUME NEW c \in Chains, PortDirect(c) PROVE StoresOK' /\ Grows
  <2>1. CASE UNCHANGED stores
    BY <1>0, <2>1, Stays
  <2>2. ASSUME NEW m \in Active, NEW after \in ChainSteps(missions[m].status),
               missions' = [missions EXCEPT ![m].status = after],
               UNCHANGED <<authority, graphValid, stirs>>
        PROVE  StoresOK' /\ Grows
    <3>1. m \in DOMAIN missions
      BY DEF Active
    <3>2. after \in Status
      BY <3>1, ScopeMission
    <3>3. QED
      BY <1>0, <2>2, <3>1, <3>2, Kept, Moves
  <2>3. CASE Begun(c, "QUEUED") /\ UNCHANGED <<graphValid, stirs>>
    <3>1. c \in EdaIntent /\ "QUEUED" \in Status
      BY RoutingAssumption DEF Status
    <3>2. stirs' \in Nat
      BY <2>3, Kept
    <3>3. QED
      BY <1>0, <2>3, <3>1, <3>2, Begins
  <2>4. QED
    BY <1>1, <2>1, <2>2, <2>3 DEF PortDirect
<1>2. CASE PortDurable
  <2>1. seen.id \in DOMAIN missions
    BY <1>2 DEF TypeOK, HostOK, PortDurable
  <2>2. CASE UNCHANGED stores
    BY <1>0, <2>2, Stays
  <2>3. ASSUME NEW after \in DurableSteps(missions[seen.id].status),
               missions' = [missions EXCEPT ![seen.id].status = after],
               UNCHANGED <<authority, graphValid, stirs>>
        PROVE  StoresOK' /\ Grows
    <3>1. after \in Status
      BY <2>1, ScopeMission
    <3>2. QED
      BY <1>0, <2>1, <2>3, <3>1, Kept, Moves
  <2>4. QED
    BY <1>2, <2>2, <2>3 DEF PortDurable
<1>3. ASSUME NEW m \in DOMAIN missions, NEW s \in Status,
             missions' = [missions EXCEPT ![m].status = s],
             UNCHANGED <<authority, graphValid, stirs>>
      PROVE  StoresOK' /\ Grows
  BY <1>0, <1>3, Kept, Moves
<1>4. ASSUME NEW m \in DOMAIN missions, NEW s \in Status, PortThrows(m, s)
      PROVE  StoresOK' /\ Grows
  BY <1>3, <1>4 DEF PortThrows
<1>5. ASSUME NEW m \in DOMAIN missions, NEW s \in Status, NEW c, NEW form,
             PortInjected(m, s, c, form)
      PROVE  StoresOK' /\ Grows
  BY <1>3, <1>5 DEF PortInjected
<1>6. QED
  BY <1>1, <1>2, <1>4, <1>5 DEF Ports

LEMMA HostStores ==
  ASSUME TypeOK, Executor \/ Host
  PROVE  StoresOK' /\ Grows
<1>1. StoresOK
  BY DEF TypeOK
<1>2. Executor => UNCHANGED stores
  BY DEF Executor, StopMisbound, StopUnknown, StopExhausted, Dispatch, SettleRejected,
     SettleExhausted, SettleInvalid, SettleStopped, SettleSucceeded
<1>3. Host => UNCHANGED stores
  BY DEF Host, Locate, Again, Authorize, Admit, GiveUp
<1>4. QED
  BY <1>1, <1>2, <1>3, Stays

LEMMA StoresStep ==
  ASSUME TypeOK, [Next]_vars
  PROVE  StoresOK' /\ Grows
<1>1. UNCHANGED vars => UNCHANGED stores
  BY DEF vars, stores
<1>2. QED
  BY <1>1, OthersStores, PortsStores, HostStores, Stays DEF Next, TypeOK

-----------------------------------------------------------------------------
(* The host.                                                               *)

LEMMA InScope ==
  ASSUME StoresOK, StoresOK', Grows, NEW m \in DOMAIN missions
  PROVE  m \in DOMAIN missions'
<1>1. /\ DOMAIN missions = 1 .. Len(missions) /\ DOMAIN missions' = 1 .. Len(missions')
      /\ Len(missions) \in Nat /\ Len(missions') \in Nat
  BY DEF StoresOK
<1>2. QED
  BY <1>1 DEF Grows

(* What another session does leaves the host where it is.                  *)
LEMMA HostStays ==
  ASSUME TypeOK, StoresOK', Grows, UNCHANGED <<pc, seen, asked, unit, response>>
  PROVE  HostOK'
<1>1. StoresOK /\ HostOK
  BY DEF TypeOK
<1>2. pc # "idle" => seen.id \in DOMAIN missions'
  BY <1>1, InScope DEF HostOK
<1>3. QED
  BY <1>1, <1>2 DEF HostOK

LEMMA Answered ==
  ASSUME TypeOK, StoresOK', Grows, pc # "idle", NEW a, Answer(a), UNCHANGED seen
  PROVE  HostOK'
<1>1. StoresOK /\ seen.id \in DOMAIN missions /\ seen.status \in Status
  BY DEF TypeOK, HostOK
<1>2. seen.id \in DOMAIN missions'
  BY <1>1, InScope
<1>3. pc' = "answered"
  BY DEF Answer
<1>4. QED
  BY <1>1, <1>2, <1>3 DEF HostOK

LEMMA Responded ==
  ASSUME TypeOK, StoresOK', Grows, pc = "dispatched",
         NEW m \in Nat, NEW after \in Status, NEW stop \in Stop \cup {"none"},
         NEW proposed \in Status \cup {"none"}, NEW c \in Amounts,
         NEW form \in {"well", "unverified", "unbuildable"},
         Responds(m, after, stop, proposed, c, form)
  PROVE  HostOK'
<1>1. StoresOK /\ seen.id \in DOMAIN missions /\ seen.status \in Status /\ unit # NoUnit
  BY DEF TypeOK, HostOK
<1>2. seen.id \in DOMAIN missions'
  BY <1>1, InScope
<1>3. pc' = "responded" /\ seen' = seen /\ unit' = unit
  BY DEF Responds, work
<1>4. response' \in Response
  BY <1>1 DEF Responds, Response
<1>5. QED
  BY <1>1, <1>2, <1>3, <1>4 DEF HostOK

LEMMA StopsOK ==
  /\ \A s, b, h : ChainStop(s, b, h) \in Stop \cup {"none"}
  /\ \A s, h : waitStopFor(s, h) \in Stop \cup {"none"}
  /\ "AMBIGUOUS_INPUT" \in Stop /\ "POLICY_BLOCKED" \in Stop
  /\ OneAttempt \in Amounts
<1> DEFINE Waits == {"MISSING_EVIDENCE", "AMBIGUOUS_INPUT", "EXTERNAL_SYSTEM_UNAVAILABLE",
                     "APPROVAL_REQUIRED"}
<1>1. \A s, h : waitStopFor(s, h) \in Waits
  BY DEF waitStopFor
<1>2. \A s, b, h : ChainStop(s, b, h) \in Waits \cup {"none"}
  <2>1. SUFFICES ASSUME NEW s, NEW b, NEW h
                 PROVE  ChainStop(s, b, h) \in Waits \cup {"none"}
    OBVIOUS
  <2>2. "AMBIGUOUS_INPUT" \in Waits /\ waitStopFor(s, h) \in Waits
    BY <1>1
  <2> HIDE DEF Waits
  <2>3. QED
    BY <2>2 DEF ChainStop
<1>3. Waits \cup {"POLICY_BLOCKED"} \subseteq Stop
  BY DEF Stop
<1>4. OneAttempt \in Amounts
  BY DEF OneAttempt, Zero, Amounts, Dimensions
<1>5. QED
  BY <1>1, <1>2, <1>3, <1>4

LEMMA PortsHost ==
  ASSUME TypeOK, StoresOK', Grows, Ports
  PROVE  HostOK'
<1>0. /\ StoresOK /\ (pc = "dispatched" => seen.id \in DOMAIN missions)
      /\ (pc = "dispatched" => seen.id \in Nat /\ seen.status \in Status)
  BY ScopeMission DEF TypeOK, HostOK
<1>1. ASSUME NEW c \in Chains, PortDirect(c) PROVE HostOK'
  <2>0. pc = "dispatched"
    BY <1>1 DEF PortDirect
  <2>1. CASE Responds(seen.id, seen.status, "AMBIGUOUS_INPUT", "none", OneAttempt, "well")
    BY <1>0, <2>0, <2>1, StopsOK, Responded
  <2>2. ASSUME NEW m \in Active, NEW after \in ChainSteps(missions[m].status),
               NEW b \in BOOLEAN, NEW h \in BOOLEAN,
               Responds(m, after, ChainStop(after, b, h), "none", OneAttempt, "well")
        PROVE  HostOK'
    <3>1. m \in DOMAIN missions
      BY DEF Active
    <3>2. m \in Nat /\ after \in Status
      BY <3>1, ScopeMission
    <3>3. ChainStop(after, b, h) \in Stop \cup {"none"}
      BY StopsOK
    <3>4. QED
      BY <2>0, <2>2, <3>2, <3>3, StopsOK, Responded
  <2>3. CASE Responds(Len(missions) + 1, "QUEUED", "none", "none", OneAttempt, "well")
    <3>1. Len(missions) + 1 \in Nat /\ "QUEUED" \in Status
      BY <1>0, Positions DEF Status
    <3>2. QED
      BY <2>0, <2>3, <3>1, StopsOK, Responded
  <2>4. QED
    BY <1>1, <2>1, <2>2, <2>3 DEF PortDirect
<1>2. CASE PortDurable
  <2> DEFINE s == missions[seen.id].status
  <2>0. pc = "dispatched" /\ seen.id \in DOMAIN missions
    BY <1>0, <1>2 DEF PortDurable
  <2>1. CASE Responds(seen.id, s, "POLICY_BLOCKED", "none", OneAttempt, "well")
    <3>1. s \in Status
      BY <2>0, ScopeMission
    <3> HIDE DEF s
    <3>2. QED
      BY <1>0, <2>0, <2>1, <3>1, StopsOK, Responded
  <2>2. ASSUME NEW after \in DurableSteps(s), NEW hashes \in BOOLEAN,
               Responds(seen.id, after, waitStopFor(after, hashes), "none", OneAttempt, "well")
        PROVE  HostOK'
    <3>1. after \in Status
      BY <2>0, ScopeMission
    <3>2. waitStopFor(after, hashes) \in Stop \cup {"none"}
      BY StopsOK
    <3>3. QED
      BY <1>0, <2>0, <2>2, <3>1, <3>2, StopsOK, Responded
  <2>3. ASSUME NEW after \in DurableSteps(s), NEW target \in lifecycleStatusForPhase[after],
               Responds(seen.id, after, "none", target, OneAttempt, "well")
        PROVE  HostOK'
    <3>1. after \in Status
      BY <2>0, ScopeMission
    <3>2. target \in Status \cup {"none"}
      BY <3>1, PhaseTargets
    <3>3. QED
      BY <1>0, <2>0, <2>3, <3>1, <3>2, StopsOK, Responded
  <2> HIDE DEF s
  <2>4. QED
    BY <1>2, <2>1, <2>2, <2>3 DEF PortDurable, s
<1>3. ASSUME NEW m \in DOMAIN missions, NEW after \in Status, NEW c \in Consumptions,
             NEW form \in {"well", "unverified", "unbuildable"},
             PortInjected(m, after, c, form)
      PROVE  HostOK'
  <2>1. m \in Nat /\ c \in Amounts
    BY ScopeMission, RoutingAssumption
  <2>2. PICK target \in {"none", after} : Responds(m, after, "none", target, c, form)
    BY <1>3 DEF PortInjected
  <2>3. pc = "dispatched"
    BY <1>3 DEF PortInjected
  <2>4. QED
    BY <2>1, <2>2, <2>3, Responded
<1>4. ASSUME NEW m \in DOMAIN missions, NEW after \in Status, PortThrows(m, after)
      PROVE  HostOK'
  <2>1. pc = "dispatched" /\ UNCHANGED seen /\ Answer(Stopped("AMBIGUOUS_INPUT", "ports", {}))
    BY <1>4 DEF PortThrows
  <2>2. QED
    BY <2>1, Answered
<1>5. QED
  BY <1>1, <1>2, <1>3, <1>4 DEF Ports

LEMMA ExecutorHost ==
  ASSUME TypeOK, StoresOK', Grows, Executor
  PROVE  HostOK'
<1>1. CASE Dispatch
  <2>1. /\ HostOK /\ pc = "bound" /\ pc' = "dispatched"
        /\ UNCHANGED <<missions, seen, asked, unit, response>>
    BY <1>1 DEF Dispatch, Bound, TypeOK, stores, work
  <2>2. QED
    BY <2>1 DEF HostOK
<1>2. ASSUME ~Dispatch
      PROVE  pc # "idle" /\ UNCHANGED seen /\ \E a : Answer(a)
  BY <1>2 DEF Executor, StopMisbound, Bound, StopUnknown, StopExhausted, SettleRejected,
     SettleExhausted, SettleInvalid, SettleStopped, SettleSucceeded, Settled, InBudget
<1>3. QED
  BY <1>1, <1>2, Answered

LEMMA HostHost ==
  ASSUME TypeOK, StoresOK', Grows, Host
  PROVE  HostOK'
<1>0. StoresOK /\ HostOK /\ Active \subseteq DOMAIN missions
  BY DEF TypeOK, Active
<1>1. ASSUME NEW m \in Active, Locate(m) \/ Again(m)
      PROVE  HostOK'
  <2>1. /\ seen'.id = m /\ seen'.status = missions[m].status
        /\ UNCHANGED <<missions, unit>> /\ pc' \in {"located", "bound"}
        /\ pc' = "bound" => unit # NoUnit
    BY <1>1 DEF Locate, Again, findActiveEdaMission, stores, work
  <2>2. seen'.status \in Status /\ seen'.id \in DOMAIN missions'
    BY <1>0, <2>1, ScopeMission
  <2>3. QED
    BY <2>1, <2>2 DEF HostOK
<1>2. ASSUME NEW f \in Families, Authorize(f) PROVE HostOK'
  <2>1. /\ pc = "located" /\ pc' = "authorized" /\ UNCHANGED <<missions, seen>>
        /\ asked' = [family |-> f, granted |-> f \in authority[seen.id]]
    BY <1>2 DEF Authorize, stores
  <2>2. f \in ACTION_FAMILY
    BY RequestsAssumption DEF Families
  <2>3. QED
    BY <1>0, <2>1, <2>2 DEF HostOK
<1>3. ASSUME NEW r \in Requests, Admit(r) PROVE HostOK'
  <2>1. pc = "authorized" /\ UNCHANGED <<missions, seen>>
    BY <1>3 DEF Admit, stores
  <2>2. CASE Answer(Refused(Preflight(r), "preflight"))
    BY <2>1, <2>2, Answered
  <2>3. CASE /\ Preflight(r) = "none" /\ pc' = "bound"
             /\ unit' = [ mission |-> seen.id, family |-> r.family,
                          stage   |-> "DRAFT", route  |-> route(r),
                          limits  |-> normalizeBudgets(r),
                          policy  |-> r.policyMax ]
    <3>1. unit' \in Unit
      <4>1. asked.granted \in BOOLEAN /\ (seen.id \in graphValid) \in BOOLEAN
        BY <1>0, <2>1 DEF HostOK
      <4>2. ~BudgetFault(r)
        BY <2>3, <4>1, PreflightPassed DEF Preflight
      <4>3. normalizeBudgets(r) \in [Dimensions -> Int]
        BY <4>2, BudgetsOK
      <4>4. route(r) \in {"direct", "delegated", "durable"}
        BY DEF route
      <4>5. r.family \in ACTION_FAMILY /\ r.policyMax \in [{"time", "tokens", "cost"} -> Int]
        BY RequestsAssumption
      <4>6. seen.id \in Nat /\ "DRAFT" \in Status
        BY <1>0, <2>1, ScopeMission DEF HostOK, Status
      <4>7. QED
        BY <2>3, <4>3, <4>4, <4>5, <4>6 DEF Unit
    <3>2. unit' # NoUnit
      BY <3>1, RoutingAssumption
    <3>3. QED
      BY <1>0, <2>1, <2>3, <3>2 DEF HostOK
  <2>4. QED
    BY <1>3, <2>2, <2>3 DEF Admit
<1>4. CASE GiveUp
  BY <1>4 DEF GiveUp, HostOK
<1>5. QED
  BY <1>1, <1>2, <1>3, <1>4 DEF Host

LEMMA HostStep ==
  ASSUME TypeOK, StoresOK', Grows, [Next]_vars
  PROVE  HostOK'
<1>1. Others \/ UNCHANGED vars => UNCHANGED <<pc, seen, asked, unit, response>>
  BY DEF Others, OtherStarts, OtherMoves, Grant, WriteGraph, vars, work
<1>2. QED
  BY <1>1, HostStays, PortsHost, ExecutorHost, HostHost DEF Next

-----------------------------------------------------------------------------
(* The work unit and its ledger.                                           *)
(*                                                                         *)
(* BudgetKept alone is not inductive: nothing in it says that a ledger is  *)
(* open, and below its ceilings, while a port is at work, so a response    *)
(* could debit an overrun twice.  AdmittedLawfully needs the authority the *)
(* host was told of to be still there when the request is admitted.        *)

Open   == pc \in {"dispatched", "responded"} =>
            ~ledger.closed /\ Within(ledger.used, unit.limits)
Backed == pc = "authorized" /\ asked.granted => asked.family \in authority[seen.id]

RoutingInv == TypeOK /\ Open /\ Backed /\ BudgetKept /\ AdmittedLawfully

(* What of a unit the authority and the ceilings are about.                *)
SameUnit ==
  unit # NoUnit => /\ unit' \in Unit
                   /\ unit'.mission = unit.mission /\ unit'.family = unit.family
                   /\ unit'.limits = unit.limits /\ unit'.policy = unit.policy

LEMMA StillAdmitted ==
  ASSUME RoutingInv, StoresOK', Grows, SameUnit, unit = NoUnit => unit' = NoUnit
  PROVE  /\ AdmittedLawfully'
         /\ unit' # NoUnit => unit' \in Unit /\ unit'.mission \in DOMAIN missions'
<1>1. SUFFICES ASSUME unit' # NoUnit
               PROVE  /\ AdmittedLawfully'
                      /\ unit' \in Unit /\ unit'.mission \in DOMAIN missions'
  BY DEF AdmittedLawfully
<1>2. unit # NoUnit /\ unit.mission \in DOMAIN missions /\ StoresOK
  BY <1>1 DEF RoutingInv, TypeOK, WorkOK
<1>3. unit.mission \in DOMAIN missions' /\ authority[unit.mission] \subseteq authority'[unit.mission]
  BY <1>2, InScope DEF Grows
<1>4. QED
  BY <1>2, <1>3 DEF RoutingInv, AdmittedLawfully, SameUnit

(* The accounts of a unit whose ledger is settled.                         *)
LEMMA SettledKept ==
  ASSUME RoutingInv, SameUnit, unit # NoUnit, unit' # NoUnit,
         NEW used \in Amounts, NEW closed \in BOOLEAN, last' \in Amounts,
         ledger' = [used |-> used, closed |-> closed],
         used = Zero \/ \A d \in Dimensions : used[d] - last'[d] < unit.limits[d],
         closed \/ Within(used, unit.limits)
  PROVE  BudgetKept' /\ ledger' \in [used : Amounts, closed : BOOLEAN]
  BY DEF BudgetKept, SameUnit, Within

LEMMA ExhaustedNone ==
  ASSUME NEW l \in [used : Amounts, closed : BOOLEAN], NEW limits \in [Dimensions -> Int],
         Exhausted(l, limits) = "none"
  PROVE  ~l.closed /\ Within(l.used, limits)
<1> DEFINE over == {i \in DOMAIN Order : l.used[Order[i]] >= limits[Order[i]]}
<1>1. DOMAIN Order = 1 .. 5
      /\ \A i \in 1 .. 5 : Order[i] \in Dimensions /\ Order[i] # "none"
  BY DEF Order, Dimensions
<1>2. \A d \in Dimensions : \E i \in 1 .. 5 : Order[i] = d
  BY DEF Order, Dimensions
<1>3. ~l.closed
  BY DEF Exhausted
<1>4. over = {}
  <2>1. SUFFICES ASSUME over # {} PROVE FALSE
    OBVIOUS
  <2>2. over \in SUBSET (1 .. 9)
    BY <1>1
  <2>3. Exhausted(l, limits) = Order[CHOOSE i \in over : \A j \in over : i <= j]
    BY <1>3, <2>1 DEF Exhausted
  <2>4. over \subseteq 1 .. 5
    BY <1>1
  <2> HIDE DEF over
  <2>5. \E i \in over : \A j \in over : i <= j
    BY <2>1, <2>2, LeastOfNine
  <2>6. (CHOOSE i \in over : \A j \in over : i <= j) \in over
    BY <2>5
  <2>7. QED
    BY <1>1, <2>3, <2>4, <2>6
<1>5. ASSUME NEW d \in Dimensions PROVE l.used[d] < limits[d]
  <2>1. PICK i \in 1 .. 5 : Order[i] = d
    BY <1>2
  <2>2. ~(l.used[d] >= limits[d])
    BY <1>1, <1>4, <2>1
  <2>3. l.used[d] \in Int /\ limits[d] \in Int
    BY DEF Amounts
  <2>4. QED
    BY <2>2, <2>3
<1>6. QED
  BY <1>3, <1>5 DEF Within

LEMMA Debits ==
  ASSUME RoutingInv, pc = "responded"
  PROVE  /\ response.consumption \in Amounts
         /\ Debited \in [used : Amounts, closed : BOOLEAN] /\ ~Debited.closed
         /\ \A d \in Dimensions : Debited.used[d] - response.consumption[d] < unit.limits[d]
<1>1. /\ ledger \in [used : Amounts, closed : BOOLEAN] /\ ~ledger.closed
      /\ response.consumption \in Amounts /\ Within(ledger.used, unit.limits)
  BY DEF RoutingInv, TypeOK, WorkOK, HostOK, Response, Open
<1> DEFINE u == ledger.used
           c == response.consumption
<1>2. u \in [Dimensions -> Nat] /\ c \in [Dimensions -> Nat]
  BY <1>1 DEF Amounts
<1> HIDE DEF u, c
<1>3. Plus(u, c) = [d \in Dimensions |-> u[d] + c[d]]
  BY DEF Plus
<1>4. /\ Plus(u, c) \in [Dimensions -> Nat]
      /\ \A d \in Dimensions : u[d] \in Nat /\ c[d] \in Nat /\ Plus(u, c)[d] - c[d] = u[d]
  BY <1>2, <1>3
<1>5. Debited = [ledger EXCEPT !.used = Plus(u, c)]
  BY DEF Debited, u, c
<1>6. Debited \in [used : Amounts, closed : BOOLEAN] /\ ~Debited.closed
      /\ Debited.used = Plus(u, c)
  BY <1>1, <1>4, <1>5 DEF Amounts
<1>7. \A d \in Dimensions : Plus(u, c)[d] - c[d] < unit.limits[d]
  <2>1. \A d \in Dimensions : u[d] < unit.limits[d]
    BY <1>1 DEF Within, u
  <2>2. QED
    BY <1>4, <2>1
<1>8. QED
  BY <1>1, <1>6, <1>7 DEF c

Accounts == WorkOK /\ Open /\ BudgetKept /\ AdmittedLawfully

LEMMA WorkUntouched ==
  ASSUME RoutingInv, StoresOK', Grows, UNCHANGED work,
         pc' \in {"dispatched", "responded"} => pc \in {"dispatched", "responded"}
  PROVE  Accounts'
<1>1. UNCHANGED <<unit, ledger, last>>
  BY DEF work
<1>2. SameUnit /\ (unit = NoUnit => unit' = NoUnit)
  BY <1>1 DEF SameUnit, RoutingInv, TypeOK, WorkOK
<1>3. AdmittedLawfully' /\ (unit' # NoUnit => unit' \in Unit /\ unit'.mission \in DOMAIN missions')
  BY <1>2, StillAdmitted
<1>4. BudgetKept'
  BY <1>1 DEF RoutingInv, BudgetKept, Within
<1>5. Open'
  BY <1>1 DEF RoutingInv, Open, Within
<1>6. WorkOK'
  BY <1>1, <1>3 DEF RoutingInv, TypeOK, WorkOK
<1>7. QED
  BY <1>3, <1>4, <1>5, <1>6 DEF Accounts

LEMMA WorkCloses ==
  ASSUME RoutingInv, StoresOK', Grows, unit # NoUnit, UNCHANGED <<unit, last>>, close,
         pc' = "answered"
  PROVE  Accounts'
<1>1. SameUnit /\ (unit = NoUnit => unit' = NoUnit)
  BY DEF SameUnit, RoutingInv, TypeOK, WorkOK
<1>2. AdmittedLawfully' /\ (unit' # NoUnit => unit' \in Unit /\ unit'.mission \in DOMAIN missions')
  BY <1>1, StillAdmitted
<1>3. ledger \in [used : Amounts, closed : BOOLEAN] /\ last \in Amounts
  BY DEF RoutingInv, TypeOK, WorkOK
<1>4. ledger' = [used |-> ledger.used, closed |-> TRUE] /\ ledger.used \in Amounts
  BY <1>3 DEF close
<1>5. ledger.used = Zero \/ \A d \in Dimensions : ledger.used[d] - last'[d] < unit.limits[d]
  BY DEF RoutingInv, BudgetKept
<1>6. BudgetKept' /\ ledger' \in [used : Amounts, closed : BOOLEAN]
  BY <1>1, <1>3, <1>4, <1>5, SettledKept
<1>7. QED
  BY <1>2, <1>3, <1>6 DEF Accounts, WorkOK, Open

LEMMA WorkSettles ==
  ASSUME RoutingInv, StoresOK', Grows, pc = "responded", SameUnit, unit' # NoUnit,
         last' = response.consumption, pc' = "answered",
         \/ ledger' = [Debited EXCEPT !.closed = TRUE]
         \/ ledger' = Debited /\ Exhausted(Debited, unit.limits) = "none"
  PROVE  Accounts'
<1>1. unit # NoUnit /\ unit.limits \in [Dimensions -> Int]
  BY DEF RoutingInv, TypeOK, HostOK, WorkOK, Unit
<1>2. AdmittedLawfully' /\ (unit' # NoUnit => unit' \in Unit /\ unit'.mission \in DOMAIN missions')
  BY <1>1, StillAdmitted
<1>3. /\ last' \in Amounts /\ Debited \in [used : Amounts, closed : BOOLEAN]
      /\ \A d \in Dimensions : Debited.used[d] - last'[d] < unit.limits[d]
  BY Debits
<1> HIDE DEF Debited
<1>4. PICK closed \in BOOLEAN :
        /\ ledger' = [used |-> Debited.used, closed |-> closed]
        /\ closed \/ Exhausted(Debited, unit.limits) = "none"
  <2>1. CASE ledger' = [Debited EXCEPT !.closed = TRUE]
    <3>1. ledger' = [used |-> Debited.used, closed |-> TRUE]
      BY <1>3, <2>1
    <3>2. QED
      BY <3>1
  <2>2. CASE ledger' = Debited /\ Exhausted(Debited, unit.limits) = "none"
    <3>1. Debited = [used |-> Debited.used, closed |-> Debited.closed]
          /\ Debited.closed \in BOOLEAN
      BY <1>3
    <3>2. QED
      BY <2>2, <3>1
  <2>3. QED
    BY <2>1, <2>2
<1>5. closed \/ Within(Debited.used, unit.limits)
  BY <1>1, <1>3, <1>4, ExhaustedNone
<1>6. Debited.used \in Amounts
  BY <1>3
<1>7. BudgetKept' /\ ledger' \in [used : Amounts, closed : BOOLEAN]
  BY <1>1, <1>3, <1>4, <1>5, <1>6, SettledKept
<1>8. QED
  BY <1>2, <1>3, <1>7 DEF Accounts, WorkOK, Open

LEMMA OthersAccounts ==
  ASSUME RoutingInv, StoresOK', Grows, Others
  PROVE  Accounts'
<1>1. UNCHANGED work /\ UNCHANGED pc
  BY DEF Others, OtherStarts, OtherMoves, Grant, WriteGraph
<1>2. QED
  BY <1>1, WorkUntouched

LEMMA PortsAccounts ==
  ASSUME RoutingInv, StoresOK', Grows, Ports
  PROVE  Accounts'
<1>0. pc = "dispatched"
  BY DEF Ports, PortDirect, PortDurable, PortInjected, PortThrows
<1>1. ASSUME NEW m \in DOMAIN missions, NEW s \in Status, PortThrows(m, s)
      PROVE  Accounts'
  <2>1. unit # NoUnit
    BY <1>0 DEF RoutingInv, TypeOK, HostOK
  <2>2. UNCHANGED <<unit, last>> /\ close /\ pc' = "answered"
    BY <1>1 DEF PortThrows, Answer
  <2>3. QED
    BY <2>1, <2>2, WorkCloses
<1>2. ASSUME NEW m, NEW after, NEW stop, NEW proposed, NEW c, NEW form,
             Responds(m, after, stop, proposed, c, form)
      PROVE  Accounts'
  <2>1. UNCHANGED work
    BY <1>2 DEF Responds
  <2>2. QED
    BY <1>0, <2>1, WorkUntouched
<1>3. ASSUME NEW c \in Chains, PortDirect(c) PROVE Accounts'
  BY <1>2, <1>3 DEF PortDirect
<1>4. CASE PortDurable
  BY <1>2, <1>4 DEF PortDurable
<1>5. ASSUME NEW m, NEW s, NEW c, NEW form, PortInjected(m, s, c, form)
      PROVE  Accounts'
  BY <1>2, <1>5 DEF PortInjected
<1>6. QED
  BY <1>1, <1>3, <1>4, <1>5 DEF Ports

LEMMA Advanced ==
  ASSUME RoutingInv, pc = "responded"
  PROVE  /\ advanceWorkUnit \in Unit /\ advanceWorkUnit # NoUnit
         /\ advanceWorkUnit.mission = unit.mission
         /\ advanceWorkUnit.family = unit.family
         /\ advanceWorkUnit.limits = unit.limits
         /\ advanceWorkUnit.policy = unit.policy
<1>1. unit \in Unit /\ unit # NoUnit /\ response.after \in Status
  BY DEF RoutingInv, TypeOK, HostOK, WorkOK, Response
<1>2. CASE Follows
  <2> DEFINE v == [unit EXCEPT !.stage = response.after]
  <2>1. /\ v \in Unit /\ v.mission = unit.mission /\ v.family = unit.family
        /\ v.limits = unit.limits /\ v.policy = unit.policy
    BY <1>1 DEF Unit
  <2>2. advanceWorkUnit = v
    BY <1>2 DEF advanceWorkUnit
  <2> HIDE DEF v
  <2>3. QED
    BY <2>1, <2>2, RoutingAssumption
<1>3. CASE ~Follows
  BY <1>1, <1>3 DEF advanceWorkUnit
<1>4. QED
  BY <1>2, <1>3

LEMMA ExecutorAccounts ==
  ASSUME RoutingInv, StoresOK', Grows, Executor
  PROVE  Accounts'
<1>0. pc \in {"bound", "responded"} => unit # NoUnit /\ unit \in Unit
  BY DEF RoutingInv, TypeOK, HostOK, WorkOK
<1>1. CASE Dispatch
  <2>1. /\ pc = "bound" /\ pc' = "dispatched" /\ UNCHANGED <<unit, ledger, last>>
        /\ Exhausted(ledger, unit.limits) = "none"
    BY <1>1 DEF Dispatch, Bound, work
  <2>2. ledger \in [used : Amounts, closed : BOOLEAN] /\ unit.limits \in [Dimensions -> Int]
    BY <1>0, <2>1 DEF RoutingInv, TypeOK, WorkOK, Unit
  <2>3. ~ledger.closed /\ Within(ledger.used, unit.limits)
    BY <2>1, <2>2, ExhaustedNone
  <2>4. SameUnit /\ (unit = NoUnit => unit' = NoUnit)
    BY <1>0, <2>1 DEF SameUnit
  <2>5. AdmittedLawfully' /\ (unit' # NoUnit => unit' \in Unit /\ unit'.mission \in DOMAIN missions')
    BY <2>4, StillAdmitted
  <2>6. Open' /\ BudgetKept' /\ WorkOK'
    BY <2>1, <2>3, <2>5 DEF RoutingInv, TypeOK, WorkOK, BudgetKept, Open, Within
  <2>7. QED
    BY <2>5, <2>6 DEF Accounts
<1>2. CASE StopMisbound
  <2>1. UNCHANGED work /\ pc' = "answered"
    BY <1>2 DEF StopMisbound, Answer
  <2>2. QED
    BY <2>1, WorkUntouched
<1>3. CASE StopUnknown \/ StopExhausted \/ SettleRejected
  <2>1. pc \in {"bound", "responded"} /\ UNCHANGED <<unit, last>> /\ close /\ pc' = "answered"
    BY <1>3 DEF StopUnknown, StopExhausted, SettleRejected, Bound, Answer
  <2>2. QED
    BY <1>0, <2>1, WorkCloses
<1>4. CASE SettleExhausted \/ SettleInvalid \/ SettleStopped
  <2>1. /\ pc = "responded" /\ pc' = "answered" /\ unit' = unit
        /\ ledger' = [Debited EXCEPT !.closed = TRUE] /\ last' = response.consumption
    BY <1>4 DEF SettleExhausted, SettleInvalid, SettleStopped, Settled, InBudget, Accounted,
       Answer
  <2>2. SameUnit /\ unit' # NoUnit
    BY <1>0, <2>1 DEF SameUnit
  <2>3. QED
    BY <2>1, <2>2, WorkSettles
<1>5. CASE SettleSucceeded
  <2>1. /\ pc = "responded" /\ pc' = "answered" /\ unit' = advanceWorkUnit
        /\ ledger' = Debited /\ last' = response.consumption
        /\ Exhausted(Debited, unit.limits) = "none"
    BY <1>5 DEF SettleSucceeded, Settled, InBudget, Accounted, Answer
  <2>2. SameUnit /\ unit' # NoUnit
    BY <2>1, Advanced DEF SameUnit
  <2>3. QED
    BY <2>1, <2>2, WorkSettles
<1>6. QED
  BY <1>1, <1>2, <1>3, <1>4, <1>5 DEF Executor

LEMMA HostAccounts ==
  ASSUME RoutingInv, StoresOK', Grows, Host
  PROVE  Accounts'
<1>1. ASSUME NEW m \in Active, Locate(m) \/ Again(m) PROVE Accounts'
  <2>1. UNCHANGED work /\ pc' \in {"located", "bound"}
    BY <1>1 DEF Locate, Again
  <2>2. QED
    BY <2>1, WorkUntouched
<1>2. ASSUME NEW f \in Families, Authorize(f) PROVE Accounts'
  <2>1. UNCHANGED work /\ pc' = "authorized"
    BY <1>2 DEF Authorize
  <2>2. QED
    BY <2>1, WorkUntouched
<1>3. ASSUME NEW r \in Requests, Admit(r) PROVE Accounts'
  <2>1. CASE Answer(Refused(Preflight(r), "preflight")) /\ UNCHANGED work
    <3>1. pc' = "answered"
      BY <2>1 DEF Answer
    <3>2. QED
      BY <2>1, <3>1, WorkUntouched
  <2>2. CASE Preflight(r) = "none" /\ ledger' = Fresh /\ last' = Zero /\ pc' = "bound"
             /\ unit' = [ mission |-> seen.id, family |-> r.family,
                          stage   |-> "DRAFT", route  |-> route(r),
                          limits  |-> normalizeBudgets(r),
                          policy  |-> r.policyMax ]
    <3>1. /\ asked.granted \in BOOLEAN /\ (seen.id \in graphValid) \in BOOLEAN
          /\ seen.id \in DOMAIN missions /\ StoresOK /\ asked.family = r.family
          /\ pc = "authorized" /\ UNCHANGED authority
      BY <1>3 DEF Admit, RoutingInv, TypeOK, HostOK, stores
    <3>2. asked.granted /\ ACTION_REQUIRED_MODE[r.family] <= Level /\ ~BudgetFault(r)
      BY <2>2, <3>1, PreflightPassed DEF Preflight
    <3>3. r.family \in authority'[seen.id] /\ seen.id \in DOMAIN missions'
      BY <3>1, <3>2, InScope DEF RoutingInv, Backed
    <3>4. DOMAIN r.policyMax = {"time", "tokens", "cost"}
      BY RequestsAssumption
    <3>5. AdmittedLawfully'
      BY <2>2, <3>2, <3>3, <3>4, BudgetsOK DEF AdmittedLawfully
    <3>6. unit' \in Unit
      <4>1. route(r) \in {"direct", "delegated", "durable"}
        BY DEF route
      <4>2. r.family \in ACTION_FAMILY /\ r.policyMax \in [{"time", "tokens", "cost"} -> Int]
        BY RequestsAssumption
      <4>3. seen.id \in Nat /\ "DRAFT" \in Status
        BY <3>1, ScopeMission DEF RoutingInv, Status
      <4>4. normalizeBudgets(r) \in [Dimensions -> Int]
        BY <3>2, BudgetsOK
      <4>5. QED
        BY <2>2, <4>1, <4>2, <4>3, <4>4 DEF Unit
    <3>7. Zero \in Amounts /\ Fresh \in [used : Amounts, closed : BOOLEAN] /\ Fresh.used = Zero
      BY DEF Zero, Fresh, Amounts
    <3>8. BudgetKept'
      BY <2>2, <3>7 DEF BudgetKept
    <3>9. Open'
      BY <2>2 DEF Open
    <3>10. WorkOK'
      BY <2>2, <3>3, <3>6, <3>7 DEF WorkOK
    <3>11. QED
      BY <3>5, <3>8, <3>9, <3>10 DEF Accounts
  <2>3. QED
    BY <1>3, <2>1, <2>2 DEF Admit
<1>4. CASE GiveUp
  <2>1. unit' = NoUnit /\ ledger' = Fresh /\ last' = Zero /\ pc' = "idle"
    BY <1>4 DEF GiveUp
  <2>2. Zero \in Amounts /\ Fresh \in [used : Amounts, closed : BOOLEAN]
    BY DEF Zero, Fresh, Amounts
  <2>3. QED
    BY <2>1, <2>2 DEF Accounts, WorkOK, Open, BudgetKept, AdmittedLawfully
<1>5. QED
  BY <1>1, <1>2, <1>3, <1>4 DEF Host

LEMMA BackedStep ==
  ASSUME RoutingInv, StoresOK', Grows, [Next]_vars
  PROVE  Backed'
<1>1. ASSUME pc' = "authorized" PROVE Others \/ UNCHANGED vars \/ \E f \in Families : Authorize(f)
  BY <1>1 DEF Next, Others, Ports, PortDirect, PortDurable, PortInjected, PortThrows, Responds,
     Executor, StopMisbound, StopUnknown, StopExhausted, Dispatch, SettleRejected,
     SettleExhausted, SettleInvalid, SettleStopped, SettleSucceeded, Answer,
     Host, Locate, Again, Admit, GiveUp
<1>2. CASE Others \/ UNCHANGED vars
  <2>1. UNCHANGED <<pc, seen, asked>>
    BY <1>2 DEF Others, OtherStarts, OtherMoves, Grant, WriteGraph, vars
  <2>2. pc = "authorized" => seen.id \in DOMAIN missions
    BY DEF RoutingInv, TypeOK, HostOK
  <2>3. QED
    BY <2>1, <2>2 DEF RoutingInv, Backed, Grows
<1>3. ASSUME NEW f \in Families, Authorize(f) PROVE Backed'
  BY <1>3 DEF Authorize, Backed, stores
<1>4. QED
  BY <1>1, <1>2, <1>3 DEF Backed

-----------------------------------------------------------------------------
(* The theorems.                                                           *)

LEMMA RoutingInit == Init => RoutingInv
<1> SUFFICES ASSUME Init PROVE RoutingInv
  OBVIOUS
<1>1. StoresOK
  <2>1. CASE missions = <<>> /\ authority = <<>> /\ graphValid = {}
    BY <2>1 DEF Init, StoresOK
  <2>2. ASSUME NEW i \in Intents, NEW s \in Status, NEW fs \in SUBSET Families,
               missions = <<[intent |-> i, status |-> s]>>, authority = <<fs>>,
               graphValid \in SUBSET {1}
        PROVE  StoresOK
    <3>1. i \in EdaIntent /\ fs \in SUBSET ACTION_FAMILY
      BY RoutingAssumption, RequestsAssumption DEF Families
    <3>2. stirs \in Nat
      BY DEF Init
    <3>3. missions \in Seq([intent : EdaIntent, status : Status]) /\ Len(missions) = 1
      BY <2>2, <3>1
    <3>4. authority \in Seq(SUBSET ACTION_FAMILY) /\ Len(authority) = 1
      BY <2>2, <3>1
    <3>5. QED
      BY <2>2, <3>2, <3>3, <3>4 DEF StoresOK
  <2>3. QED
    BY <2>1, <2>2 DEF Init
<1>2. HostOK
  BY DEF Init, HostOK
<1>3. Zero \in Amounts /\ Fresh \in [used : Amounts, closed : BOOLEAN]
  BY DEF Zero, Fresh, Amounts
<1>4. WorkOK /\ Open /\ Backed /\ BudgetKept /\ AdmittedLawfully
  BY <1>3 DEF Init, WorkOK, Open, Backed, BudgetKept, AdmittedLawfully
<1>5. QED
  BY <1>1, <1>2, <1>4 DEF RoutingInv, TypeOK

LEMMA RoutingStep == RoutingInv /\ [Next]_vars => RoutingInv'
<1> SUFFICES ASSUME RoutingInv, [Next]_vars PROVE RoutingInv'
  OBVIOUS
<1>1. StoresOK' /\ Grows
  BY StoresStep DEF RoutingInv
<1>2. HostOK'
  BY <1>1, HostStep DEF RoutingInv
<1>3. Accounts'
  <2>1. CASE UNCHANGED vars
    <3>1. UNCHANGED work /\ UNCHANGED pc
      BY <2>1 DEF vars
    <3>2. QED
      BY <1>1, <3>1, WorkUntouched
  <2>2. QED
    BY <1>1, <2>1, OthersAccounts, PortsAccounts, ExecutorAccounts, HostAccounts DEF Next
<1>4. Backed'
  BY <1>1, BackedStep
<1>5. QED
  BY <1>1, <1>2, <1>3, <1>4 DEF RoutingInv, TypeOK, Accounts

(* Routing is always in a state its operations expect, and what a host has *)
(* read or holds stays a mission of the scope.                             *)
THEOREM RoutingTypeCorrect == Spec => []TypeOK
<1>1. RoutingInv => TypeOK
  BY DEF RoutingInv
<1>2. QED
  BY <1>1, RoutingInit, RoutingStep, PTL DEF Spec

(* However often a unit is executed and whatever its ports report, it goes *)
(* over a ceiling by no more than one response, and never again after.     *)
THEOREM BudgetIsKept == Spec => []BudgetKept
<1>1. RoutingInv => BudgetKept
  BY DEF RoutingInv
<1>2. QED
  BY <1>1, RoutingInit, RoutingStep, PTL DEF Spec

(* No unit is bound without the authority it needs, or above the ceilings  *)
(* of its policy, whatever other sessions do between lookup and admission. *)
THEOREM WorkIsLawful == Spec => []AdmittedLawfully
<1>1. RoutingInv => AdmittedLawfully
  BY DEF RoutingInv
<1>2. QED
  BY <1>1, RoutingInit, RoutingStep, PTL DEF Spec
-----------------------------------------------------------------------------
(* Stops and successes.                                                    *)
(*                                                                         *)
(* That a stop is the end of its unit is not in the answers alone: it is   *)
(* the ledger, closed by every stop but one, that keeps the next dispatch  *)
(* from happening.  A success needs to know what the host saw when it      *)
(* dispatched, since a mission that did not move is taken to be as seen.   *)

NotItsMission == [ok |-> FALSE, reason |-> "AMBIGUOUS_INPUT",
                  fields |-> "workUnit.missionId", from |-> "none", to |-> "none"]

Stopping ==
  /\ pc \in {"idle", "located", "authorized"} => unit = NoUnit
  /\ unit = NoUnit /\ pc # "answered" => answers = {}
  /\ unit # NoUnit /\ ~ledger.closed =>
       \A a \in answers : a.ok \/ a = NotItsMission

Seeing ==
  /\ pc # "idle" => seen.status \notin TERMINAL_STATUSES
  /\ pc \in {"dispatched", "responded"} => seen.status # "UNKNOWN"
  /\ pc = "responded" => response.before = seen.status

LEMMA StopIsNotOk ==
  ASSUME NEW reason, NEW fields, NEW targets
  PROVE  Stopped(reason, fields, targets).ok = FALSE
  BY DEF Stopped

LEMMA MisboundIs ==
  Misbound = NotItsMission
  BY DEF Misbound, Stopped, NotItsMission

(* What a port does: it responds, or throws and closes the ledger.         *)
LEMMA PortsAnswer ==
  ASSUME Ports
  PROVE  /\ pc = "dispatched" /\ UNCHANGED <<seen, unit>>
         /\ \/ /\ UNCHANGED <<ledger, answers>> /\ pc' = "responded"
               /\ response'.before = seen.status
            \/ /\ close /\ pc' = "answered"
               /\ \E fields : answers' = answers \cup {Stopped("AMBIGUOUS_INPUT", fields, {})}
<1> DEFINE responds == /\ UNCHANGED <<seen, unit, ledger, answers>> /\ pc' = "responded"
                       /\ response'.before = seen.status
<1>1. ASSUME NEW m, NEW after, NEW stop, NEW proposed, NEW c, NEW form,
             Responds(m, after, stop, proposed, c, form)
      PROVE  responds
  BY <1>1 DEF Responds, work
<1> HIDE DEF responds
<1>2. ASSUME NEW c \in Chains, PortDirect(c) PROVE pc = "dispatched" /\ responds
  BY <1>1, <1>2 DEF PortDirect
<1>3. CASE PortDurable
  <2>1. pc = "dispatched" /\ responds
    BY <1>1, <1>3 DEF PortDurable
  <2>2. QED
    BY <2>1 DEF responds
<1>4. ASSUME NEW m, NEW s, NEW c, NEW form, PortInjected(m, s, c, form)
      PROVE  pc = "dispatched" /\ responds
  BY <1>1, <1>4 DEF PortInjected
<1>5. ASSUME NEW m, NEW s, PortThrows(m, s)
      PROVE  /\ pc = "dispatched" /\ UNCHANGED <<seen, unit>> /\ close /\ pc' = "answered"
             /\ answers' = answers \cup {Stopped("AMBIGUOUS_INPUT", "ports", {})}
  BY <1>5 DEF PortThrows, Answer
<1>6. QED
  BY <1>2, <1>3, <1>4, <1>5 DEF Ports, responds

LEMMA StoppingStep ==
  ASSUME RoutingInv, Stopping, [Next]_vars
  PROVE  Stopping'
<1>1. /\ pc \in {"bound", "dispatched", "responded"} => unit # NoUnit
      /\ ledger \in [used : Amounts, closed : BOOLEAN]
  BY DEF RoutingInv, TypeOK, HostOK, WorkOK
<1>2. close => ledger'.closed
  BY <1>1 DEF close
<1>3. CASE Others \/ UNCHANGED vars
  <2>1. UNCHANGED <<pc, unit, ledger, answers>>
    BY <1>3 DEF Others, OtherStarts, OtherMoves, Grant, WriteGraph, vars, work
  <2>2. QED
    BY <2>1 DEF Stopping
<1>4. CASE Ports
  BY <1>1, <1>2, <1>4, PortsAnswer DEF Stopping
<1>5. CASE Executor
  <2>1. CASE Dispatch
    BY <1>1, <2>1 DEF Stopping, Dispatch, Bound, work
  <2>2. CASE StopMisbound
    <3>1. /\ pc = "bound" /\ pc' = "answered" /\ UNCHANGED <<unit, ledger>>
          /\ answers' = answers \cup {NotItsMission}
      BY MisboundIs, <2>2 DEF StopMisbound, Answer, work
    <3>2. QED
      BY <1>1, <3>1 DEF Stopping
  <2>3. CASE StopUnknown \/ StopExhausted \/ SettleRejected
    <3>1. pc \in {"bound", "responded"} /\ pc' = "answered" /\ unit' = unit /\ close
      BY <2>3 DEF StopUnknown, StopExhausted, SettleRejected, Bound, Answer
    <3>2. QED
      BY <1>1, <1>2, <3>1 DEF Stopping
  <2>4. CASE SettleExhausted \/ SettleInvalid \/ SettleStopped
    <3>1. /\ pc = "responded" /\ pc' = "answered" /\ unit' = unit
          /\ ledger' = [Debited EXCEPT !.closed = TRUE]
      BY <2>4 DEF SettleExhausted, SettleInvalid, SettleStopped, Settled, InBudget, Answer
    <3>2. Debited \in [used : Amounts, closed : BOOLEAN]
      BY <3>1, Debits
    <3>3. ledger'.closed
      BY <3>1, <3>2
    <3>4. QED
      BY <1>1, <3>1, <3>3 DEF Stopping
  <2>5. CASE SettleSucceeded
    <3>1. PICK t : answers' = answers \cup {[ ok |-> TRUE, reason |-> "none", fields |-> "none",
                                             from |-> advanceWorkUnit.stage, to |-> t ]}
      BY <2>5 DEF SettleSucceeded, Answer
    <3>2. /\ pc = "responded" /\ pc' = "answered" /\ unit' # NoUnit /\ unit # NoUnit
      BY <1>1, <2>5, Advanced DEF SettleSucceeded, Settled, InBudget, Answer
    <3>3. ~ledger.closed
      BY <3>2 DEF RoutingInv, Open
    <3>4. QED
      BY <3>1, <3>2, <3>3 DEF Stopping
  <2>6. QED
    BY <1>5, <2>1, <2>2, <2>3, <2>4, <2>5 DEF Executor
<1>6. CASE Host
  <2>1. ASSUME NEW m \in Active, Locate(m) \/ Again(m) PROVE Stopping'
    BY <2>1 DEF Stopping, Locate, Again, work
  <2>2. ASSUME NEW f \in Families, Authorize(f) PROVE Stopping'
    BY <2>2 DEF Stopping, Authorize, work
  <2>3. ASSUME NEW r \in Requests, Admit(r) PROVE Stopping'
    <3>1. pc = "authorized" /\ unit = NoUnit /\ answers = {}
      BY <2>3 DEF Stopping, Admit
    <3>2. CASE UNCHANGED work /\ pc' = "answered"
      BY <3>1, <3>2 DEF Stopping, work
    <3>3. CASE pc' = "bound" /\ unit' # NoUnit /\ answers' = answers
      BY <3>1, <3>3 DEF Stopping
    <3>4. \/ UNCHANGED work /\ Answer(Refused(Preflight(r), "preflight"))
          \/ pc' = "bound" /\ UNCHANGED answers
      BY <2>3 DEF Admit
    <3>5. pc' = "bound" => unit' # NoUnit
      <4>1. RoutingInv'
        BY RoutingStep
      <4>2. QED
        BY <4>1 DEF RoutingInv, TypeOK, HostOK
    <3>6. QED
      BY <3>2, <3>3, <3>4, <3>5 DEF Answer
  <2>4. CASE GiveUp
    BY <2>4 DEF Stopping, GiveUp
  <2>5. QED
    BY <1>6, <2>1, <2>2, <2>3, <2>4 DEF Host
<1>7. QED
  BY <1>3, <1>4, <1>5, <1>6 DEF Next

LEMMA SeeingStep ==
  ASSUME RoutingInv, Seeing, [Next]_vars
  PROVE  Seeing'
<1>1. CASE Others \/ UNCHANGED vars
  <2>1. UNCHANGED <<pc, seen, response>>
    BY <1>1 DEF Others, OtherStarts, OtherMoves, Grant, WriteGraph, vars
  <2>2. QED
    BY <2>1 DEF Seeing, TERMINAL_STATUSES
<1>2. CASE Ports
  BY <1>2, PortsAnswer DEF Seeing, TERMINAL_STATUSES
<1>3. CASE Dispatch
  BY <1>3 DEF Dispatch, Bound, Seeing, TERMINAL_STATUSES
<1>4. CASE Executor /\ ~Dispatch
  <2>1. pc \in {"bound", "responded"} /\ pc' = "answered" /\ UNCHANGED seen
    BY <1>4 DEF Executor, StopMisbound, StopUnknown, StopExhausted, Bound, Answer, SettleRejected,
       SettleExhausted, SettleInvalid, SettleStopped, SettleSucceeded, Settled, InBudget
  <2>2. QED
    BY <2>1 DEF Seeing, TERMINAL_STATUSES
<1>5. CASE Host
  <2>1. ASSUME NEW m \in Active, Locate(m) \/ Again(m) PROVE Seeing'
    <3>1. seen'.status \notin TERMINAL_STATUSES /\ pc' \in {"located", "bound"}
      BY <2>1 DEF Locate, Again, findActiveEdaMission, Active
    <3>2. QED
      BY <3>1 DEF Seeing, TERMINAL_STATUSES
  <2>2. ASSUME NEW f \in Families, Authorize(f) PROVE Seeing'
    BY <2>2 DEF Authorize, Seeing, TERMINAL_STATUSES
  <2>3. ASSUME NEW r \in Requests, Admit(r) PROVE Seeing'
    <3>1. pc = "authorized" /\ pc' \in {"answered", "bound"} /\ UNCHANGED seen
      BY <2>3 DEF Admit, Answer
    <3>2. QED
      BY <3>1 DEF Seeing, TERMINAL_STATUSES
  <2>4. CASE GiveUp
    BY <2>4 DEF GiveUp, Seeing
  <2>5. QED
    BY <1>5, <2>1, <2>2, <2>3, <2>4 DEF Host
<1>6. QED
  BY <1>1, <1>2, <1>3, <1>4, <1>5 DEF Next

(* The status a settled unit is to go to is legal from where it is.        *)
LEMMA NextTargetsLegal ==
  ASSUME RoutingInv, pc = "responded"
  PROVE  /\ advanceWorkUnit.stage \in Status
         /\ NextTargets \subseteq VALID_TRANSITIONS[advanceWorkUnit.stage]
<1> DEFINE stage == advanceWorkUnit.stage
<1>1. stage \in Status
  BY Advanced DEF Unit
<1>2. canonicalEntryStage[stage] \subseteq VALID_TRANSITIONS[stage]
  <2>1. "DRAFT" \in Status /\ "QUEUED" \in VALID_TRANSITIONS["DRAFT"]
    BY DEF Status, VALID_TRANSITIONS
  <2>2. canonicalEntryStage[stage] = IF stage = "DRAFT" THEN {"QUEUED"} ELSE {}
    BY <1>1 DEF canonicalEntryStage
  <2>3. QED
    BY <2>1, <2>2
<1> HIDE DEF stage
<1>3. resolveNextTarget(stage, response.proposed) \subseteq VALID_TRANSITIONS[stage]
  BY DEF resolveNextTarget
<1>4. NextTargets \in {resolveNextTarget(stage, response.proposed), canonicalEntryStage[stage]}
  BY DEF NextTargets, stage
<1>5. QED
  BY <1>1, <1>2, <1>3, <1>4 DEF stage

LEMMA Succeeds ==
  ASSUME RoutingInv, Seeing, SettleSucceeded, NEW a \in answers' \ answers
  PROVE  /\ response.mission = unit.mission
         /\ response.after \notin {"UNKNOWN", "FAILED", "REJECTED"}
         /\ a.from = unit'.stage /\ a.to \in VALID_TRANSITIONS[a.from]
         /\ unit'.stage \in {unit.stage} \cup VALID_TRANSITIONS[unit.stage]
         /\ Within(ledger'.used, unit.limits)
<1>1. /\ pc = "responded" /\ response.mission = unit.mission /\ Outcome = "none" /\ ~Derailed
      /\ Exhausted(Debited, unit.limits) = "none" /\ ledger' = Debited
      /\ unit' = advanceWorkUnit
  BY DEF SettleSucceeded, Settled, InBudget, verifyResponse
<1>2. PICK t \in NextTargets : a = [ ok |-> TRUE, reason |-> "none", fields |-> "none",
                                     from |-> advanceWorkUnit.stage, to |-> t ]
  BY DEF SettleSucceeded, Answer
<1>3. a.from = unit'.stage /\ a.to \in VALID_TRANSITIONS[a.from]
  BY <1>1, <1>2, NextTargetsLegal
<1>4. response.after \notin {"UNKNOWN", "FAILED", "REJECTED"}
  <2>1. CASE Moved
    BY <1>1, <2>1 DEF Outcome
  <2>2. CASE ~Moved
    BY <1>1, <2>2 DEF Moved, Seeing, TERMINAL_STATUSES
  <2>3. QED
    BY <2>1, <2>2
<1>5. unit'.stage \in {unit.stage} \cup VALID_TRANSITIONS[unit.stage]
  <2>1. CASE Follows
    <3>1. unit \in Unit
      BY <1>1 DEF RoutingInv, TypeOK, HostOK, WorkOK
    <3>2. unit'.stage = response.after
      BY <1>1, <2>1, <3>1 DEF advanceWorkUnit, Unit
    <3>3. QED
      BY <1>1, <2>1, <3>2 DEF Derailed
  <2>2. CASE ~Follows
    BY <1>1, <2>2 DEF advanceWorkUnit
  <2>3. QED
    BY <2>1, <2>2
<1>6. Within(ledger'.used, unit.limits)
  <2>1. Debited \in [used : Amounts, closed : BOOLEAN] /\ unit.limits \in [Dimensions -> Int]
    BY <1>1, Debits DEF RoutingInv, TypeOK, HostOK, WorkOK, Unit
  <2>2. QED
    BY <1>1, <2>1, ExhaustedNone
<1>7. QED
  BY <1>1, <1>3, <1>4, <1>5, <1>6

(* Only a settlement that succeeds adds an answer that is one.             *)
LEMMA OnlySuccess ==
  ASSUME [Next]_vars, NEW a \in answers' \ answers, a.ok
  PROVE  SettleSucceeded
<1>1. Others \/ UNCHANGED vars \/ Dispatch => answers' = answers
  BY DEF Others, OtherStarts, OtherMoves, Grant, WriteGraph, vars, Dispatch
<1>2. Ports => answers' = answers \/ ~a.ok
  <2> SUFFICES ASSUME Ports, a \in answers', a \notin answers PROVE ~a.ok
    OBVIOUS
  <2>1. PICK fields : answers' = answers \cup {Stopped("AMBIGUOUS_INPUT", fields, {})}
    BY PortsAnswer
  <2>2. a = Stopped("AMBIGUOUS_INPUT", fields, {})
    BY <2>1
  <2>3. QED
    BY <2>2, StopIsNotOk
<1>3. StopMisbound => ~a.ok
  BY MisboundIs DEF StopMisbound, Answer, NotItsMission
<1>4. StopUnknown \/ StopExhausted \/ SettleRejected \/ SettleExhausted \/ SettleInvalid => ~a.ok
  <2> SUFFICES ASSUME StopUnknown \/ StopExhausted \/ SettleRejected \/ SettleExhausted
                        \/ SettleInvalid
               PROVE  ~a.ok
    OBVIOUS
  <2>1. \E reason, fields, targets : a = Stopped(reason, fields, targets)
    <3>1. \E reason, fields, targets : Answer(Stopped(reason, fields, targets))
      BY DEF StopUnknown, StopExhausted, SettleRejected, SettleExhausted, SettleInvalid
    <3>2. QED
      BY <3>1 DEF Answer
  <2>2. QED
    BY <2>1, StopIsNotOk
<1>5. SettleStopped => ~a.ok
  <2> SUFFICES ASSUME SettleStopped PROVE ~a.ok
    OBVIOUS
  <2>1. PICK s, from : /\ s = Stopped("AMBIGUOUS_INPUT", "candidates", {})
                          \/ s = Stopped(Outcome, "outcome", NextTargets)
                       /\ a = [s EXCEPT !.from = from]
    BY DEF SettleStopped, Answer
  <2>2. [s EXCEPT !.from = from].ok = FALSE
    BY <2>1 DEF Stopped
  <2>3. QED
    BY <2>1, <2>2
<1>6. Host => answers' \subseteq answers \/ ~a.ok
  BY DEF Host, Locate, Again, Authorize, Admit, GiveUp, Answer, Refused, NoAnswer
<1>7. QED
  BY <1>1, <1>2, <1>3, <1>4, <1>5, <1>6 DEF Next, Executor

LEMMA DispatchOnly ==
  ASSUME [Next]_vars, pc' = "dispatched", pc # "dispatched"
  PROVE  Dispatch
<1>1. ~Others /\ ~UNCHANGED vars
  BY DEF Others, OtherStarts, OtherMoves, Grant, WriteGraph, vars
<1>2. ~Ports
  BY PortsAnswer
<1>3. ~Host
  BY DEF Host, Locate, Again, Authorize, Admit, GiveUp, Answer
<1>4. Executor => Dispatch
  BY DEF Executor, StopMisbound, StopUnknown, StopExhausted, Answer, SettleRejected,
     SettleExhausted, SettleInvalid, SettleStopped, SettleSucceeded
<1>5. QED
  BY <1>1, <1>2, <1>3, <1>4 DEF Next

(* A stop is the end of its unit: whoever executes it again reaches no     *)
(* port, and no port is called on a mission seen UNKNOWN or not its own.   *)
THEOREM StopsAreFinal == Spec => NoDispatchAfterStop
<1>1. Init => Stopping
  BY DEF Init, Stopping
<1>2. RoutingInv /\ Stopping /\ [Next]_vars => Stopping'
  BY StoppingStep
<1>3. RoutingInv /\ Stopping /\ [Next]_vars =>
        [pc' = "dispatched" /\ pc # "dispatched" =>
           /\ \A a \in answers : a.ok \/ a = Misbound
           /\ seen.status # "UNKNOWN" /\ seen.id = unit.mission]_vars
  <2> SUFFICES ASSUME RoutingInv, Stopping, [Next]_vars, pc' = "dispatched", pc # "dispatched"
               PROVE  /\ \A a \in answers : a.ok \/ a = Misbound
                      /\ seen.status # "UNKNOWN" /\ seen.id = unit.mission
    OBVIOUS
  <2>1. Dispatch
    BY DispatchOnly
  <2>2. unit # NoUnit /\ unit \in Unit /\ ledger \in [used : Amounts, closed : BOOLEAN]
    BY <2>1 DEF Dispatch, Bound, RoutingInv, TypeOK, HostOK, WorkOK
  <2>3. unit.limits \in [Dimensions -> Int]
    BY <2>2 DEF Unit
  <2>4. ~ledger.closed
    BY <2>1, <2>2, <2>3, ExhaustedNone DEF Dispatch
  <2>5. QED
    BY <2>1, <2>2, <2>4, MisboundIs DEF Dispatch, Bound, Stopping
<1>4. QED
  BY <1>1, <1>2, <1>3, RoutingInit, RoutingStep, PTL DEF Spec, NoDispatchAfterStop

(* A success is about the unit's own mission, which the step has neither   *)
(* lost nor failed, is within budget and names a legal transition.         *)
THEOREM SuccessIsEarned == Spec => SuccessEarned
<1> DEFINE earned == \A a \in answers' \ answers : a.ok =>
              /\ response.mission = unit.mission
              /\ response.after \notin {"UNKNOWN", "FAILED", "REJECTED"}
              /\ a.from = unit'.stage /\ a.to \in VALID_TRANSITIONS[a.from]
              /\ unit'.stage \in {unit.stage} \cup VALID_TRANSITIONS[unit.stage]
              /\ Within(ledger'.used, unit.limits)
<1>1. Init => Seeing
  BY DEF Init, Seeing
<1>2. RoutingInv /\ Seeing /\ [Next]_vars => Seeing'
  BY SeeingStep
<1>3. RoutingInv /\ Seeing /\ [Next]_vars => [earned]_vars
  <2> SUFFICES ASSUME RoutingInv, Seeing, [Next]_vars, NEW a \in answers' \ answers, a.ok
               PROVE  /\ response.mission = unit.mission
                      /\ response.after \notin {"UNKNOWN", "FAILED", "REJECTED"}
                      /\ a.from = unit'.stage /\ a.to \in VALID_TRANSITIONS[a.from]
                      /\ unit'.stage \in {unit.stage} \cup VALID_TRANSITIONS[unit.stage]
                      /\ Within(ledger'.used, unit.limits)
    OBVIOUS
  <2>1. QED
    BY OnlySuccess, Succeeds
<1>4. QED
  BY <1>1, <1>2, <1>3, RoutingInit, RoutingStep, PTL DEF Spec, SuccessEarned
=============================================================================
