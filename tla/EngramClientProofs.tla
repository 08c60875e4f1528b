-------------------------- MODULE EngramClientProofs --------------------------
(***************************************************************************)
(* What the client of the institutional memory keeps, for every number of  *)
(* calls and of shutdowns, and whatever its child does.                    *)
(***************************************************************************)
EXTENDS EngramClient, TLAPS

(***************************************************************************)
(* The child is spawned once and never comes back, its exit is emitted     *)
(* only after it, and the client is healthy in the healthy stage alone:    *)
(* without these a call could be put in the map after the last event that  *)
(* would settle it.                                                        *)
(***************************************************************************)
Staged ==
  /\ pc \in {"verify", "extract", "spawn"} => child = "none"
  /\ told => Gone
  /\ healthy => pc = "healthy"

ClientInv == TypeOK /\ Staged /\ PendingMatchesCalls

LEMMA ClientInit == Init => ClientInv
  BY DEF Init, ClientInv, TypeOK, Staged, PendingMatchesCalls

(* The stages of spawning, and the child: the map of requests is left      *)
(* alone, and so is every call.                                            *)
LEMMA StagesKeep ==
  ASSUME ClientInv,
         \/ verifyEngramPin \/ extractBinary \/ Spawn \/ Greet \/ HandshakeTimeout
         \/ ChildGreets \/ ChildDies
  PROVE  ClientInv'
<1> USE DEF ClientInv
<1>1. /\ UNCHANGED <<told, asked, pipe, bounced, pending, call, closing>>
      /\ healthy => healthy'
  BY DEF verifyEngramPin, extractBinary, Spawn, Greet, HandshakeTimeout, ChildGreets,
         ChildDies, process, wire, client
<1>2. child' \in {"none", "up", "exited", "killed"} /\ greeting' \in {"none", "full", "anonymous"}
  BY DEF verifyEngramPin, extractBinary, Spawn, Greet, HandshakeTimeout, ChildGreets,
         ChildDies, process, wire, client, TypeOK, Killed, Up
<1>3. TypeOK'
  BY <1>1, <1>2 DEF TypeOK
<1>4. Staged'
  BY <1>1 DEF verifyEngramPin, extractBinary, Spawn, Greet, HandshakeTimeout, ChildGreets,
         ChildDies, process, wire, client, TypeOK, Killed, Up, Gone, Staged
<1>5. PendingMatchesCalls'
  <2>1. UNCHANGED <<asked, pipe, bounced, pending, call, told>> /\ (~healthy' => ~healthy)
    BY <1>1
  <2>2. QED
    BY <2>1 DEF PendingMatchesCalls
<1>6. QED
  BY <1>3, <1>4, <1>5

(* The exit of the child fails what is in flight, or finds nothing there.  *)
LEMMA ExitKeeps ==
  ASSUME ClientInv, onChildGone
  PROVE  ClientInv'
<1> USE DEF ClientInv
<1>1. CASE pc = "healthy"
  <2>1. /\ healthy' = FALSE /\ pending' = {} /\ told' = TRUE
        /\ call' = Rejected(pending) /\ closing' = Heard
        /\ UNCHANGED <<pc, child, greeting, asked, pipe, bounced>>
    BY <1>1 DEF onChildGone, wire
  <2>2. TypeOK'
    BY <2>1 DEF TypeOK, Rejected, Heard
  <2>3. Staged'
    BY <2>1 DEF onChildGone, Staged, Gone
  <2>4. \A c \in Calls : call'[c] # "open"
    BY <2>1 DEF Rejected, PendingMatchesCalls
  <2>5. QED
    BY <2>1, <2>2, <2>3, <2>4 DEF PendingMatchesCalls
<1>2. CASE pc # "healthy"
  <2>1. /\ UNCHANGED <<healthy, pending, call, closing, pc, child,
                       greeting, asked, pipe, bounced>>
        /\ told' = TRUE /\ Gone
    BY <1>2 DEF onChildGone, wire, client
  <2>2. pending = {}
    BY <1>2 DEF Staged, PendingMatchesCalls
  <2>3. QED
    BY <2>1, <2>2 DEF TypeOK, Staged, Gone, PendingMatchesCalls
<1>3. QED
  BY <1>1, <1>2

(* An answer on its way is still on its way when it is in the pipe.        *)
LEMMA AnswerKeeps ==
  ASSUME ClientInv, NEW c \in Calls, ChildAnswers(c)
  PROVE  ClientInv'
<1>1. /\ UNCHANGED <<pc, child, told, greeting, bounced, healthy, pending, call, closing>>
      /\ asked' = asked \ {c} /\ pipe' = pipe \cup {c}
  BY DEF ChildAnswers, process, client
<1>2. QED
  BY <1>1 DEF ClientInv, TypeOK, Staged, Gone, PendingMatchesCalls

(* A request is taken off the map together with the call it settles.       *)
LEMMA SettleKeeps ==
  ASSUME ClientInv, NEW c \in Calls, NEW status \in {"answered", "failed"},
         UNCHANGED <<pc, child, told, greeting, asked, healthy, closing>>,
         pipe' \cup bounced' \cup {c} = pipe \cup bounced \cup {c},
         pipe' \subseteq pipe, bounced' \subseteq bounced,
         pending' = pending \ {c},
         call' = IF c \in pending THEN [call EXCEPT ![c] = status] ELSE call
  PROVE  ClientInv'
<1> USE DEF ClientInv
<1>1. call' \in [Calls -> {"unmade", "open", "answered", "failed"}]
  BY DEF TypeOK
<1>2. TypeOK' /\ Staged'
  BY <1>1 DEF TypeOK, Staged, Gone
<1>3. pending' = {d \in Calls : call'[d] = "open"}
  <2>1. \A d \in Calls \ {c} : call'[d] = call[d]
    BY DEF TypeOK
  <2>2. call'[c] # "open"
    BY DEF TypeOK, PendingMatchesCalls
  <2>3. QED
    BY <2>1, <2>2 DEF PendingMatchesCalls
<1>4. QED
  BY <1>2, <1>3 DEF PendingMatchesCalls

LEMMA LineKeeps ==
  ASSUME ClientInv, NEW c \in Calls, handleLine(c)
  PROVE  ClientInv'
<1>1. /\ UNCHANGED <<pc, child, told, greeting, asked, healthy, closing>>
      /\ pipe' = pipe \ {c} /\ bounced' = bounced /\ pending' = pending \ {c}
      /\ call' = IF c \in pending THEN [call EXCEPT ![c] = "answered"] ELSE call
  BY DEF handleLine, process
<1>2. pipe' \cup bounced' \cup {c} = pipe \cup bounced \cup {c}
  BY <1>1
<1>3. QED
  BY <1>1, <1>2, SettleKeeps

LEMMA RejectedOne ==
  ASSUME TypeOK, NEW c \in Calls
  PROVE  Rejected({c}) = [call EXCEPT ![c] = "failed"]
  BY DEF TypeOK, Rejected

LEMMA WriteKeeps ==
  ASSUME ClientInv, NEW c \in Calls, WriteFails(c)
  PROVE  ClientInv'
<1>1. /\ UNCHANGED <<pc, child, told, greeting, asked, healthy, closing>>
      /\ bounced' = bounced \ {c} /\ pipe' = pipe /\ pending' = pending \ {c}
      /\ call' = IF c \in pending THEN [call EXCEPT ![c] = "failed"] ELSE call
  BY RejectedOne DEF WriteFails, process, ClientInv
<1>2. pipe' \cup bounced' \cup {c} = pipe \cup bounced \cup {c}
  BY <1>1
<1>3. QED
  BY <1>1, <1>2, SettleKeeps

(* A new request reaches the child or bounces; once the exit was emitted   *)
(* it can only bounce.                                                     *)
LEMMA CallKeeps ==
  ASSUME ClientInv, NEW c \in Calls, callTool(c)
  PROVE  ClientInv'
<1> USE DEF ClientInv
<1>1. /\ UNCHANGED <<pc, child, told, greeting, pipe, healthy, closing>>
      /\ call[c] = "unmade" /\ c \notin pending
  BY DEF callTool, process, PendingMatchesCalls
<1>2. CASE ~healthy
  <2>1. /\ UNCHANGED <<asked, bounced, pending>>
        /\ call' = [call EXCEPT ![c] = "failed"]
    BY <1>2, RejectedOne DEF callTool
  <2>2. TypeOK' /\ Staged'
    BY <1>1, <2>1 DEF TypeOK, Staged, Gone
  <2>3. pending' = {d \in Calls : call'[d] = "open"}
    BY <1>1, <2>1 DEF TypeOK, PendingMatchesCalls
  <2>4. QED
    BY <1>1, <2>1, <2>2, <2>3 DEF PendingMatchesCalls
<1>3. CASE healthy
  <2>1. /\ call' = [call EXCEPT ![c] = "open"] /\ pending' = pending \cup {c}
        /\ \/ Up /\ asked' = asked \cup {c} /\ bounced' = bounced
           \/ ~Up /\ bounced' = bounced \cup {c} /\ asked' = asked
    BY <1>3 DEF callTool
  <2>2. TypeOK' /\ Staged'
    BY <1>1, <2>1 DEF TypeOK, Staged, Gone
  <2>3. pending' = {d \in Calls : call'[d] = "open"}
    BY <1>1, <2>1 DEF TypeOK, PendingMatchesCalls
  <2>4. pending' \subseteq asked' \cup pipe' \cup bounced'
    BY <1>1, <2>1 DEF PendingMatchesCalls
  <2>5. told' => pending' \subseteq pipe' \cup bounced'
    BY <1>1, <2>1 DEF PendingMatchesCalls, Staged, Gone, Up
  <2>6. QED
    BY <1>1, <1>3, <2>2, <2>3, <2>4, <2>5 DEF PendingMatchesCalls
<1>4. QED
  BY <1>2, <1>3

(* A shutdown signals the child and waits; it settles no call itself.      *)
LEMMA ShutdownKeeps ==
  ASSUME ClientInv, NEW k \in Closers, shutdown(k) \/ GraceOver(k)
  PROVE  ClientInv'
<1> USE DEF ClientInv
<1>1. /\ UNCHANGED <<pc, told, greeting, asked, pipe, bounced, healthy, pending, call>>
      /\ closing' \in [Closers -> {"unmade", "waiting", "overdue", "done"}]
      /\ \/ child' = child
         \/ Up /\ child' = "killed"
  BY DEF shutdown, GraceOver, wire, TypeOK, Killed
<1>2. TypeOK' /\ Staged'
  BY <1>1 DEF TypeOK, Staged, Gone, Up
<1>3. QED
  BY <1>1, <1>2 DEF PendingMatchesCalls

LEMMA ClientStep == ClientInv /\ [Next]_vars => ClientInv'
<1> SUFFICES ASSUME ClientInv, [Next]_vars PROVE ClientInv'
  OBVIOUS
<1>1. CASE UNCHANGED vars
  BY <1>1 DEF vars, process, wire, client, ClientInv, TypeOK, Staged, Gone,
              PendingMatchesCalls
<1>2. CASE Next
  BY <1>2, StagesKeep, ExitKeeps, AnswerKeeps, LineKeeps, CallKeeps, WriteKeeps,
     ShutdownKeeps DEF Next
<1>3. QED
  BY <1>1, <1>2

LEMMA ClientInvariant == Spec => []ClientInv
  BY ClientInit, ClientStep, PTL DEF Spec

(* Every part of the client's state has the shape its handlers expect.     *)
THEOREM ClientTypeCorrect == Spec => []TypeOK
<1>1. ClientInv => TypeOK
  BY DEF ClientInv
<1>2. QED
  BY <1>1, ClientInvariant, PTL

(* However many calls are in flight, and in whatever order the answers,    *)
(* the failed writes and the exit are heard: the map of requests and the   *)
(* open calls are the same, and each can still be settled.                 *)
THEOREM PendingRequests == Spec => []PendingMatchesCalls
<1>1. ClientInv => PendingMatchesCalls
  BY DEF ClientInv
<1>2. QED
  BY <1>1, ClientInvariant, PTL
=============================================================================
