---------------------------- MODULE EngramClient ----------------------------
(***************************************************************************)
(* The child process of the institutional memory: verified, spawned,       *)
(* greeted and called over its pipes, and shut down.                       *)
(*                                                                         *)
(* The child lives beside the client's event loop: it answers, goes mute   *)
(* or dies when it likes, and the loop hears of it later, of its exit and  *)
(* of the lines it wrote in either order.                                  *)
(***************************************************************************)
EXTENDS Naturals

CONSTANTS
  Calls,     \* tool calls, and the ids their requests bear
  Closers    \* callers of shutdown

VARIABLES
  pc,        \* the stage of spawnEngramClient, then the status it returned
  child,     \* the process: none, up, exited (with a code), killed (by a signal)
  told,      \* whether its exit event was emitted
  greeting,  \* its answer to initialize: none, full, or without serverInfo
  asked,     \* requests it got and has not answered
  pipe,      \* answers it wrote that the loop has not read
  bounced,   \* requests written to a process that was gone
  healthy,   \* the client's own flag
  pending,   \* the client's map of requests awaiting an answer
  call,      \* each tool call: unmade, open, answered or failed
  closing    \* each shutdown: unmade, waiting, overdue (past its grace), done

process == <<child, told>>
wire    == <<greeting, asked, pipe, bounced>>
client  == <<healthy, pending, call, closing>>
vars    == <<pc, process, wire, client>>

Init ==
  /\ pc = "verify" /\ child = "none" /\ told = FALSE
  /\ greeting = "none" /\ asked = {} /\ pipe = {} /\ bounced = {}
  /\ healthy = FALSE /\ pending = {}
  /\ call = [c \in Calls |-> "unmade"]
  /\ closing = [k \in Closers |-> "unmade"]

Up   == child = "up"
Gone == child \in {"exited", "killed"}

(* exitCode stays null for a process that a signal ended.                  *)
ExitCodeKnown == told /\ child = "exited"

(***************************************************************************)
(* spawnEngramClient.  Nothing is spawned that was not verified.           *)
(***************************************************************************)
verifyEngramPin ==
  /\ pc = "verify"
  /\ pc' \in {"extract", "verification-failed"}
  /\ UNCHANGED <<process, wire, client>>

extractBinary ==
  /\ pc = "extract"
  /\ pc' \in {"spawn", "spawn-failed"}
  /\ UNCHANGED <<process, wire, client>>

Spawn ==
  /\ pc = "spawn"
  /\ \/ pc' = "handshake" /\ child' = "up"
     \/ pc' = "spawn-failed" /\ UNCHANGED child
  /\ UNCHANGED <<told, wire, client>>

(* SIGKILL: a process that is gone already is not killed again.            *)
Killed == child' = IF Up THEN "killed" ELSE child

(* The greeting may be read after the exit was emitted, when nobody was    *)
(* listening for it yet.                                                   *)
Greet ==
  /\ pc = "handshake" /\ greeting # "none"
  /\ \/ /\ greeting = "full"
        /\ pc' = "healthy" /\ healthy' = TRUE
        /\ UNCHANGED child
     \/ /\ greeting = "anonymous"
        /\ pc' = "spawn-failed" /\ Killed
        /\ UNCHANGED healthy
  /\ UNCHANGED <<told, wire, pending, call, closing>>

(* Variant: a handshake that times out leaves the process alone. *)
LeaveOnTimeout ==
  /\ pc = "handshake"
  /\ pc' = "handshake-timeout"
  /\ UNCHANGED <<process, wire, client>>

HandshakeTimeout ==
  /\ pc = "handshake"
  /\ pc' = "handshake-timeout" /\ Killed
  /\ UNCHANGED <<told, wire, client>>

(***************************************************************************)
(* The child (external).                                                   *)
(***************************************************************************)
ChildGreets ==
  /\ Up /\ pc = "handshake" /\ greeting = "none"
  /\ greeting' \in {"full", "anonymous"}
  /\ UNCHANGED <<pc, process, asked, pipe, bounced, client>>

ChildAnswers(c) ==
  /\ Up /\ c \in asked
  /\ asked' = asked \ {c} /\ pipe' = pipe \cup {c}
  /\ UNCHANGED <<pc, process, greeting, bounced, client>>

(* It exits by itself or at SIGTERM, or a signal ends it.                  *)
ChildDies ==
  /\ Up
  /\ child' \in {"exited", "killed"}
  /\ UNCHANGED <<pc, told, wire, client>>

(***************************************************************************)
(* The client's event loop.                                                *)
(***************************************************************************)
Rejected(cs) == [c \in Calls |-> IF c \in cs THEN "failed" ELSE call[c]]

Heard == [k \in Closers |-> IF closing[k] \in {"waiting", "overdue"} THEN "done"
                                                                   ELSE closing[k]]

(* Variant: the flag falls, but the requests stay in the map. *)
onlyUnhealthy ==
  /\ Gone /\ ~told /\ told' = TRUE
  /\ healthy' = FALSE /\ closing' = Heard
  /\ UNCHANGED <<pc, child, wire, pending, call>>

(* The exit event: the listeners there are, the client's and those of the  *)
(* shutdowns that wait, hear it; nobody who comes later does.              *)
onChildGone ==
  /\ Gone /\ ~told /\ told' = TRUE
  /\ \/ /\ pc = "healthy"
        /\ healthy' = FALSE
        /\ call' = Rejected(pending) /\ pending' = {}
        /\ closing' = Heard
     \/ /\ pc # "healthy"
        /\ UNCHANGED client
  /\ UNCHANGED <<pc, child, wire>>

(* A line: the answer of a request that still waits, or ignored.           *)
handleLine(c) ==
  /\ pc = "healthy" /\ c \in pipe
  /\ pipe' = pipe \ {c}
  /\ pending' = pending \ {c}
  /\ call' = IF c \in pending THEN [call EXCEPT ![c] = "answered"] ELSE call
  /\ UNCHANGED <<pc, process, greeting, asked, bounced, healthy, closing>>

(* callTool sets no timeout: only an answer, a failed write or the exit of *)
(* the child settles a call.                                               *)
callTool(c) ==
  /\ pc = "healthy" /\ call[c] = "unmade"
  /\ \/ /\ ~healthy
        /\ call' = Rejected({c})
        /\ UNCHANGED <<asked, bounced, pending>>
     \/ /\ healthy
        /\ call' = [call EXCEPT ![c] = "open"] /\ pending' = pending \cup {c}
        /\ IF Up THEN asked' = asked \cup {c} /\ UNCHANGED bounced
                 ELSE bounced' = bounced \cup {c} /\ UNCHANGED asked
  /\ UNCHANGED <<pc, process, greeting, pipe, healthy, closing>>

(* Variant: a failed write is only taken off the list. *)
swallowWriteError(c) ==
  /\ c \in bounced
  /\ bounced' = bounced \ {c}
  /\ UNCHANGED <<pc, process, greeting, asked, pipe, client>>

WriteFails(c) ==
  /\ c \in bounced
  /\ bounced' = bounced \ {c}
  /\ pending' = pending \ {c}
  /\ call' = IF c \in pending THEN Rejected({c}) ELSE call
  /\ UNCHANGED <<pc, process, greeting, asked, pipe, healthy, closing>>

(***************************************************************************)
(* Shutdown.                                                               *)
(***************************************************************************)
shutdown(k) ==
  /\ pc = "healthy" /\ closing[k] = "unmade"
  /\ \/ /\ ~healthy /\ ExitCodeKnown
        /\ closing' = [closing EXCEPT ![k] = "done"]
     \/ /\ healthy \/ ~ExitCodeKnown
        /\ closing' = [closing EXCEPT ![k] = "waiting"]  \* and SIGTERM
  /\ UNCHANGED <<pc, child, told, wire, healthy, pending, call>>

GraceOver(k) ==
  /\ closing[k] = "waiting"
  /\ closing' = [closing EXCEPT ![k] = "overdue"]
  /\ IF ExitCodeKnown THEN UNCHANGED child ELSE Killed
  /\ UNCHANGED <<pc, told, wire, healthy, pending, call>>

Next ==
  \/ verifyEngramPin \/ extractBinary \/ Spawn \/ Greet \/ HandshakeTimeout
  \/ ChildGreets \/ ChildDies \/ onChildGone
  \/ \E c \in Calls : ChildAnswers(c) \/ handleLine(c) \/ callTool(c) \/ WriteFails(c)
  \/ \E k \in Closers : shutdown(k) \/ GraceOver(k)

(* The loop gets round to every event and every timer; the child and the   *)
(* callers owe nothing.                                                    *)
Fairness ==
  /\ WF_vars(verifyEngramPin) /\ WF_vars(extractBinary) /\ WF_vars(Spawn)
  /\ WF_vars(Greet) /\ WF_vars(HandshakeTimeout) /\ WF_vars(onChildGone)
  /\ \A c \in Calls : WF_vars(handleLine(c)) /\ WF_vars(WriteFails(c))
  /\ \A k \in Closers : WF_vars(GraceOver(k))

Spec == Init /\ [][Next]_vars /\ Fairness

(***************************************************************************)
(* Properties.                                                             *)
(***************************************************************************)
(* Every variable has the shape its operations expect. *)
TypeOK ==
  /\ child \in {"none", "up", "exited", "killed"} /\ told \in BOOLEAN
  /\ greeting \in {"none", "full", "anonymous"}
  /\ asked \cup pipe \cup bounced \cup pending \subseteq Calls
  /\ call \in [Calls -> {"unmade", "open", "answered", "failed"}]
  /\ closing \in [Closers -> {"unmade", "waiting", "overdue", "done"}]

(* The map of pending requests is the set of calls in flight, none is left *)
(* in it once the client is unhealthy, and a request in it can still be    *)
(* settled: it is before the child, in the pipe or about to bounce, unless *)
(* the loop has yet to hear that the child is gone.                        *)
PendingMatchesCalls ==
  /\ pending = {c \in Calls : call[c] = "open"}
  /\ ~healthy => pending = {}
  /\ told => pending \subseteq pipe \cup bounced
  /\ pending \subseteq asked \cup pipe \cup bounced

(* Once the child is gone every call in flight is settled, even when it    *)
(* went before the client had a listener for its exit.                     *)
CallsSettle ==
  \A c \in Calls : Gone /\ call[c] = "open" ~> call[c] # "open"

(* No process is left behind: not by a failed handshake, and not by a      *)
(* shutdown, whatever the process makes of SIGTERM.                        *)
NoOrphan ==
  /\ pc \in {"handshake-timeout", "spawn-failed"} ~> ~Up
  /\ \A k \in Closers : closing[k] = "waiting" ~> ~Up

(* "Graceful shutdown: SIGTERM, bounded wait, SIGKILL if still alive.      *)
(* Idempotent."                                                            *)
ShutdownResolves ==
  \A k \in Closers : closing[k] = "waiting" ~> closing[k] = "done"
=============================================================================
