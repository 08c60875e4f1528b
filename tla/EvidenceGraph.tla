---------------------------- MODULE EvidenceGraph ----------------------------
(***************************************************************************)
(* The evidence graph of one mission: an append-only file of nodes and     *)
(* edges, written by the phases of the chains and read back for proposals. *)
(*                                                                         *)
(* An append loads the whole file, decides on what it loaded, and writes   *)
(* one line; nothing locks the file in between, so the appends of several  *)
(* sessions interleave.  A phase appends several records one after the     *)
(* other and is done when the last one has been accepted; a crash or an    *)
(* I/O error may end it between any two, or in the middle of a line.       *)
(***************************************************************************)
EXTENDS Integers, Sequences, FiniteSets

CONSTANTS
  Sessions,   \* sessions at work on the mission
  NodeIds,    \* ids of nodes
  EdgeIds,    \* ids of edges
  Contents,   \* whatever else a record holds: payload, relation, instant
  Batches,    \* what a phase may append: sequences of entries (see Entry)
  Terminals,  \* the terminal nodes a proposal may cite: sets of node ids
  MaxFaults,  \* bound: crashes and I/O errors in one behaviour
  NoContent   \* the content of a session that has decided on none

SOURCE         == "source"
TRANSFORMATION == "transformation"
CONCLUSION     == "conclusion"
ACTION_NODE    == "action"
NodeKind       == {SOURCE, TRANSFORMATION, CONCLUSION, ACTION_NODE}

(* What a caller asks to append.  The content of the record is not part of *)
(* it: no chain names an instant, so the store stamps each attempt anew.   *)
NodeEntry == [op : {"node"}, id : NodeIds, kind : NodeKind]
EdgeEntry == [op : {"edge"}, id : EdgeIds, from : NodeIds, to : NodeIds]
Entry     == NodeEntry \cup EdgeEntry

ASSUME BatchesAssumption ==
  Batches \subseteq Seq(Entry) /\ \A b \in Batches : b # <<>>
ASSUME TerminalsAssumption ==
  Terminals \subseteq SUBSET NodeIds /\ {} \notin Terminals
ASSUME FaultsAssumption == MaxFaults \in Nat /\ NoContent \notin Contents

VARIABLES
  nodes,   \* the node records of the file, in order
  edges,   \* the edge records of the file, in order
  tail,    \* its last line: "whole", "open" (no newline) or "broken"
  done,    \* the batches some phase has appended to the end
  sess,    \* what each session is doing
  raced,   \* some append has landed on a file that grew after its load
  faults   \* crashes and I/O errors so far

file == <<nodes, edges, tail, raced>>
vars == <<file, done, sess, faults>>

Node == [id : NodeIds, kind : NodeKind, content : Contents]
Edge == [id : EdgeIds, from : NodeIds, to : NodeIds, content : Contents]

-----------------------------------------------------------------------------
(* The graph a file stands for.  An id is looked up by the first record    *)
(* that bears it, whether or not another one follows.                      *)
Has(log, id) == \E i \in DOMAIN log : log[i].id = id

(* Variant: an index built by id, in which the last record wins.           *)
LastOf(log, id) ==
  log[CHOOSE i \in DOMAIN log :
        log[i].id = id /\ \A j \in (i + 1)..Len(log) : log[j].id # id]

First(log, id) ==
  log[CHOOSE i \in DOMAIN log :
        log[i].id = id /\ \A j \in 1..(i - 1) : log[j].id # id]

KindOf(ns, id) == First(ns, id).kind
Pairs(es)      == {<<es[i].from, es[i].to>> : i \in DOMAIN es}

(* What the two depth-first searches collect, along and against the edges. *)
Descendants(P, id) ==
  {d \in NodeIds : \A S \in SUBSET NodeIds :
     id \in S /\ (\A p \in P : p[1] \in S => p[2] \in S) => d \in S}

Ancestors(P, id) ==
  {a \in NodeIds : \A S \in SUBSET NodeIds :
     id \in S /\ (\A p \in P : p[2] \in S => p[1] \in S) => a \in S}

(* Variant: the search runs from the wrong end.                            *)
createsCycleReversed(P, from, to) == from = to \/ to \in Descendants(P, from)

createsCycle(P, from, to) == from = to \/ from \in Descendants(P, to)

(* The remainder of Kahn's algorithm: the largest set of nodes each of     *)
(* which has a predecessor in the set.                                     *)
findCycle(P) ==
  UNION {S \in SUBSET NodeIds : \A x \in S : \E y \in S : <<y, x>> \in P}

conclusionGrounded(ns, P, id) ==
  \E a \in Ancestors(P, id) :
    Has(ns, a) /\ KindOf(ns, a) \in {SOURCE, TRANSFORMATION}

actionGrounded(ns, P, id) ==
  \E a \in Ancestors(P, id) :
    /\ Has(ns, a)
    /\ KindOf(ns, a) = CONCLUSION
    /\ conclusionGrounded(ns, P, a)

(* Variant: the rule that a source accepts no edges is missing.            *)
AcceptableIntoSource(ns, es, e) ==
  LET P == Pairs(es) \cup {<<e.from, e.to>>}
  IN  /\ Has(ns, e.from) /\ Has(ns, e.to)
      /\ ~createsCycle(Pairs(es), e.from, e.to)
      /\ KindOf(ns, e.from) # ACTION_NODE
      /\ KindOf(ns, e.to) = CONCLUSION => conclusionGrounded(ns, P, e.to)
      /\ KindOf(ns, e.to) = ACTION_NODE => actionGrounded(ns, P, e.to)

(* Variant: any edge counts as a citation.                                 *)
AcceptableUncited(ns, es, e) ==
  /\ Has(ns, e.from) /\ Has(ns, e.to)
  /\ ~createsCycle(Pairs(es), e.from, e.to)
  /\ KindOf(ns, e.from) # ACTION_NODE
  /\ KindOf(ns, e.to) # SOURCE

(* The rules an edge is held to, in the graph it would give.               *)
Acceptable(ns, es, e) ==
  LET P == Pairs(es) \cup {<<e.from, e.to>>}
  IN  /\ Has(ns, e.from) /\ Has(ns, e.to)
      /\ ~createsCycle(Pairs(es), e.from, e.to)
      /\ KindOf(ns, e.from) # ACTION_NODE
      /\ KindOf(ns, e.to) # SOURCE
      /\ KindOf(ns, e.to) = CONCLUSION => conclusionGrounded(ns, P, e.to)
      /\ KindOf(ns, e.to) = ACTION_NODE => actionGrounded(ns, P, e.to)

-----------------------------------------------------------------------------
(* Sessions.  "rest" is what is left of the batch under way, "content" and *)
(* "seen" belong to the append that was decided on, "todo" and "ids" to a  *)
(* projection of the terminals of a proposal.                              *)
Size == [nodes |-> Len(nodes), edges |-> Len(edges)]
Empty == [nodes |-> 0, edges |-> 0]

Idle == [ pc |-> "idle", batch |-> <<>>, rest |-> <<>>, content |-> NoContent,
          seen |-> Empty, terminals |-> {}, todo |-> {}, ids |-> {} ]

Become(s, w) == sess' = [sess EXCEPT ![s] = w]
Abort(s)     == Become(s, Idle) /\ UNCHANGED done

Init ==
  /\ nodes = <<>>
  /\ edges = <<>>
  /\ tail = "whole"
  /\ done = {}
  /\ sess = [s \in Sessions |-> Idle]
  /\ raced = FALSE
  /\ faults = 0

(* Variant: a phase is done one entry too late.                            *)
AdvancePastEnd(s) ==
  LET w == sess[s]
  IN  IF Len(w.rest) > 0
      THEN /\ Become(s, [Idle EXCEPT !.pc = "append", !.batch = w.batch,
                                     !.rest = Tail(w.rest)])
           /\ UNCHANGED done
      ELSE Become(s, Idle) /\ done' = done \cup {w.batch}

(* A phase goes on to its next entry, or is done.                          *)
Advance(s) ==
  LET w == sess[s]
  IN  IF Len(w.rest) > 1
      THEN /\ Become(s, [Idle EXCEPT !.pc = "append", !.batch = w.batch,
                                     !.rest = Tail(w.rest)])
           /\ UNCHANGED done
      ELSE Become(s, Idle) /\ done' = done \cup {w.batch}

Begin(s, b) ==
  /\ sess[s].pc = "idle"
  /\ Become(s, [Idle EXCEPT !.pc = "append", !.batch = b, !.rest = b])
  /\ UNCHANGED <<file, done, faults>>

-----------------------------------------------------------------------------
(* appendNode and appendEdge up to the write: one load, one decision.      *)
Readable == tail # "broken"

LogOf(e) == IF e.op = "node" THEN nodes ELSE edges

RecordOf(e, c) ==
  IF e.op = "node" THEN [id |-> e.id, kind |-> e.kind, content |-> c]
  ELSE [id |-> e.id, from |-> e.from, to |-> e.to, content |-> c]

Appending(s) == sess[s].pc = "append" /\ Readable

(* A record of that id with the same bytes: accepted without a write.      *)
Replay(s) ==
  LET e == Head(sess[s].rest)
  IN  /\ Appending(s)
      /\ Has(LogOf(e), e.id)
      /\ \E c \in Contents : First(LogOf(e), e.id) = RecordOf(e, c)
      /\ Advance(s)
      /\ UNCHANGED <<file, faults>>

(* Variant: the phase carries on after an append that was refused.         *)
RejectSwallowed(s) ==
  LET e == Head(sess[s].rest)
  IN  /\ Appending(s)
      /\ IF Has(LogOf(e), e.id)
         THEN \E c \in Contents : First(LogOf(e), e.id) # RecordOf(e, c)
         ELSE e.op = "edge" /\ ~Acceptable(nodes, edges, e)
      /\ Advance(s)
      /\ UNCHANGED <<file, faults>>

(* A record of that id with other bytes, or an edge against the rules: the *)
(* append throws, and with it the phase.                                   *)
Reject(s) ==
  LET e == Head(sess[s].rest)
  IN  /\ Appending(s)
      /\ IF Has(LogOf(e), e.id)
         THEN \E c \in Contents : First(LogOf(e), e.id) # RecordOf(e, c)
         ELSE e.op = "edge" /\ ~Acceptable(nodes, edges, e)
      /\ Abort(s)
      /\ UNCHANGED <<file, faults>>

Admit(s) ==
  LET e == Head(sess[s].rest)
  IN  /\ Appending(s)
      /\ ~Has(LogOf(e), e.id)
      /\ e.op = "edge" => Acceptable(nodes, edges, e)
      /\ \E c \in Contents :
           Become(s, [sess[s] EXCEPT !.pc = "write", !.content = c,
                                     !.seen = Size])
      /\ UNCHANGED <<file, done, faults>>

(* A malformed line: every load throws, whatever it was wanted for.        *)
Unavailable(s) ==
  /\ sess[s].pc \in {"append", "project"}
  /\ ~Readable
  /\ Abort(s)
  /\ UNCHANGED <<file, faults>>

-----------------------------------------------------------------------------
(* appendLine.  A line written after one without its newline joins it, and *)
(* the two are malformed from then on.                                     *)
Recorded(s) ==
  LET e == Head(sess[s].rest)
      r == RecordOf(e, sess[s].content)
  IN  /\ nodes' = IF e.op = "node" THEN Append(nodes, r) ELSE nodes
      /\ edges' = IF e.op = "edge" THEN Append(edges, r) ELSE edges
      /\ raced' = (raced \/ sess[s].seen # Size)

Unrecorded == UNCHANGED <<nodes, edges, raced>>

WholeLine(s) ==
  IF tail = "whole" THEN Recorded(s) /\ UNCHANGED tail
  ELSE Unrecorded /\ tail' = "broken"

PartOfLine(s) ==
  \/ tail = "whole" /\ Recorded(s) /\ tail' = "open"
  \/ Unrecorded /\ tail' = "broken"

Write(s) ==
  /\ sess[s].pc = "write"
  /\ WholeLine(s)
  /\ Advance(s)
  /\ UNCHANGED faults

-----------------------------------------------------------------------------
(* projectEvidence: the graph is loaded once, then the lineage of each     *)
(* terminal is, and the ids are joined.                                    *)
Project(s, T) ==
  /\ sess[s].pc = "idle"
  /\ Readable
  /\ Become(s, [Idle EXCEPT !.pc = "project", !.seen = Size,
                            !.terminals = T, !.todo = T])
  /\ UNCHANGED <<file, done, faults>>

(* loadIntegrityChecked and the lookup of the node.                        *)
Traceable(t) == Has(nodes, t) /\ findCycle(Pairs(edges)) = {}

(* Variant: each lineage replaces the one before.                          *)
LineageOfLast(s) ==
  LET w == sess[s]
  IN  /\ w.pc = "project"
      /\ Readable
      /\ \E t \in w.todo :
           /\ Traceable(t)
           /\ Become(s, [w EXCEPT
                !.pc   = IF w.todo = {t} THEN "projected" ELSE "project",
                !.todo = @ \ {t},
                !.ids  = Ancestors(Pairs(edges), t)])
      /\ UNCHANGED <<file, done, faults>>

Lineage(s) ==
  LET w == sess[s]
  IN  /\ w.pc = "project"
      /\ Readable
      /\ \E t \in w.todo :
           /\ Traceable(t)
           /\ Become(s, [w EXCEPT
                !.pc   = IF w.todo = {t} THEN "projected" ELSE "project",
                !.todo = @ \ {t},
                !.ids  = @ \cup Ancestors(Pairs(edges), t)])
      /\ UNCHANGED <<file, done, faults>>

Untraceable(s) ==
  /\ sess[s].pc = "project"
  /\ Readable
  /\ \E t \in sess[s].todo : ~Traceable(t)
  /\ Abort(s)
  /\ UNCHANGED <<file, faults>>

(* The proposal takes the projected items with it.                         *)
Propose(s) ==
  /\ sess[s].pc = "projected"
  /\ Abort(s)
  /\ UNCHANGED <<file, faults>>

-----------------------------------------------------------------------------
(* A crash in the middle of an append leaves nothing, a part of the line,  *)
(* or all of it.                                                           *)
Crash(s) ==
  /\ faults < MaxFaults
  /\ sess[s].pc # "idle"
  /\ Abort(s)
  /\ \/ UNCHANGED file
     \/ sess[s].pc = "write" /\ (WholeLine(s) \/ PartOfLine(s))
  /\ faults' = faults + 1

(* A read or a write that throws; fsync throws after the line is written.  *)
StoreError(s) ==
  /\ faults < MaxFaults
  /\ sess[s].pc \in {"append", "write", "project"}
  /\ Abort(s)
  /\ \/ UNCHANGED file
     \/ sess[s].pc = "write" /\ WholeLine(s)
  /\ faults' = faults + 1

Step(s) ==
  \/ Replay(s)
  \/ Reject(s)
  \/ Admit(s)
  \/ Unavailable(s)
  \/ Write(s)
  \/ Lineage(s)
  \/ Untraceable(s)
  \/ Propose(s)

Next ==
  \E s \in Sessions :
    \/ \E b \in Batches : Begin(s, b)
    \/ \E T \in Terminals : Project(s, T)
    \/ Step(s)
    \/ Crash(s)
    \/ StoreError(s)

Spec == Init /\ [][Next]_vars

-----------------------------------------------------------------------------
(* Everything is of its type, and a session has what its program counter   *)
(* presupposes: an entry to append, a decision, terminals to trace.        *)
Session ==
  [ pc : {"idle", "append", "write", "project", "projected"},
    batch : Batches \cup {<<>>}, rest : Seq(Entry),
    content : Contents \cup {NoContent},
    seen : [nodes : Nat, edges : Nat],
    terminals : SUBSET NodeIds, todo : SUBSET NodeIds, ids : SUBSET NodeIds ]

Placed(w) ==
  /\ w.pc \in {"append", "write"} => w.rest # <<>> /\ w.batch \in Batches
  /\ w.pc = "write" => w.content \in Contents
  /\ w.pc = "project" => w.todo # {}

TypeOK ==
  /\ nodes \in Seq(Node)
  /\ edges \in Seq(Edge)
  /\ tail \in {"whole", "open", "broken"}
  /\ done \in SUBSET Batches
  /\ sess \in [Sessions -> Session]
  /\ \A s \in Sessions : Placed(sess[s])
  /\ raced \in BOOLEAN
  /\ faults \in 0..MaxFaults

(* Whoever races, and although every append decides on a file that may     *)
(* have grown since: the endpoints of every edge are nodes of the graph, a *)
(* source is never derived from anything and an action never derived from, *)
(* even where an id was recorded twice with different kinds.               *)
EdgesAnchored ==
  \A p \in Pairs(edges) :
    /\ Has(nodes, p[1]) /\ KindOf(nodes, p[1]) # ACTION_NODE
    /\ Has(nodes, p[2]) /\ KindOf(nodes, p[2]) # SOURCE

(* Whoever races: a conclusion some edge leads to goes back to a source or *)
(* a transformation, an action some edge leads to goes back to a conclusion*)
(* that does.  What was grounded when the edge was decided on still is.    *)
CitationsGrounded ==
  \A p \in Pairs(edges) :
    /\ KindOf(nodes, p[2]) = CONCLUSION =>
         conclusionGrounded(nodes, Pairs(edges), p[2])
    /\ KindOf(nodes, p[2]) = ACTION_NODE =>
         actionGrounded(nodes, Pairs(edges), p[2])

(* No nonempty set of nodes all of which have a predecessor in the set.    *)
Acyclic ==
  \A S \in SUBSET NodeIds :
    S # {} => \E x \in S : \A y \in S : <<y, x>> \notin Pairs(edges)

UniqueIds ==
  /\ \A i, j \in DOMAIN nodes : nodes[i].id = nodes[j].id => i = j
  /\ \A i, j \in DOMAIN edges : edges[i].id = edges[j].id => i = j

(* As long as no append has landed on a file that grew after its load, the *)
(* graph has no cycle and no id twice, through every crash and retry: it   *)
(* takes two appends under way at once to make the graph unavailable.      *)
QuietGraphsSound == ~raced => Acyclic /\ UniqueIds

(* A phase that reports its records appended has left every one of them in *)
(* the graph, its own or an identical one, unless the file is malformed.   *)
DoneRecorded ==
  Readable =>
    \A b \in done : \A i \in DOMAIN b : Has(LogOf(b[i]), b[i].id)

(* What a proposal is bound to lies between the evidence there was when    *)
(* the graph was loaded and the evidence there is: appends that fall       *)
(* between the lineages may be in or out, but nothing older is lost.       *)
Evidence(es, T) == UNION {Ancestors(Pairs(es), t) : t \in T}

ProjectionBounded ==
  \A s \in Sessions :
    sess[s].pc = "projected" =>
      LET loaded == SubSeq(edges, 1, sess[s].seen.edges)
      IN  /\ Evidence(loaded, sess[s].terminals) \subseteq sess[s].ids
          /\ sess[s].ids \subseteq Evidence(edges, sess[s].terminals)

(* The items a terminal is hashed over, as the engine is given them: ids   *)
(* with the kind of the node.                                              *)
Items(ns, es, t) ==
  {<<a, KindOf(ns, a)>> : a \in {x \in Ancestors(Pairs(es), t) : Has(ns, x)}}

(* No step takes an item from the evidence of a node or changes its kind,  *)
(* be it an append of an id that is already there: a hash once bound to a  *)
(* node can change by further evidence only.                               *)
EvidenceGrows ==
  [][\A t \in NodeIds : Items(nodes, edges, t) \subseteq Items(nodes, edges, t)']_vars

=============================================================================
