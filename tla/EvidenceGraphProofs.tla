------------------------- MODULE EvidenceGraphProofs -------------------------
(***************************************************************************)
(* What holds of the evidence graph for any number of sessions, nodes,     *)
(* batches and faults.                                                     *)
(***************************************************************************)
EXTENDS EvidenceGraph, TLAPS

-----------------------------------------------------------------------------
(* Types.                                                                  *)

LEMMA IdleOK == Idle \in Session /\ Placed(Idle) /\ Idle.pc = "idle"
  BY FaultsAssumption DEF Idle, Session, Placed, Empty

(* A session that is at work on an entry has one.                          *)
LEMMA EntryOK ==
  ASSUME TypeOK, NEW s \in Sessions, sess[s].pc \in {"append", "write"}
  PROVE  /\ sess[s] \in Session
         /\ sess[s].batch \in Batches
         /\ sess[s].rest \in Seq(Entry) /\ Len(sess[s].rest) \in Nat \ {0}
         /\ Head(sess[s].rest) \in Entry
         /\ Tail(sess[s].rest) \in Seq(Entry)
<1>1. /\ sess[s] \in Session
      /\ sess[s].rest # <<>>
      /\ sess[s].batch \in Batches
  BY DEF TypeOK, Placed
<1>2. sess[s].rest \in Seq(Entry)
  BY <1>1 DEF Session
<1>3. QED
  BY <1>1, <1>2

LEMMA RecordOK ==
  ASSUME NEW e \in Entry, NEW c \in Contents
  PROVE  /\ e.op = "node" => e.id \in NodeIds /\ RecordOf(e, c) \in Node
         /\ e.op # "node" =>
              /\ e.op = "edge" /\ e.id \in EdgeIds
              /\ e.from \in NodeIds /\ e.to \in NodeIds
              /\ RecordOf(e, c) \in Edge
         /\ RecordOf(e, c).id = e.id
  BY DEF Entry, NodeEntry, EdgeEntry, RecordOf, Node, Edge

(* The types of the file survive whatever an append leaves of it.          *)
FileOK ==
  /\ nodes \in Seq(Node) /\ edges \in Seq(Edge)
  /\ tail \in {"whole", "open", "broken"} /\ raced \in BOOLEAN

LEMMA RecordedOK ==
  ASSUME TypeOK, NEW s \in Sessions, sess[s].pc = "write", Recorded(s)
  PROVE  nodes' \in Seq(Node) /\ edges' \in Seq(Edge) /\ raced' \in BOOLEAN
<1> DEFINE e == Head(sess[s].rest)
           r == RecordOf(e, sess[s].content)
<1>1. e \in Entry /\ sess[s].content \in Contents
  BY EntryOK DEF TypeOK, Placed
<1>2. /\ e.op = "node" => r \in Node
      /\ e.op = "edge" => r \in Edge
  BY <1>1, RecordOK
<1>3. nodes' = (IF e.op = "node" THEN Append(nodes, r) ELSE nodes)
      /\ edges' = (IF e.op = "edge" THEN Append(edges, r) ELSE edges)
      /\ raced' = (raced \/ sess[s].seen # Size)
  BY DEF Recorded
<1>4. nodes \in Seq(Node) /\ edges \in Seq(Edge) /\ raced \in BOOLEAN
  BY DEF TypeOK
<1> HIDE DEF e, r
<1>5. nodes' \in Seq(Node)
  BY <1>2, <1>3, <1>4
<1>6. edges' \in Seq(Edge)
  BY <1>2, <1>3, <1>4
<1>7. raced' \in BOOLEAN
  BY <1>3, <1>4
<1>8. QED
  BY <1>5, <1>6, <1>7

LEMMA LineOK ==
  ASSUME TypeOK, NEW s \in Sessions, sess[s].pc = "write",
         WholeLine(s) \/ PartOfLine(s)
  PROVE  FileOK'
<1>1. CASE Recorded(s) /\ tail' \in {"whole", "open"}
  BY <1>1, RecordedOK DEF FileOK
<1>2. CASE Unrecorded /\ tail' = "broken"
  BY <1>2 DEF FileOK, Unrecorded, TypeOK
<1>3. QED
  BY <1>1, <1>2 DEF WholeLine, PartOfLine

(* A session that moves to a state it may be in.                           *)
LEMMA MoveOK ==
  ASSUME TypeOK, NEW s \in Sessions, NEW w \in Session, Placed(w), Become(s, w),
         FileOK', done' \in SUBSET Batches, faults' \in 0..MaxFaults
  PROVE  TypeOK'
<1>1. sess' \in [Sessions -> Session]
  BY DEF TypeOK, Become
<1>2. \A t \in Sessions : Placed(sess'[t])
  BY DEF TypeOK, Become
<1>3. QED
  BY <1>1, <1>2 DEF TypeOK, FileOK

LEMMA AbortOK ==
  ASSUME TypeOK, NEW s \in Sessions, Abort(s), FileOK', faults' \in 0..MaxFaults
  PROVE  TypeOK'
<1>1. done' \in SUBSET Batches
  BY DEF Abort, TypeOK
<1>2. QED
  BY <1>1, IdleOK, MoveOK DEF Abort

LEMMA TailLeft ==
  ASSUME NEW S, NEW q \in Seq(S), Len(q) > 1
  PROVE  Tail(q) # <<>>
<1>1. Len(q) \in Nat
  OBVIOUS
<1>2. \A n \in Nat : n > 1 => n - 1 # 0
  BY SMT
<1>3. Len(Tail(q)) = Len(q) - 1
  OBVIOUS
<1>4. Len(<<>>) = 0
  OBVIOUS
<1>5. QED
  BY <1>1, <1>2, <1>3, <1>4

LEMMA AdvanceOK ==
  ASSUME TypeOK, NEW s \in Sessions, sess[s].pc \in {"append", "write"},
         Advance(s), FileOK', faults' = faults
  PROVE  TypeOK'
<1> DEFINE w == sess[s]
           v == [Idle EXCEPT !.pc = "append", !.batch = w.batch,
                             !.rest = Tail(w.rest)]
<1>1. /\ w.batch \in Batches /\ w.rest \in Seq(Entry)
      /\ Tail(w.rest) \in Seq(Entry)
      /\ faults' \in 0..MaxFaults
  BY EntryOK DEF TypeOK
<1>2. CASE Len(w.rest) > 1
  <2>1. Become(s, v) /\ done' = done
    BY <1>2 DEF Advance
  <2>2. Tail(w.rest) # <<>>
    BY <1>1, <1>2, TailLeft
  <2>3. v \in Session /\ Placed(v)
    BY <1>1, <2>2, IdleOK DEF Session, Placed
  <2> HIDE DEF v
  <2>4. QED
    BY <1>1, <2>1, <2>3, MoveOK DEF TypeOK
<1>3. CASE ~(Len(w.rest) > 1)
  <2>1. Become(s, Idle) /\ done' = done \cup {w.batch}
    BY <1>3 DEF Advance
  <2>2. done' \in SUBSET Batches
    BY <1>1, <2>1 DEF TypeOK
  <2>3. QED
    BY <1>1, <2>1, <2>2, IdleOK, MoveOK
<1>4. QED
  BY <1>2, <1>3

LEMMA TypeInit == Init => TypeOK
<1> SUFFICES ASSUME Init PROVE TypeOK
  OBVIOUS
<1>1. nodes \in Seq(Node) /\ edges \in Seq(Edge)
  BY DEF Init
<1>2. /\ sess \in [Sessions -> Session]
      /\ \A s \in Sessions : Placed(sess[s])
  BY IdleOK DEF Init
<1>3. tail \in {"whole", "open", "broken"} /\ raced \in BOOLEAN
  BY DEF Init
<1>4. done \in SUBSET Batches
  BY DEF Init
<1>5. faults \in 0..MaxFaults
  BY FaultsAssumption DEF Init
<1>6. QED
  BY <1>1, <1>2, <1>3, <1>4, <1>5 DEF TypeOK

LEMMA TypeStep == TypeOK /\ [Next]_vars => TypeOK'
<1> SUFFICES ASSUME TypeOK, [Next]_vars PROVE TypeOK'
  OBVIOUS
<1>file. ASSUME UNCHANGED file PROVE FileOK'
  BY <1>file DEF file, FileOK, TypeOK
<1>faults. ASSUME faults < MaxFaults, faults' = faults + 1
           PROVE  faults' \in 0..MaxFaults
  BY <1>faults, FaultsAssumption DEF TypeOK
<1>1. CASE UNCHANGED vars
  BY <1>1 DEF vars, file, TypeOK
<1>2. ASSUME NEW s \in Sessions, NEW b \in Batches, Begin(s, b)
      PROVE  TypeOK'
  <2> DEFINE v == [Idle EXCEPT !.pc = "append", !.batch = b, !.rest = b]
  <2>1. v \in Session /\ Placed(v)
    BY IdleOK, BatchesAssumption DEF Session, Placed
  <2>2. Become(s, v) /\ FileOK' /\ done' = done /\ faults' = faults
    BY <1>2, <1>file DEF Begin
  <2> HIDE DEF v
  <2>3. QED
    BY <2>1, <2>2, MoveOK DEF TypeOK
<1>3. ASSUME NEW s \in Sessions, NEW T \in Terminals, Project(s, T)
      PROVE  TypeOK'
  <2> DEFINE v == [Idle EXCEPT !.pc = "project", !.seen = Size,
                               !.terminals = T, !.todo = T]
  <2>1. Size \in [nodes : Nat, edges : Nat]
    BY DEF Size, TypeOK
  <2>2. v \in Session /\ Placed(v)
    BY <2>1, IdleOK, TerminalsAssumption DEF Session, Placed
  <2>3. Become(s, v) /\ FileOK' /\ done' = done /\ faults' = faults
    BY <1>3, <1>file DEF Project
  <2> HIDE DEF v
  <2>4. QED
    BY <2>2, <2>3, MoveOK DEF TypeOK
<1>4. ASSUME NEW s \in Sessions, Replay(s)
      PROVE  TypeOK'
  BY <1>4, <1>file, AdvanceOK DEF Replay, Appending
<1>5. ASSUME NEW s \in Sessions, Reject(s) \/ Unavailable(s) \/ Untraceable(s)
                                  \/ Propose(s)
      PROVE  TypeOK'
  <2>1. Abort(s) /\ FileOK' /\ faults' = faults
    BY <1>5, <1>file DEF Reject, Unavailable, Untraceable, Propose
  <2>2. QED
    BY <2>1, AbortOK DEF TypeOK
<1>6. ASSUME NEW s \in Sessions, Admit(s)
      PROVE  TypeOK'
  <2>1. PICK c \in Contents :
          Become(s, [sess[s] EXCEPT !.pc = "write", !.content = c,
                                    !.seen = Size])
    BY <1>6 DEF Admit
  <2> DEFINE v == [sess[s] EXCEPT !.pc = "write", !.content = c, !.seen = Size]
  <2>2. Size \in [nodes : Nat, edges : Nat]
    BY DEF Size, TypeOK
  <2>3. sess[s] \in Session /\ Placed(sess[s]) /\ sess[s].pc = "append"
    BY <1>6 DEF Admit, Appending, TypeOK
  <2>4. v \in Session /\ Placed(v)
    BY <2>2, <2>3 DEF Session, Placed
  <2>5. FileOK' /\ done' = done /\ faults' = faults
    BY <1>6, <1>file DEF Admit
  <2> HIDE DEF v
  <2>6. QED
    BY <2>1, <2>4, <2>5, MoveOK DEF TypeOK, v
<1>7. ASSUME NEW s \in Sessions, Write(s)
      PROVE  TypeOK'
  BY <1>7, LineOK, AdvanceOK DEF Write
<1>8. ASSUME NEW s \in Sessions, Lineage(s)
      PROVE  TypeOK'
  <2> DEFINE w == sess[s]
             v(t) == [w EXCEPT
                        !.pc   = IF w.todo = {t} THEN "projected" ELSE "project",
                        !.todo = @ \ {t},
                        !.ids  = @ \cup Ancestors(Pairs(edges), t)]
  <2>1. PICK t \in w.todo : Become(s, v(t))
    BY <1>8 DEF Lineage
  <2>2. w \in Session
    BY DEF TypeOK
  <2>3. Ancestors(Pairs(edges), t) \subseteq NodeIds
    BY DEF Ancestors
  <2>4. v(t) \in Session /\ Placed(v(t))
    <3> DEFINE left  == w.todo \ {t}
               found == w.ids \cup Ancestors(Pairs(edges), t)
               pc    == IF w.todo = {t} THEN "projected" ELSE "project"
    <3>1. left \in SUBSET NodeIds /\ found \in SUBSET NodeIds
      BY <2>2, <2>3 DEF Session
    <3>2. pc \in {"project", "projected"} /\ (pc = "project" => left # {})
      BY <2>1
    <3>3. v(t) = [w EXCEPT !.pc = pc, !.todo = left, !.ids = found]
      BY <2>2 DEF Session
    <3> HIDE DEF left, found, pc, v
    <3>4. QED
      BY <2>2, <3>1, <3>2, <3>3 DEF Session, Placed
  <2>5. FileOK' /\ done' = done /\ faults' = faults
    BY <1>8, <1>file DEF Lineage
  <2> HIDE DEF v
  <2>6. QED
    BY <2>1, <2>4, <2>5, MoveOK DEF TypeOK
<1>9. ASSUME NEW s \in Sessions, Crash(s) \/ StoreError(s)
      PROVE  TypeOK'
  <2>1. Abort(s) /\ faults' \in 0..MaxFaults
    BY <1>9, <1>faults DEF Crash, StoreError
  <2>2. FileOK'
    BY <1>9, <1>file, LineOK DEF Crash, StoreError
  <2>3. QED
    BY <2>1, <2>2, AbortOK
<1>10. QED
  BY <1>1, <1>2, <1>3, <1>4, <1>5, <1>6, <1>7, <1>8, <1>9 DEF Next, Step

(* Every line of the file is a record of its kind, and every session has   *)
(* what its program counter presupposes, whoever races and whatever fails. *)
THEOREM EvidenceTypeCorrect == Spec => []TypeOK
<1>1. QED
  BY TypeInit, TypeStep, PTL DEF Spec

-----------------------------------------------------------------------------
(* Lookups.  An id keeps the record it is found by when the log grows.     *)

(* Every recorded id has a first record.                                   *)
Leads(log, i) ==
  i \in DOMAIN log /\ \A j \in 1..(i - 1) : log[j].id # log[i].id

Indexed(log) ==
  \A id \in NodeIds :
    Has(log, id) => \E i \in DOMAIN log : log[i].id = id /\ Leads(log, i)

LEMMA FirstIs ==
  ASSUME NEW log \in Seq(Node), NEW i \in DOMAIN log, Leads(log, i)
  PROVE  First(log, log[i].id) = log[i]
<1> DEFINE id == log[i].id
           Q(k) == log[k].id = id /\ \A j \in 1..(k - 1) : log[j].id # id
           k == CHOOSE n \in DOMAIN log : Q(n)
<1>1. Q(i)
  BY DEF Leads
<1>2. k \in DOMAIN log /\ Q(k)
  BY <1>1
<1>3. i \in 1..Len(log) /\ k \in 1..Len(log) /\ Len(log) \in Nat
  BY <1>2
<1> HIDE DEF k
<1>4. ~(k < i)
  <2>1. k < i => k \in 1..(i - 1)
    BY <1>3
  <2>2. QED
    BY <1>1, <1>2, <2>1
<1>5. ~(i < k)
  <2>1. i < k => i \in 1..(k - 1)
    BY <1>3
  <2>2. QED
    BY <1>1, <1>2, <2>1
<1>6. k = i
  BY <1>3, <1>4, <1>5
<1>7. QED
  BY <1>6 DEF First, k

LEMMA AppendLooks ==
  ASSUME NEW log \in Seq(Node), NEW r \in Node
  PROVE  /\ \A i \in DOMAIN log : i \in DOMAIN Append(log, r) /\ Append(log, r)[i] = log[i]
         /\ \A i \in DOMAIN log : Leads(log, i) => Leads(Append(log, r), i)
         /\ DOMAIN Append(log, r) = DOMAIN log \cup {Len(log) + 1}
         /\ Append(log, r)[Len(log) + 1] = r
<1> DEFINE long == Append(log, r)
<1>1. Len(log) \in Nat /\ DOMAIN log = 1..Len(log)
  OBVIOUS
<1>2. DOMAIN long = 1..(Len(log) + 1)
  OBVIOUS
<1>3. DOMAIN long = DOMAIN log \cup {Len(log) + 1}
  BY <1>1, <1>2
<1>4. long[Len(log) + 1] = r
  OBVIOUS
<1>5. \A i \in DOMAIN log : long[i] = log[i]
  BY <1>1
<1>6. ASSUME NEW i \in DOMAIN log, Leads(log, i)
      PROVE  Leads(long, i)
  <2>1. \A j \in 1..(i - 1) : j \in DOMAIN log
    BY <1>1
  <2> HIDE DEF long
  <2>2. QED
    BY <1>3, <1>5, <1>6, <2>1 DEF Leads
<1>7. QED
  BY <1>3, <1>4, <1>5, <1>6

(* The nodes of one log are nodes of the other, of the same kind.          *)
Grown(ns, ns2) ==
  \A id \in NodeIds :
    Has(ns, id) => Has(ns2, id) /\ KindOf(ns2, id) = KindOf(ns, id)

LEMMA AppendGrows ==
  ASSUME NEW log \in Seq(Node), NEW r \in Node, Indexed(log)
  PROVE  Grown(log, Append(log, r)) /\ Indexed(Append(log, r))
<1> DEFINE long == Append(log, r)
<1>1. long \in Seq(Node)
  OBVIOUS
<1>2. /\ \A i \in DOMAIN log : i \in DOMAIN long /\ long[i] = log[i]
      /\ \A i \in DOMAIN log : Leads(log, i) => Leads(long, i)
      /\ DOMAIN long = DOMAIN log \cup {Len(log) + 1}
      /\ long[Len(log) + 1] = r
  BY AppendLooks
<1> HIDE DEF long
<1>3. ASSUME NEW id \in NodeIds, Has(log, id)
      PROVE  /\ Has(long, id) /\ KindOf(long, id) = KindOf(log, id)
             /\ \E i \in DOMAIN long : long[i].id = id /\ Leads(long, i)
  <2>1. PICK i \in DOMAIN log : log[i].id = id /\ Leads(log, i)
    BY <1>3 DEF Indexed
  <2>2. i \in DOMAIN long /\ long[i] = log[i] /\ Leads(long, i)
    BY <1>2, <2>1
  <2>3. First(log, id) = log[i]
    BY <2>1, FirstIs
  <2>4. First(long, id) = log[i]
    BY <1>1, <2>1, <2>2, FirstIs
  <2>5. QED
    BY <2>1, <2>2, <2>3, <2>4 DEF Has, KindOf
<1>4. ASSUME NEW id \in NodeIds, Has(long, id), ~Has(log, id)
      PROVE  \E i \in DOMAIN long : long[i].id = id /\ Leads(long, i)
  <2> DEFINE n == Len(log) + 1
  <2>1. n \in DOMAIN long /\ long[n].id = id
    BY <1>2, <1>4 DEF Has
  <2>2. \A j \in 1..(n - 1) : j \in DOMAIN log
    OBVIOUS
  <2>3. \A j \in 1..(n - 1) : long[j].id # id
    BY <1>2, <1>4, <2>2 DEF Has
  <2> HIDE DEF n
  <2>4. QED
    BY <2>1, <2>3 DEF Leads
<1>5. Indexed(long)
  BY <1>3, <1>4 DEF Indexed
<1>6. Grown(log, long)
  BY <1>3 DEF Grown
<1>7. QED
  BY <1>5, <1>6 DEF long

-----------------------------------------------------------------------------
(* Citations.  What an edge is held to stays true when nodes and edges are *)
(* added.                                                                  *)

LEMMA AncestorsGrow ==
  ASSUME NEW P, NEW Q, P \subseteq Q, NEW id
  PROVE  Ancestors(P, id) \subseteq Ancestors(Q, id)
  BY DEF Ancestors

LEMMA CitationKept ==
  ASSUME NEW ns, NEW ns2, Grown(ns, ns2), NEW P, NEW Q, P \subseteq Q,
         NEW id, conclusionGrounded(ns, P, id)
  PROVE  conclusionGrounded(ns2, Q, id)
<1>1. PICK a \in Ancestors(P, id) :
        Has(ns, a) /\ KindOf(ns, a) \in {SOURCE, TRANSFORMATION}
  BY DEF conclusionGrounded
<1>2. a \in NodeIds
  BY DEF Ancestors
<1>3. a \in Ancestors(Q, id)
  BY AncestorsGrow
<1>4. QED
  BY <1>1, <1>2, <1>3 DEF Grown, conclusionGrounded

LEMMA ActionKept ==
  ASSUME NEW ns, NEW ns2, Grown(ns, ns2), NEW P, NEW Q, P \subseteq Q,
         NEW id, actionGrounded(ns, P, id)
  PROVE  actionGrounded(ns2, Q, id)
<1>1. PICK a \in Ancestors(P, id) :
        Has(ns, a) /\ KindOf(ns, a) = CONCLUSION /\ conclusionGrounded(ns, P, a)
  BY DEF actionGrounded
<1>2. a \in NodeIds
  BY DEF Ancestors
<1>3. a \in Ancestors(Q, id)
  BY AncestorsGrow
<1>4. conclusionGrounded(ns2, Q, a)
  BY <1>1, CitationKept
<1>5. QED
  BY <1>1, <1>2, <1>3, <1>4 DEF Grown, actionGrounded

(* What EdgesAnchored and CitationsGrounded ask of one edge.               *)
Cited(ns, P, from, to) ==
  /\ Has(ns, from) /\ KindOf(ns, from) # ACTION_NODE
  /\ Has(ns, to) /\ KindOf(ns, to) # SOURCE
  /\ KindOf(ns, to) = CONCLUSION => conclusionGrounded(ns, P, to)
  /\ KindOf(ns, to) = ACTION_NODE => actionGrounded(ns, P, to)

LEMMA CitedKept ==
  ASSUME NEW ns, NEW ns2, Grown(ns, ns2), NEW P, NEW Q, P \subseteq Q,
         NEW from \in NodeIds, NEW to \in NodeIds, Cited(ns, P, from, to)
  PROVE  Cited(ns2, Q, from, to)
<1>1. /\ Has(ns2, from) /\ KindOf(ns2, from) = KindOf(ns, from)
      /\ Has(ns2, to) /\ KindOf(ns2, to) = KindOf(ns, to)
  BY DEF Grown, Cited
<1>2. KindOf(ns, to) = CONCLUSION => conclusionGrounded(ns2, Q, to)
  BY CitationKept DEF Cited
<1>3. KindOf(ns, to) = ACTION_NODE => actionGrounded(ns2, Q, to)
  BY ActionKept DEF Cited
<1>4. QED
  BY <1>1, <1>2, <1>3 DEF Cited

LEMMA AppendPairs ==
  ASSUME NEW log \in Seq(Edge), NEW r \in Edge
  PROVE  Pairs(Append(log, r)) = Pairs(log) \cup {<<r.from, r.to>>}
<1> DEFINE long == Append(log, r)
<1>1. DOMAIN long = DOMAIN log \cup {Len(log) + 1}
  OBVIOUS
<1>2. /\ \A i \in DOMAIN log : long[i] = log[i]
      /\ long[Len(log) + 1] = r
  OBVIOUS
<1> HIDE DEF long
<1>3. QED
  BY <1>1, <1>2 DEF Pairs, long

-----------------------------------------------------------------------------
(* Steps.  Either the file stays, or one session that has decided writes   *)
(* its record; and a session comes to write by deciding only.              *)

Pending(t) == sess[t].pc = "write"

(* A step of a session that does not decide on an append.                  *)
Aside(s) ==
  /\ ~Pending(s)'
  /\ \A t \in Sessions : Pending(t)' => sess'[t] = sess[t]

LEMMA AsideIs ==
  ASSUME TypeOK, NEW s \in Sessions, NEW w, w.pc # "write", Become(s, w)
  PROVE  Aside(s)
<1>1. sess'[s] = w /\ \A t \in Sessions : t # s => sess'[t] = sess[t]
  BY DEF TypeOK, Become
<1>2. QED
  BY <1>1 DEF Aside, Pending

LEMMA EndsAside ==
  ASSUME TypeOK, NEW s \in Sessions, Abort(s) \/ Advance(s)
  PROVE  Aside(s)
<1> DEFINE v == [Idle EXCEPT !.pc = "append", !.batch = sess[s].batch,
                             !.rest = Tail(sess[s].rest)]
<1>1. Idle.pc # "write"
  BY IdleOK
<1>2. v.pc # "write"
  BY DEF Idle
<1>3. Become(s, Idle) \/ Become(s, v)
  BY DEF Abort, Advance
<1> HIDE DEF v
<1>4. QED
  BY <1>1, <1>2, <1>3, AsideIs

(* How a step looks to the file and to the sessions.                       *)
Rests == nodes' = nodes /\ edges' = edges /\ raced' = raced

LEMMA StepShape ==
  ASSUME TypeOK, [Next]_vars
  PROVE  \/ Rests /\ \A t \in Sessions : Pending(t)' => sess'[t] = sess[t]
         \/ Rests /\ \E s \in Sessions :
              /\ Admit(s)
              /\ \A t \in Sessions : t # s => sess'[t] = sess[t]
         \/ \E s \in Sessions : Pending(s) /\ Recorded(s) /\ Aside(s)
<1> DEFINE Goal ==
      \/ Rests /\ \A t \in Sessions : Pending(t)' => sess'[t] = sess[t]
      \/ Rests /\ \E s \in Sessions :
           /\ Admit(s)
           /\ \A t \in Sessions : t # s => sess'[t] = sess[t]
      \/ \E s \in Sessions : Pending(s) /\ Recorded(s) /\ Aside(s)
<1>1. CASE UNCHANGED vars
  BY <1>1 DEF vars, file, Rests
<1>2. ASSUME NEW s \in Sessions, UNCHANGED file, Aside(s)
      PROVE  Goal
  BY <1>2 DEF Aside, file, Rests
<1>3. ASSUME NEW s \in Sessions, NEW b \in Batches, Begin(s, b)
      PROVE  Goal
  <2> DEFINE v == [Idle EXCEPT !.pc = "append", !.batch = b, !.rest = b]
  <2>1. v.pc # "write"
    BY DEF Idle
  <2>2. Become(s, v) /\ UNCHANGED file
    BY <1>3 DEF Begin
  <2> HIDE DEF v, Goal
  <2>3. QED
    BY <1>2, <2>1, <2>2, AsideIs
<1>4. ASSUME NEW s \in Sessions, NEW T \in Terminals, Project(s, T)
      PROVE  Goal
  <2> DEFINE v == [Idle EXCEPT !.pc = "project", !.seen = Size,
                               !.terminals = T, !.todo = T]
  <2>1. v.pc # "write"
    BY DEF Idle
  <2>2. Become(s, v) /\ UNCHANGED file
    BY <1>4 DEF Project
  <2> HIDE DEF v, Goal
  <2>3. QED
    BY <1>2, <2>1, <2>2, AsideIs
<1>5. ASSUME NEW s \in Sessions,
             Replay(s) \/ Reject(s) \/ Unavailable(s) \/ Untraceable(s) \/ Propose(s)
      PROVE  Goal
  <2>1. (Abort(s) \/ Advance(s)) /\ UNCHANGED file
    BY <1>5 DEF Replay, Reject, Unavailable, Untraceable, Propose
  <2> HIDE DEF Goal
  <2>2. QED
    BY <1>2, <2>1, EndsAside
<1>6. ASSUME NEW s \in Sessions, Admit(s)
      PROVE  Goal
  <2>1. UNCHANGED file /\ \E w : Become(s, w)
    BY <1>6 DEF Admit
  <2>2. \A t \in Sessions : t # s => sess'[t] = sess[t]
    BY <2>1 DEF Become, TypeOK
  <2>3. QED
    BY <1>6, <2>1, <2>2 DEF file, Rests
<1>7. ASSUME NEW s \in Sessions, Aside(s),
             UNCHANGED file \/ (Pending(s) /\ (WholeLine(s) \/ PartOfLine(s)))
      PROVE  Goal
  <2>1. CASE Pending(s) /\ Recorded(s)
    BY <1>7, <2>1
  <2>2. CASE Unrecorded
    BY <1>7, <2>2 DEF Unrecorded, Aside, Rests
  <2>3. CASE UNCHANGED file
    BY <1>2, <1>7, <2>3
  <2>4. QED
    BY <1>7, <2>1, <2>2, <2>3 DEF WholeLine, PartOfLine
<1>8. ASSUME NEW s \in Sessions, Write(s) \/ Crash(s) \/ StoreError(s)
      PROVE  Goal
  <2>1. Abort(s) \/ Advance(s)
    BY <1>8 DEF Write, Crash, StoreError
  <2>2. Aside(s)
    BY <2>1, EndsAside
  <2>3. UNCHANGED file \/ (Pending(s) /\ (WholeLine(s) \/ PartOfLine(s)))
    BY <1>8 DEF Write, Crash, StoreError, Pending
  <2> HIDE DEF Goal
  <2>4. QED
    BY <1>7, <2>2, <2>3
<1>9. ASSUME NEW s \in Sessions, Lineage(s)
      PROVE  Goal
  <2> DEFINE w == sess[s]
             v(t) == [w EXCEPT
                        !.pc   = IF w.todo = {t} THEN "projected" ELSE "project",
                        !.todo = @ \ {t},
                        !.ids  = @ \cup Ancestors(Pairs(edges), t)]
  <2>1. PICK t \in w.todo : Become(s, v(t))
    BY <1>9 DEF Lineage
  <2>2. w \in Session
    BY DEF TypeOK
  <2>3. v(t).pc # "write"
    BY <2>2 DEF Session
  <2>4. UNCHANGED file
    BY <1>9 DEF Lineage
  <2> HIDE DEF v, Goal
  <2>5. QED
    BY <1>2, <2>1, <2>3, <2>4, AsideIs
<1>10. QED
  BY <1>1, <1>3, <1>4, <1>5, <1>6, <1>8, <1>9 DEF Next, Step

(* The record a session writes.                                            *)
Due(s) == Head(sess[s].rest)

LEMMA RecordedShape ==
  ASSUME TypeOK, NEW s \in Sessions, Pending(s), Recorded(s)
  PROVE  \/ /\ Due(s).op = "node" /\ edges' = edges
            /\ \E r \in Node : r.id = Due(s).id /\ nodes' = Append(nodes, r)
         \/ /\ Due(s).op = "edge" /\ nodes' = nodes
            /\ \E r \in Edge : /\ r.id = Due(s).id
                               /\ r.from = Due(s).from /\ r.to = Due(s).to
                               /\ edges' = Append(edges, r)
<1> DEFINE e == Due(s)
           r == RecordOf(e, sess[s].content)
<1>1. e \in Entry /\ sess[s].content \in Contents
  BY EntryOK DEF TypeOK, Placed, Pending, Due
<1>2. /\ e.op = "node" => r \in Node
      /\ e.op # "node" => e.op = "edge" /\ r \in Edge
      /\ r.id = e.id
  BY <1>1, RecordOK
<1>3. e.op = "edge" => r.from = e.from /\ r.to = e.to
  BY DEF RecordOf
<1>4. /\ nodes' = IF e.op = "node" THEN Append(nodes, r) ELSE nodes
      /\ edges' = IF e.op = "edge" THEN Append(edges, r) ELSE edges
  BY DEF Recorded, Due
<1> HIDE DEF e, r
<1>5. CASE e.op = "node"
  <2>1. nodes' = Append(nodes, r) /\ edges' = edges /\ r \in Node /\ r.id = e.id
    BY <1>2, <1>4, <1>5
  <2>2. QED
    BY <1>5, <2>1 DEF e
<1>6. CASE e.op # "node"
  <2>1. /\ edges' = Append(edges, r) /\ nodes' = nodes /\ e.op = "edge"
        /\ r \in Edge /\ r.id = e.id
    BY <1>2, <1>4, <1>6
  <2>2. QED
    BY <1>3, <2>1 DEF e
<1>7. QED
  BY <1>5, <1>6

-----------------------------------------------------------------------------
(* The evidence only grows.                                                *)

IndexedInv == TypeOK /\ Indexed(nodes)

LEMMA FileGrows ==
  ASSUME IndexedInv, [Next]_vars
  PROVE  /\ Grown(nodes, nodes') /\ Pairs(edges) \subseteq Pairs(edges)'
         /\ IndexedInv'
<1>1. TypeOK'
  BY TypeStep DEF IndexedInv
<1>2. Grown(nodes, nodes)
  BY DEF Grown
<1>3. CASE Rests
  BY <1>1, <1>2, <1>3 DEF Rests, IndexedInv, Indexed, Pairs, Has, Leads
<1>4. ASSUME NEW s \in Sessions, Pending(s), Recorded(s)
      PROVE  Grown(nodes, nodes') /\ Pairs(edges) \subseteq Pairs(edges)'
             /\ Indexed(nodes)'
  <2>1. CASE edges' = edges /\ \E r \in Node : nodes' = Append(nodes, r)
    <3>1. PICK r \in Node : nodes' = Append(nodes, r)
      BY <2>1
    <3>2. Grown(nodes, nodes') /\ Indexed(nodes')
      BY <3>1, AppendGrows DEF IndexedInv, TypeOK
    <3>3. Pairs(edges) \subseteq Pairs(edges')
      BY <2>1
    <3>4. QED
      BY <3>2, <3>3
  <2>2. CASE nodes' = nodes /\ \E r \in Edge : edges' = Append(edges, r)
    <3>1. PICK r \in Edge : edges' = Append(edges, r)
      BY <2>2
    <3>2. Pairs(edges) \subseteq Pairs(edges')
      BY <3>1, AppendPairs DEF IndexedInv, TypeOK
    <3>3. Indexed(nodes')
      BY <2>2 DEF IndexedInv
    <3>4. QED
      BY <1>2, <2>2, <3>2, <3>3
  <2>3. QED
    BY <1>4, <2>1, <2>2, RecordedShape DEF IndexedInv
<1>5. QED
  BY <1>1, <1>3, <1>4, StepShape DEF IndexedInv

LEMMA IndexedInit == Init => IndexedInv
<1> SUFFICES ASSUME Init PROVE IndexedInv
  OBVIOUS
<1>1. TypeOK
  BY TypeInit
<1>2. DOMAIN nodes = {}
  BY DEF Init
<1>3. QED
  BY <1>1, <1>2 DEF IndexedInv, Indexed, Has

LEMMA ItemsGrow ==
  ASSUME NEW ns, NEW ns2, NEW es, NEW es2, Grown(ns, ns2),
         Pairs(es) \subseteq Pairs(es2), NEW t \in NodeIds
  PROVE  Items(ns, es, t) \subseteq Items(ns2, es2, t)
<1>1. Ancestors(Pairs(es), t) \subseteq Ancestors(Pairs(es2), t)
  BY AncestorsGrow
<1>2. ASSUME NEW a \in Ancestors(Pairs(es), t), Has(ns, a)
      PROVE  Has(ns2, a) /\ KindOf(ns2, a) = KindOf(ns, a)
  BY <1>2 DEF Grown, Ancestors
<1>3. QED
  BY <1>1, <1>2 DEF Items

(* However many sessions append, whatever they append and wherever they    *)
(* fail: an evidence item that a node once had it has ever after, of the   *)
(* same kind.                                                              *)
THEOREM EvidenceGrowth == Spec => EvidenceGrows
<1>1. IndexedInv /\ [Next]_vars => IndexedInv'
  BY FileGrows
<1>2. IndexedInv /\ [Next]_vars =>
        [\A t \in NodeIds : Items(nodes, edges, t) \subseteq Items(nodes, edges, t)']_vars
  <2> SUFFICES ASSUME IndexedInv, [Next]_vars, NEW t \in NodeIds
               PROVE  Items(nodes, edges, t) \subseteq Items(nodes, edges, t)'
    OBVIOUS
  <2>1. Grown(nodes, nodes') /\ Pairs(edges) \subseteq Pairs(edges')
    BY FileGrows
  <2>2. Items(nodes, edges, t) \subseteq Items(nodes', edges', t)
    BY <2>1, ItemsGrow
  <2>3. QED
    BY <2>2
<1>3. QED
  BY <1>1, <1>2, IndexedInit, PTL DEF Spec, EvidenceGrows

-----------------------------------------------------------------------------
(* Citations hold whoever races.                                           *)

CitedInv ==
  /\ IndexedInv
  /\ \A i \in DOMAIN edges :
       Cited(nodes, Pairs(edges), edges[i].from, edges[i].to)
  /\ \A s \in Sessions :
       Pending(s) /\ Due(s).op = "edge" =>
         Cited(nodes, Pairs(edges) \cup {<<Due(s).from, Due(s).to>>},
               Due(s).from, Due(s).to)

LEMMA DueOK ==
  ASSUME TypeOK, NEW s \in Sessions, Pending(s), Due(s).op = "edge"
  PROVE  Due(s).from \in NodeIds /\ Due(s).to \in NodeIds
<1>1. Due(s) \in Entry
  BY EntryOK DEF Pending, Due
<1>2. QED
  BY <1>1 DEF Entry, NodeEntry, EdgeEntry

LEMMA CitedStep == CitedInv /\ [Next]_vars => CitedInv'
<1> SUFFICES ASSUME CitedInv, [Next]_vars PROVE CitedInv'
  OBVIOUS
<1>1. /\ Grown(nodes, nodes') /\ Pairs(edges) \subseteq Pairs(edges')
      /\ IndexedInv'
  BY FileGrows DEF CitedInv
<1>2. ASSUME NEW i \in DOMAIN edges
      PROVE  Cited(nodes', Pairs(edges'), edges[i].from, edges[i].to)
  <2>1. edges \in Seq(Edge)
    BY DEF CitedInv, IndexedInv, TypeOK
  <2>2. edges[i] \in Edge
    BY <2>1
  <2>3. edges[i].from \in NodeIds /\ edges[i].to \in NodeIds
    BY <2>2 DEF Edge
  <2>4. QED
    BY <1>1, <2>3, CitedKept DEF CitedInv
<1>3. ASSUME NEW s \in Sessions, Pending(s), Due(s).op = "edge"
      PROVE  Cited(nodes', Pairs(edges') \cup {<<Due(s).from, Due(s).to>>},
                   Due(s).from, Due(s).to)
  <2>1. Due(s).from \in NodeIds /\ Due(s).to \in NodeIds
    BY <1>3, DueOK DEF CitedInv, IndexedInv
  <2>2. Cited(nodes, Pairs(edges) \cup {<<Due(s).from, Due(s).to>>},
              Due(s).from, Due(s).to)
    BY <1>3 DEF CitedInv
  <2>3. Pairs(edges) \cup {<<Due(s).from, Due(s).to>>}
          \subseteq Pairs(edges') \cup {<<Due(s).from, Due(s).to>>}
    BY <1>1
  <2>4. QED
    BY <1>1, <2>1, <2>2, <2>3, CitedKept
<1>4. \A i \in DOMAIN edges' :
        Cited(nodes', Pairs(edges'), edges'[i].from, edges'[i].to)
  <2>1. CASE edges' = edges
    BY <1>2, <2>1
  <2>2. ASSUME NEW s \in Sessions, Pending(s), Due(s).op = "edge",
               nodes' = nodes, NEW r \in Edge,
               r.from = Due(s).from, r.to = Due(s).to, edges' = Append(edges, r)
        PROVE  \A i \in DOMAIN edges' :
                 Cited(nodes', Pairs(edges'), edges'[i].from, edges'[i].to)
    <3>1. edges \in Seq(Edge)
      BY DEF CitedInv, IndexedInv, TypeOK
    <3>2. Pairs(edges') = Pairs(edges) \cup {<<r.from, r.to>>}
      BY <2>2, <3>1, AppendPairs
    <3>3. Cited(nodes', Pairs(edges'), r.from, r.to)
      BY <2>2, <3>2 DEF CitedInv
    <3>4. /\ DOMAIN edges' = DOMAIN edges \cup {Len(edges) + 1}
          /\ \A i \in DOMAIN edges : edges'[i] = edges[i]
          /\ edges'[Len(edges) + 1] = r
      BY <2>2, <3>1
    <3>5. QED
      BY <1>2, <3>3, <3>4
  <2>3. CASE Rests
    BY <2>1, <2>3 DEF Rests
  <2>4. CASE \E s \in Sessions : Pending(s) /\ Recorded(s)
    <3>1. PICK s \in Sessions : Pending(s) /\ Recorded(s)
      BY <2>4
    <3>2. \/ edges' = edges
          \/ /\ Due(s).op = "edge" /\ nodes' = nodes
             /\ \E r \in Edge : /\ r.from = Due(s).from /\ r.to = Due(s).to
                                /\ edges' = Append(edges, r)
      BY <3>1, RecordedShape DEF CitedInv, IndexedInv
    <3>3. QED
      BY <2>1, <2>2, <3>1, <3>2
  <2>5. QED
    BY <2>3, <2>4, StepShape DEF CitedInv, IndexedInv
<1>5. ASSUME NEW t \in Sessions, Pending(t)', (Due(t).op = "edge")'
      PROVE  Cited(nodes, Pairs(edges) \cup {<<Due(t).from, Due(t).to>>},
                   Due(t).from, Due(t).to)'
  <2>1. CASE sess'[t] = sess[t]
    BY <1>3, <1>5, <2>1 DEF Pending, Due
  <2>2. CASE Admit(t) /\ Rests
    <3> DEFINE e == Head(sess[t].rest)
    <3>1. sess[t] \in Session
      BY DEF CitedInv, IndexedInv, TypeOK
    <3>2. PICK c \in Contents :
            Become(t, [sess[t] EXCEPT !.pc = "write", !.content = c, !.seen = Size])
      BY <2>2 DEF Admit
    <3>3. sess'[t] = [sess[t] EXCEPT !.pc = "write", !.content = c, !.seen = Size]
      BY <3>2 DEF Become, CitedInv, IndexedInv, TypeOK
    <3>4. sess'[t].rest = sess[t].rest
      BY <3>1, <3>3 DEF Session
    <3>5. Due(t)' = e
      BY <3>4 DEF Due
    <3>6. Acceptable(nodes, edges, e)
      BY <1>5, <2>2, <3>5 DEF Admit
    <3>7. Cited(nodes, Pairs(edges) \cup {<<e.from, e.to>>}, e.from, e.to)
      BY <3>6 DEF Acceptable, Cited
    <3> HIDE DEF e
    <3>8. QED
      BY <2>2, <3>5, <3>7 DEF Rests
  <2>3. sess'[t] = sess[t] \/ (Admit(t) /\ Rests)
    BY <1>5, StepShape DEF CitedInv, IndexedInv, Aside
  <2>4. QED
    BY <2>1, <2>2, <2>3
<1>6. QED
  BY <1>1, <1>4, <1>5 DEF CitedInv

LEMMA CitedInit == Init => CitedInv
<1> SUFFICES ASSUME Init PROVE CitedInv
  OBVIOUS
<1>1. IndexedInv
  BY IndexedInit
<1>2. DOMAIN edges = {}
  BY DEF Init
<1>3. \A s \in Sessions : ~Pending(s)
  BY IdleOK DEF Init, Pending
<1>4. QED
  BY <1>1, <1>2, <1>3 DEF CitedInv

LEMMA CitedEverywhere == CitedInv => EdgesAnchored /\ CitationsGrounded
<1> SUFFICES ASSUME CitedInv PROVE EdgesAnchored /\ CitationsGrounded
  OBVIOUS
<1>1. ASSUME NEW p \in Pairs(edges)
      PROVE  Cited(nodes, Pairs(edges), p[1], p[2])
  <2>1. PICK i \in DOMAIN edges : p = <<edges[i].from, edges[i].to>>
    BY DEF Pairs
  <2>2. p[1] = edges[i].from /\ p[2] = edges[i].to
    BY <2>1
  <2>3. QED
    BY <2>2 DEF CitedInv
<1>2. QED
  BY <1>1 DEF Cited, EdgesAnchored, CitationsGrounded

(* Both ends of an edge are nodes of the graph, a source has no parents    *)
(* and an action no children, however long before its append the session   *)
(* looked: a node file only grows.                                         *)
THEOREM Anchoring == Spec => []EdgesAnchored
  BY CitedInit, CitedStep, CitedEverywhere, PTL DEF Spec

(* The rules an edge was held to on the graph its session had loaded hold  *)
(* in the graph there is, for ever, however many sessions append to it in  *)
(* the meantime and whatever ids they use again.                           *)
THEOREM Grounding == Spec => []CitationsGrounded
  BY CitedInit, CitedStep, CitedEverywhere, PTL DEF Spec

-----------------------------------------------------------------------------
(* Without a race, what was decided on a graph is written to that graph.   *)

AcyclicPairs(P) ==
  \A S \in SUBSET NodeIds :
    S # {} => \E x \in S : \A y \in S : <<y, x>> \notin P

Unique(log) == \A i, j \in DOMAIN log : log[i].id = log[j].id => i = j

(* An edge whose start is not reached from its end closes no cycle: in a   *)
(* set with predecessors, the part outside what its end reaches would be   *)
(* one already, or else the whole set would.                               *)
LEMMA NoCycle ==
  ASSUME NEW P, AcyclicPairs(P), NEW from \in NodeIds, NEW to \in NodeIds,
         ~createsCycle(P, from, to)
  PROVE  AcyclicPairs(P \cup {<<from, to>>})
<1>1. PICK C \in SUBSET NodeIds :
        /\ to \in C /\ (\A p \in P : p[1] \in C => p[2] \in C)
        /\ from \notin C
  BY DEF createsCycle, Descendants
<1>2. ASSUME NEW x, NEW y, <<y, x>> \in P, y \in C
      PROVE  x \in C
  <2>1. <<y, x>>[1] = y /\ <<y, x>>[2] = x
    OBVIOUS
  <2>2. QED
    BY <1>1, <1>2, <2>1
<1> SUFFICES ASSUME NEW S \in SUBSET NodeIds, S # {},
                    \A x \in S : \E y \in S : <<y, x>> \in P \cup {<<from, to>>}
             PROVE  FALSE
  BY DEF AcyclicPairs
<1>3. \A x \in S \ C : \E y \in S \ C : <<y, x>> \in P
  <2> SUFFICES ASSUME NEW x \in S \ C
               PROVE  \E y \in S \ C : <<y, x>> \in P
    OBVIOUS
  <2>1. PICK y \in S : <<y, x>> \in P \cup {<<from, to>>}
    OBVIOUS
  <2>2. <<y, x>> # <<from, to>>
    BY <1>1
  <2>3. <<y, x>> \in P /\ y \notin C
    BY <1>2, <2>1, <2>2
  <2>4. QED
    BY <2>3
<1>4. S \ C = {}
  BY <1>3 DEF AcyclicPairs
<1>5. \A x \in S : \E y \in S : <<y, x>> \in P
  <2> SUFFICES ASSUME NEW x \in S
               PROVE  \E y \in S : <<y, x>> \in P
    OBVIOUS
  <2>1. PICK y \in S : <<y, x>> \in P \cup {<<from, to>>}
    OBVIOUS
  <2>2. <<y, x>> # <<from, to>>
    BY <1>1, <1>4
  <2>3. QED
    BY <2>1, <2>2
<1>6. QED
  BY <1>5 DEF AcyclicPairs

LEMMA UniqueAppend ==
  ASSUME NEW R, NEW log \in Seq(R), NEW r \in R, Unique(log), ~Has(log, r.id)
  PROVE  Unique(Append(log, r))
<1> DEFINE long == Append(log, r)
<1>1. /\ DOMAIN long = DOMAIN log \cup {Len(log) + 1}
      /\ \A i \in DOMAIN log : long[i] = log[i]
      /\ long[Len(log) + 1] = r
  OBVIOUS
<1> HIDE DEF long
<1>2. QED
  BY <1>1 DEF Unique, Has, long

(* A record that may be written to this graph.                             *)
Fresh(ns, es, e) ==
  IF e.op = "node" THEN ~Has(ns, e.id)
  ELSE ~Has(es, e.id) /\ ~createsCycle(Pairs(es), e.from, e.to)

QuietInv ==
  /\ TypeOK
  /\ ~raced => AcyclicPairs(Pairs(edges)) /\ Unique(nodes) /\ Unique(edges)
  /\ \A s \in Sessions : Pending(s) =>
       /\ sess[s].seen.nodes <= Len(nodes) /\ sess[s].seen.edges <= Len(edges)
       /\ sess[s].seen = Size => Fresh(nodes, edges, Due(s))

LEMMA QuietInit == Init => QuietInv
<1> SUFFICES ASSUME Init PROVE QuietInv
  OBVIOUS
<1>1. TypeOK
  BY TypeInit
<1>2. DOMAIN edges = {} /\ DOMAIN nodes = {}
  BY DEF Init
<1>3. \A s \in Sessions : ~Pending(s)
  BY IdleOK DEF Init, Pending
<1>4. QED
  BY <1>1, <1>2, <1>3 DEF QuietInv, Unique, AcyclicPairs, Pairs

LEMMA QuietStep == QuietInv /\ [Next]_vars => QuietInv'
<1> SUFFICES ASSUME QuietInv, [Next]_vars PROVE QuietInv'
  OBVIOUS
<1>1. TypeOK /\ TypeOK'
  BY TypeStep DEF QuietInv
<1>2. /\ nodes \in Seq(Node) /\ edges \in Seq(Edge)
      /\ Len(nodes) \in Nat /\ Len(edges) \in Nat
  BY <1>1 DEF TypeOK
<1>3. CASE Rests
  <2>1. Size' = Size
    BY <1>3 DEF Rests, Size
  <2>2. ~raced' => AcyclicPairs(Pairs(edges')) /\ Unique(nodes') /\ Unique(edges')
    BY <1>3 DEF Rests, QuietInv
  <2>3. ASSUME NEW t \in Sessions, Pending(t)', sess'[t] = sess[t]
        PROVE  (/\ sess[t].seen.nodes <= Len(nodes)
                /\ sess[t].seen.edges <= Len(edges)
                /\ sess[t].seen = Size => Fresh(nodes, edges, Due(t)))'
    BY <1>3, <2>1, <2>3 DEF Rests, QuietInv, Pending, Due
  <2>4. ASSUME NEW t \in Sessions, Admit(t)
        PROVE  (/\ sess[t].seen.nodes <= Len(nodes)
                /\ sess[t].seen.edges <= Len(edges)
                /\ sess[t].seen = Size => Fresh(nodes, edges, Due(t)))'
    <3> DEFINE e == Head(sess[t].rest)
    <3>1. sess[t] \in Session
      BY <1>1 DEF TypeOK
    <3>2. PICK c \in Contents :
            Become(t, [sess[t] EXCEPT !.pc = "write", !.content = c, !.seen = Size])
      BY <2>4 DEF Admit
    <3>3. sess'[t] = [sess[t] EXCEPT !.pc = "write", !.content = c, !.seen = Size]
      BY <1>1, <3>2 DEF Become, TypeOK
    <3>4. sess'[t].rest = sess[t].rest /\ sess'[t].seen = Size
      BY <3>1, <3>3 DEF Session
    <3>5. Due(t)' = e
      BY <3>4 DEF Due
    <3>6. Fresh(nodes, edges, e)
      <4>1. e \in Entry
        BY <1>1, <2>4, EntryOK DEF Admit, Appending
      <4>2. e.op = "node" \/ e.op = "edge"
        BY <4>1 DEF Entry, NodeEntry, EdgeEntry
      <4>3. ~Has(LogOf(e), e.id) /\ (e.op = "edge" => Acceptable(nodes, edges, e))
        BY <2>4 DEF Admit
      <4> HIDE DEF e
      <4>4. QED
        BY <4>2, <4>3 DEF Fresh, LogOf, Acceptable
    <3> HIDE DEF e
    <3>7. Size.nodes = Len(nodes) /\ Size.edges = Len(edges)
      BY DEF Size
    <3>8. QED
      BY <1>2, <1>3, <3>4, <3>5, <3>6, <3>7 DEF Rests
  <2>5. \A t \in Sessions : Pending(t)' => sess'[t] = sess[t] \/ Admit(t)
    BY <1>1, StepShape DEF Aside
  <2>6. QED
    BY <1>1, <2>2, <2>3, <2>4, <2>5 DEF QuietInv
<1>4. ASSUME NEW s \in Sessions, Pending(s), Recorded(s), Aside(s)
      PROVE  QuietInv'
  <2>1. \/ /\ Due(s).op = "node" /\ edges' = edges
           /\ \E r \in Node : r.id = Due(s).id /\ nodes' = Append(nodes, r)
        \/ /\ Due(s).op = "edge" /\ nodes' = nodes
           /\ \E r \in Edge : /\ r.id = Due(s).id
                              /\ r.from = Due(s).from /\ r.to = Due(s).to
                              /\ edges' = Append(edges, r)
    BY <1>1, <1>4, RecordedShape
  <2>2. raced' = (raced \/ sess[s].seen # Size)
    BY <1>4 DEF Recorded
  <2>3. ASSUME ~raced'
        PROVE  AcyclicPairs(Pairs(edges')) /\ Unique(nodes') /\ Unique(edges')
    <3>1. /\ AcyclicPairs(Pairs(edges)) /\ Unique(nodes) /\ Unique(edges)
          /\ Fresh(nodes, edges, Due(s))
      BY <1>4, <2>2, <2>3 DEF QuietInv
    <3>2. ASSUME Due(s).op = "node", edges' = edges,
                 NEW r \in Node, r.id = Due(s).id, nodes' = Append(nodes, r)
          PROVE  Unique(nodes')
      BY <1>2, <3>1, <3>2, UniqueAppend DEF Fresh
    <3>3. ASSUME Due(s).op = "edge", NEW r \in Edge, r.id = Due(s).id,
                 r.from = Due(s).from, r.to = Due(s).to,
                 edges' = Append(edges, r)
          PROVE  AcyclicPairs(Pairs(edges')) /\ Unique(edges')
      <4>1. ~Has(edges, r.id) /\ ~createsCycle(Pairs(edges), r.from, r.to)
        BY <3>1, <3>3 DEF Fresh
      <4>2. Unique(edges')
        BY <1>2, <3>1, <3>3, <4>1, UniqueAppend
      <4>3. r.from \in NodeIds /\ r.to \in NodeIds
        BY DEF Edge
      <4>4. Pairs(edges') = Pairs(edges) \cup {<<r.from, r.to>>}
        BY <1>2, <3>3, AppendPairs
      <4>5. QED
        BY <3>1, <4>1, <4>2, <4>3, <4>4, NoCycle
    <3>4. QED
      BY <2>1, <3>1, <3>2, <3>3
  <2>4. /\ Len(nodes') \in Nat /\ Len(edges') \in Nat
        /\ Len(nodes) <= Len(nodes') /\ Len(edges) <= Len(edges')
        /\ Len(nodes') = Len(nodes) + 1 \/ Len(edges') = Len(edges) + 1
    BY <1>2, <2>1
  <2>5. ASSUME NEW t \in Sessions, Pending(t)'
        PROVE  (/\ sess[t].seen.nodes <= Len(nodes)
                /\ sess[t].seen.edges <= Len(edges)
                /\ sess[t].seen = Size => Fresh(nodes, edges, Due(t)))'
    <3>1. sess'[t] = sess[t] /\ Pending(t)
      BY <1>4, <2>5 DEF Aside, Pending
    <3>2. sess[t].seen.nodes <= Len(nodes) /\ sess[t].seen.edges <= Len(edges)
      BY <3>1 DEF QuietInv
    <3>3. sess[t].seen.nodes \in Nat /\ sess[t].seen.edges \in Nat
      BY <1>1 DEF TypeOK, Session
    <3>4. /\ sess[t].seen.nodes <= Len(nodes') /\ sess[t].seen.edges <= Len(edges')
          /\ sess[t].seen.nodes # Len(nodes') \/ sess[t].seen.edges # Len(edges')
      BY <1>2, <2>4, <3>2, <3>3
    <3>5. sess'[t].seen # Size'
      BY <3>1, <3>4 DEF Size
    <3>6. QED
      BY <3>1, <3>4, <3>5
  <2>6. QED
    BY <1>1, <2>3, <2>5 DEF QuietInv
<1>5. QED
  BY <1>1, <1>3, <1>4, StepShape

(* For any number of sessions, phases, faults and retries: as long as no   *)
(* append has landed on a file that grew after its load, the graph has no  *)
(* cycle and no id twice.                                                  *)
THEOREM QuietGraphs == Spec => []QuietGraphsSound
<1>1. QuietInv => QuietGraphsSound
  BY DEF QuietInv, QuietGraphsSound, AcyclicPairs, Acyclic, Unique, UniqueIds
<1>2. QED
  BY <1>1, QuietInit, QuietStep, PTL DEF Spec

-----------------------------------------------------------------------------
(* What a phase has behind it is in the graph.                             *)

Kept(ns, es, e) == IF e.op = "node" THEN Has(ns, e.id) ELSE Has(es, e.id)

Behind(w) == Len(w.batch) - Len(w.rest)

Progress(w, ns, es, tl) ==
  /\ Len(w.rest) <= Len(w.batch)
  /\ \A j \in 1..Len(w.rest) : w.rest[j] = w.batch[Behind(w) + j]
  /\ tl # "broken" => \A j \in 1..Behind(w) : Kept(ns, es, w.batch[j])

AtWork(w) == w.pc \in {"append", "write"}

DoneInv ==
  /\ TypeOK
  /\ tail # "broken" =>
       \A b \in done : \A i \in DOMAIN b : Kept(nodes, edges, b[i])
  /\ \A s \in Sessions : AtWork(sess[s]) => Progress(sess[s], nodes, edges, tail)

LEMMA HasAppend ==
  ASSUME NEW R, NEW log \in Seq(R), NEW r \in R, NEW id
  PROVE  Has(Append(log, r), id) <=> Has(log, id) \/ r.id = id
<1> DEFINE long == Append(log, r)
<1>1. /\ DOMAIN long = DOMAIN log \cup {Len(log) + 1}
      /\ \A i \in DOMAIN log : long[i] = log[i]
      /\ long[Len(log) + 1] = r
  OBVIOUS
<1> HIDE DEF long
<1>2. QED
  BY <1>1 DEF Has, long

(* Nothing is lost, and a malformed file stays malformed.                  *)
Growing ==
  /\ \A e \in Entry : Kept(nodes, edges, e) => Kept(nodes', edges', e)
  /\ tail = "broken" => tail' = "broken"

LEMMA RecordedGrows ==
  ASSUME TypeOK, NEW s \in Sessions, Pending(s), Recorded(s)
  PROVE  /\ \A e \in Entry : Kept(nodes, edges, e) => Kept(nodes', edges', e)
         /\ Kept(nodes', edges', Due(s))
<1>1. nodes \in Seq(Node) /\ edges \in Seq(Edge)
  BY DEF TypeOK
<1>2. ASSUME Due(s).op = "node", edges' = edges,
             NEW r \in Node, r.id = Due(s).id, nodes' = Append(nodes, r)
      PROVE  /\ \A e \in Entry : Kept(nodes, edges, e) => Kept(nodes', edges', e)
             /\ Kept(nodes', edges', Due(s))
  BY <1>1, <1>2, HasAppend DEF Kept
<1>3. ASSUME Due(s).op = "edge", nodes' = nodes,
             NEW r \in Edge, r.id = Due(s).id, edges' = Append(edges, r)
      PROVE  /\ \A e \in Entry : Kept(nodes, edges, e) => Kept(nodes', edges', e)
             /\ Kept(nodes', edges', Due(s))
  BY <1>1, <1>3, HasAppend DEF Kept
<1>4. QED
  BY <1>2, <1>3, RecordedShape

LEMMA LineGrows ==
  ASSUME TypeOK, NEW s \in Sessions, Pending(s), WholeLine(s) \/ PartOfLine(s)
  PROVE  Growing
<1>1. CASE Recorded(s) /\ tail = "whole"
  BY <1>1, RecordedGrows DEF Growing
<1>2. CASE Unrecorded /\ tail' = "broken"
  BY <1>2 DEF Growing, Unrecorded
<1>3. QED
  BY <1>1, <1>2 DEF WholeLine, PartOfLine

LEMMA FileGrowing ==
  ASSUME UNCHANGED file
  PROVE  Growing
  BY DEF file, Growing

(* What is known of the sessions and batches at rest survives.             *)
LEMMA ProgressKept ==
  ASSUME DoneInv, Growing, NEW s \in Sessions, AtWork(sess[s])
  PROVE  Progress(sess[s], nodes', edges', tail')
<1> DEFINE w == sess[s]
<1>1. w.batch \in Seq(Entry) /\ w.rest \in Seq(Entry)
  BY EntryOK, BatchesAssumption DEF DoneInv, AtWork
<1>2. Progress(w, nodes, edges, tail)
  BY DEF DoneInv
<1>3. Behind(w) \in Int /\ Behind(w) <= Len(w.batch)
  <2>1. Len(w.batch) \in Nat /\ Len(w.rest) \in Nat
    BY <1>1
  <2>2. \A m, n \in Nat : m - n \in Int /\ m - n <= m
    BY SMT
  <2>3. QED
    BY <2>1, <2>2 DEF Behind
<1>4. \A j \in 1..Behind(w) : w.batch[j] \in Entry
  BY <1>1, <1>3
<1> HIDE DEF w
<1>5. QED
  BY <1>2, <1>4 DEF Progress, Growing, w

LEMMA DoneKept ==
  ASSUME DoneInv, Growing, tail' # "broken", NEW b \in done
  PROVE  \A i \in DOMAIN b : Kept(nodes', edges', b[i])
<1>1. b \in Seq(Entry)
  BY BatchesAssumption DEF DoneInv, TypeOK
<1>2. \A i \in DOMAIN b : b[i] \in Entry
  BY <1>1
<1>3. QED
  BY <1>2 DEF DoneInv, Growing

(* A session at rest, or with the work it had.                             *)
LEMMA DoneMove ==
  ASSUME DoneInv, TypeOK', Growing, NEW s \in Sessions, NEW w, Become(s, w),
         AtWork(w) => Progress(w, nodes', edges', tail'),
         \A b \in done' : tail' # "broken" =>
            b \in done \/ \A i \in DOMAIN b : Kept(nodes', edges', b[i])
  PROVE  DoneInv'
<1>1. sess'[s] = w /\ \A t \in Sessions : t # s => sess'[t] = sess[t]
  BY DEF DoneInv, TypeOK, Become
<1>2. \A t \in Sessions : AtWork(sess'[t]) => Progress(sess'[t], nodes', edges', tail')
  BY <1>1, ProgressKept
<1>3. tail' # "broken" =>
        \A b \in done' : \A i \in DOMAIN b : Kept(nodes', edges', b[i])
  BY DoneKept
<1>4. QED
  BY <1>2, <1>3 DEF DoneInv

LEMMA DoneAbort ==
  ASSUME DoneInv, TypeOK', Growing, NEW s \in Sessions, Abort(s)
  PROVE  DoneInv'
<1>1. ~AtWork(Idle)
  BY IdleOK DEF AtWork
<1>2. Become(s, Idle) /\ done' = done
  BY DEF Abort
<1>3. QED
  BY <1>1, <1>2, DoneMove

LEMMA DoneAdvance ==
  ASSUME DoneInv, TypeOK', Growing, NEW s \in Sessions, AtWork(sess[s]),
         Advance(s), tail' # "broken" => Kept(nodes', edges', Due(s))
  PROVE  DoneInv'
<1> DEFINE w == sess[s]
           v == [Idle EXCEPT !.pc = "append", !.batch = w.batch,
                             !.rest = Tail(w.rest)]
<1>1. /\ w.batch \in Seq(Entry) /\ w.rest \in Seq(Entry)
      /\ Len(w.rest) \in Nat \ {0} /\ Len(w.batch) \in Nat
      /\ Tail(w.rest) \in Seq(Entry)
  BY EntryOK, BatchesAssumption DEF DoneInv, AtWork
<1>2. Progress(w, nodes', edges', tail')
  BY ProgressKept
<1>3. Behind(w) = Len(w.batch) - Len(w.rest) /\ Len(w.rest) <= Len(w.batch)
  BY <1>2 DEF Behind, Progress
<1>4. w.rest[1] = w.batch[Behind(w) + 1] /\ w.rest[1] = Due(s)
  <2>1. w.rest[1] = w.batch[Behind(w) + 1]
    BY <1>1, <1>2 DEF Progress
  <2>2. w.rest[1] = Head(w.rest)
    BY <1>1
  <2>3. QED
    BY <2>1, <2>2 DEF Due
<1>5. tail' # "broken" =>
        \A j \in 1..(Behind(w) + 1) : Kept(nodes', edges', w.batch[j])
  <2> SUFFICES ASSUME tail' # "broken", NEW j \in 1..(Behind(w) + 1)
               PROVE  Kept(nodes', edges', w.batch[j])
    OBVIOUS
  <2>1. CASE j = Behind(w) + 1
    BY <1>4, <2>1
  <2>2. CASE j # Behind(w) + 1
    <3> DEFINE k == Behind(w)
    <3>1. k \in Nat
      <4>1. Len(w.batch) - Len(w.rest) \in Nat
        BY <1>1, <1>3
      <4>2. QED
        BY <1>3, <4>1
    <3> HIDE DEF k
    <3>2. j \in 1..(k + 1) /\ j # k + 1
      BY <2>2 DEF k
    <3>3. j \in 1..k
      BY <3>1, <3>2
    <3>4. QED
      BY <1>2, <3>3 DEF Progress, k
  <2>3. QED
    BY <2>1, <2>2
<1>6. CASE Len(w.rest) > 1
  <2>1. Become(s, v) /\ done' = done
    BY <1>6 DEF Advance
  <2>2. v.batch = w.batch /\ v.rest = Tail(w.rest)
    BY DEF Idle
  <2>3. Len(Tail(w.rest)) = Len(w.rest) - 1
    BY <1>1
  <2>4. Behind(v) = Behind(w) + 1
    <3>1. \A m, n \in Nat : m - (n - 1) = (m - n) + 1
      BY SMT
    <3>2. Behind(v) = Len(w.batch) - (Len(w.rest) - 1)
      BY <2>2, <2>3 DEF Behind
    <3>3. QED
      BY <1>1, <3>1, <3>2 DEF Behind
  <2>5. \A j \in 1..Len(v.rest) : v.rest[j] = w.rest[j + 1]
    BY <1>1, <2>2, <2>3
  <2>6. \A j \in 1..Len(v.rest) : v.rest[j] = v.batch[Behind(v) + j]
    <3> SUFFICES ASSUME NEW j \in 1..Len(v.rest)
                 PROVE  v.rest[j] = v.batch[Behind(v) + j]
      OBVIOUS
    <3>1. j \in Nat /\ j + 1 \in 1..Len(w.rest)
      BY <1>1, <2>2, <2>3
    <3>2. w.rest[j + 1] = w.batch[Behind(w) + (j + 1)]
      BY <1>2, <3>1 DEF Progress
    <3>3. Behind(w) + (j + 1) = Behind(v) + j
      <4>1. Behind(w) \in Int
        BY <1>1, <1>3
      <4>2. \A a \in Int : \A i \in Nat : a + (i + 1) = (a + 1) + i
        BY SMT
      <4>3. QED
        BY <2>4, <3>1, <4>1, <4>2
    <3>4. QED
      BY <2>2, <2>5, <3>2, <3>3
  <2>7. Len(v.rest) <= Len(v.batch)
    BY <1>1, <1>3, <2>2, <2>3
  <2>8. Progress(v, nodes', edges', tail')
    BY <1>5, <2>2, <2>4, <2>6, <2>7 DEF Progress
  <2> HIDE DEF v
  <2>9. QED
    BY <2>1, <2>8, DoneMove
<1>7. CASE ~(Len(w.rest) > 1)
  <2>1. Become(s, Idle) /\ done' = done \cup {w.batch}
    BY <1>7 DEF Advance
  <2>2. Behind(w) + 1 = Len(w.batch)
    <3>1. \A m, n \in Nat : n # 0 /\ ~(n > 1) => (m - n) + 1 = m
      BY SMT
    <3>2. QED
      BY <1>1, <1>3, <1>7, <3>1
  <2>3. tail' # "broken" =>
          \A i \in DOMAIN w.batch : Kept(nodes', edges', w.batch[i])
    BY <1>1, <1>5, <2>2
  <2>4. ~AtWork(Idle)
    BY IdleOK DEF AtWork
  <2> HIDE DEF w
  <2>5. QED
    BY <2>1, <2>3, <2>4, DoneMove
<1>8. QED
  BY <1>6, <1>7

LEMMA DoneInit == Init => DoneInv
<1> SUFFICES ASSUME Init PROVE DoneInv
  OBVIOUS
<1>1. TypeOK
  BY TypeInit
<1>2. done = {} /\ \A s \in Sessions : ~AtWork(sess[s])
  BY IdleOK DEF Init, AtWork
<1>3. QED
  BY <1>1, <1>2 DEF DoneInv

LEMMA DoneStep == DoneInv /\ [Next]_vars => DoneInv'
<1> SUFFICES ASSUME DoneInv, [Next]_vars PROVE DoneInv'
  OBVIOUS
<1>0. TypeOK /\ TypeOK'
  BY TypeStep DEF DoneInv
<1>1. CASE UNCHANGED vars
  <2>1. /\ nodes' = nodes /\ edges' = edges /\ tail' = tail
        /\ done' = done /\ sess' = sess
    BY <1>1 DEF vars, file
  <2>2. QED
    BY <1>0, <2>1 DEF DoneInv
<1>2. ASSUME NEW s \in Sessions, NEW b \in Batches, Begin(s, b)
      PROVE  DoneInv'
  <2> DEFINE v == [Idle EXCEPT !.pc = "append", !.batch = b, !.rest = b]
  <2>1. v.batch = b /\ v.rest = b
    BY DEF Idle
  <2>2. Len(b) \in Nat
    BY BatchesAssumption
  <2>3. Behind(v) = 0
    <3>1. \A n \in Nat : n - n = 0
      BY SMT
    <3>2. QED
      BY <2>1, <2>2, <3>1 DEF Behind
  <2>4. \A j \in 1..Len(b) : b[j] = b[0 + j]
    BY <2>2
  <2>5. Len(v.rest) <= Len(v.batch)
    BY <2>1, <2>2
  <2>6. 1..0 = {}
    BY SMT
  <2>7. Progress(v, nodes', edges', tail')
    BY <2>1, <2>3, <2>4, <2>5, <2>6 DEF Progress
  <2>8. Become(s, v) /\ done' = done /\ Growing
    BY <1>2, FileGrowing DEF Begin
  <2> HIDE DEF v
  <2>9. QED
    BY <1>0, <2>7, <2>8, DoneMove
<1>3. ASSUME NEW s \in Sessions, NEW T \in Terminals, Project(s, T)
      PROVE  DoneInv'
  <2> DEFINE v == [Idle EXCEPT !.pc = "project", !.seen = Size,
                               !.terminals = T, !.todo = T]
  <2>1. ~AtWork(v)
    BY DEF Idle, AtWork
  <2>2. Become(s, v) /\ done' = done /\ Growing
    BY <1>3, FileGrowing DEF Project
  <2> HIDE DEF v
  <2>3. QED
    BY <1>0, <2>1, <2>2, DoneMove
<1>4. ASSUME NEW s \in Sessions, Replay(s)
      PROVE  DoneInv'
  <2>1. Growing /\ Advance(s) /\ AtWork(sess[s]) /\ nodes' = nodes /\ edges' = edges
    BY <1>4, FileGrowing DEF Replay, Appending, AtWork, file
  <2>2. Kept(nodes, edges, Due(s))
    BY <1>4 DEF Replay, LogOf, Kept, Due
  <2>3. QED
    BY <1>0, <2>1, <2>2, DoneAdvance
<1>5. ASSUME NEW s \in Sessions,
             Reject(s) \/ Unavailable(s) \/ Untraceable(s) \/ Propose(s)
      PROVE  DoneInv'
  <2>1. Abort(s) /\ Growing
    BY <1>5, FileGrowing DEF Reject, Unavailable, Untraceable, Propose
  <2>2. QED
    BY <1>0, <2>1, DoneAbort
<1>6. ASSUME NEW s \in Sessions, Admit(s)
      PROVE  DoneInv'
  <2>1. PICK c \in Contents :
          Become(s, [sess[s] EXCEPT !.pc = "write", !.content = c,
                                    !.seen = Size])
    BY <1>6 DEF Admit
  <2> DEFINE w == sess[s]
             v == [w EXCEPT !.pc = "write", !.content = c, !.seen = Size]
  <2>2. w \in Session /\ AtWork(w)
    BY <1>0, <1>6 DEF Admit, Appending, AtWork, TypeOK
  <2>3. v.batch = w.batch /\ v.rest = w.rest
    BY <2>2 DEF Session
  <2>4. Growing /\ done' = done
    BY <1>6, FileGrowing DEF Admit
  <2>5. Progress(w, nodes', edges', tail')
    BY <2>2, <2>4, ProgressKept
  <2>6. Become(s, v)
    BY <2>1
  <2> HIDE DEF v, w
  <2>7. Progress(v, nodes', edges', tail')
    BY <2>3, <2>5 DEF Progress, Behind
  <2>8. QED
    BY <1>0, <2>4, <2>6, <2>7, DoneMove
<1>7. ASSUME NEW s \in Sessions, Write(s)
      PROVE  DoneInv'
  <2>1. Growing /\ Advance(s) /\ AtWork(sess[s])
    BY <1>0, <1>7, LineGrows DEF Write, AtWork, Pending
  <2>2. tail' # "broken" => Kept(nodes', edges', Due(s))
    BY <1>0, <1>7, RecordedGrows DEF Write, WholeLine, Pending
  <2>3. QED
    BY <1>0, <2>1, <2>2, DoneAdvance
<1>8. ASSUME NEW s \in Sessions, Lineage(s)
      PROVE  DoneInv'
  <2> DEFINE w == sess[s]
             v(t) == [w EXCEPT
                        !.pc   = IF w.todo = {t} THEN "projected" ELSE "project",
                        !.todo = @ \ {t},
                        !.ids  = @ \cup Ancestors(Pairs(edges), t)]
  <2>1. PICK t \in w.todo : Become(s, v(t))
    BY <1>8 DEF Lineage
  <2>2. w \in Session
    BY <1>0 DEF TypeOK
  <2>3. ~AtWork(v(t))
    BY <2>2 DEF Session, AtWork
  <2>4. Growing /\ done' = done
    BY <1>8, FileGrowing DEF Lineage
  <2> HIDE DEF v
  <2>5. QED
    BY <1>0, <2>1, <2>3, <2>4, DoneMove
<1>9. ASSUME NEW s \in Sessions, Crash(s) \/ StoreError(s)
      PROVE  DoneInv'
  <2>1. Abort(s)
    BY <1>9 DEF Crash, StoreError
  <2>2. Growing
    BY <1>0, <1>9, FileGrowing, LineGrows DEF Crash, StoreError, Pending
  <2>3. QED
    BY <1>0, <2>1, <2>2, DoneAbort
<1>10. QED
  BY <1>1, <1>2, <1>3, <1>4, <1>5, <1>6, <1>7, <1>8, <1>9 DEF Next, Step

(* A phase that reports its records appended has left each of them in the  *)
(* graph, its own or an identical one, unless the file is malformed,       *)
(* through every interleaving, crash and retry.                            *)
THEOREM PhasesRecorded == Spec => []DoneRecorded
<1>1. DoneInv => DoneRecorded
  BY DEF DoneInv, DoneRecorded, Readable, Kept, LogOf
<1>2. QED
  BY <1>1, DoneInit, DoneStep, PTL DEF Spec

-----------------------------------------------------------------------------
(* What a proposal is bound to.                                            *)

(* One log begins with the other.                                          *)
Extends(es2, es) ==
  /\ Len(es) <= Len(es2)
  /\ \A i \in DOMAIN es : i \in DOMAIN es2 /\ es2[i] = es[i]

Prefix(es, n) == Pairs(SubSeq(es, 1, n))

LEMMA PrefixPairs ==
  ASSUME NEW es \in Seq(Edge), NEW n \in Nat, n <= Len(es)
  PROVE  Prefix(es, n) = {<<es[i].from, es[i].to>> : i \in 1..n}
<1> DEFINE part == SubSeq(es, 1, n)
<1>1. Len(es) \in Nat
  OBVIOUS
<1>2. DOMAIN part = 1..n
  BY <1>1
<1>3. \A i \in 1..n : part[i] = es[i]
  BY <1>1
<1> HIDE DEF part
<1>4. QED
  BY <1>2, <1>3 DEF Prefix, Pairs, part

LEMMA EdgesExtended ==
  ASSUME TypeOK, [Next]_vars
  PROVE  Extends(edges', edges)
<1>1. edges \in Seq(Edge) /\ Len(edges) \in Nat
  BY DEF TypeOK
<1>2. CASE edges' = edges
  BY <1>1, <1>2 DEF Extends
<1>3. ASSUME NEW r \in Edge, edges' = Append(edges, r)
      PROVE  Extends(edges', edges)
  <2>1. /\ Len(edges') = Len(edges) + 1
        /\ DOMAIN edges' = DOMAIN edges \cup {Len(edges) + 1}
        /\ \A i \in DOMAIN edges : edges'[i] = edges[i]
    BY <1>1, <1>3
  <2>2. QED
    BY <1>1, <2>1 DEF Extends
<1>4. QED
  BY <1>2, <1>3, StepShape, RecordedShape DEF Rests

Tracing(w) == w.pc \in {"project", "projected"}

(* Terminals traced so far, and what they were found to go back to.        *)
Traced(w, es) ==
  /\ w.seen.edges <= Len(es)
  /\ w.todo \subseteq w.terminals
  /\ w.pc = "projected" => w.todo = {}
  /\ \A t \in w.terminals \ w.todo : Ancestors(Prefix(es, w.seen.edges), t) \subseteq w.ids
  /\ w.ids \subseteq Evidence(es, w.terminals)

LEMMA TracedKept ==
  ASSUME NEW es \in Seq(Edge), NEW es2 \in Seq(Edge), Extends(es2, es),
         NEW w \in Session, Traced(w, es)
  PROVE  Traced(w, es2)
<1> DEFINE n == w.seen.edges
<1>1. n \in Nat /\ n <= Len(es) /\ Len(es) \in Nat /\ Len(es2) \in Nat
  BY DEF Session, Traced
<1>2. n <= Len(es2)
  BY <1>1 DEF Extends
<1>3. \A i \in 1..n : es2[i] = es[i]
  BY <1>1 DEF Extends
<1>4. Prefix(es2, n) = Prefix(es, n)
  <2>1. Prefix(es, n) = {<<es[i].from, es[i].to>> : i \in 1..n}
    BY <1>1, PrefixPairs
  <2>2. Prefix(es2, n) = {<<es2[i].from, es2[i].to>> : i \in 1..n}
    BY <1>1, <1>2, PrefixPairs
  <2> HIDE DEF n
  <2>3. QED
    BY <1>3, <2>1, <2>2
<1>5. Pairs(es) \subseteq Pairs(es2)
  BY DEF Pairs, Extends
<1>6. Evidence(es, w.terminals) \subseteq Evidence(es2, w.terminals)
  BY <1>5, AncestorsGrow DEF Evidence
<1>7. QED
  BY <1>2, <1>4, <1>6 DEF Traced

ProjectInv ==
  /\ TypeOK
  /\ \A s \in Sessions : Tracing(sess[s]) => Traced(sess[s], edges)

LEMMA ProjectMove ==
  ASSUME ProjectInv, TypeOK', Extends(edges', edges),
         NEW s \in Sessions, NEW w, Become(s, w),
         Tracing(w) => Traced(w, edges')
  PROVE  ProjectInv'
<1>1. sess'[s] = w /\ \A t \in Sessions : t # s => sess'[t] = sess[t]
  BY DEF ProjectInv, TypeOK, Become
<1>2. \A t \in Sessions : Tracing(sess[t]) => Traced(sess[t], edges')
  BY TracedKept DEF ProjectInv, TypeOK
<1>3. QED
  BY <1>1, <1>2 DEF ProjectInv

LEMMA ProjectInit == Init => ProjectInv
<1> SUFFICES ASSUME Init PROVE ProjectInv
  OBVIOUS
<1>1. \A s \in Sessions : ~Tracing(sess[s])
  BY IdleOK DEF Init, Tracing
<1>2. QED
  BY <1>1, TypeInit DEF ProjectInv

LEMMA ProjectStep == ProjectInv /\ [Next]_vars => ProjectInv'
<1> SUFFICES ASSUME ProjectInv, [Next]_vars PROVE ProjectInv'
  OBVIOUS
<1>0. TypeOK /\ TypeOK' /\ Extends(edges', edges)
  BY TypeStep, EdgesExtended DEF ProjectInv
<1>edges. edges \in Seq(Edge) /\ Len(edges) \in Nat
  BY <1>0 DEF TypeOK
<1>1. CASE UNCHANGED vars
  <2>1. edges' = edges /\ sess' = sess
    BY <1>1 DEF vars, file
  <2>2. QED
    BY <1>0, <2>1 DEF ProjectInv
<1>2. ASSUME NEW s \in Sessions, NEW b \in Batches, Begin(s, b)
      PROVE  ProjectInv'
  <2> DEFINE v == [Idle EXCEPT !.pc = "append", !.batch = b, !.rest = b]
  <2>1. ~Tracing(v)
    BY DEF Idle, Tracing
  <2>2. Become(s, v)
    BY <1>2 DEF Begin
  <2> HIDE DEF v
  <2>3. QED
    BY <1>0, <2>1, <2>2, ProjectMove
<1>3. ASSUME NEW s \in Sessions, NEW T \in Terminals, Project(s, T)
      PROVE  ProjectInv'
  <2> DEFINE v == [Idle EXCEPT !.pc = "project", !.seen = Size,
                               !.terminals = T, !.todo = T]
  <2>1. /\ v.pc = "project" /\ v.seen.edges = Len(edges)
        /\ v.terminals = T /\ v.todo = T /\ v.ids = {}
    BY DEF Idle, Size
  <2>2. Become(s, v) /\ edges' = edges
    BY <1>3 DEF Project, file
  <2> HIDE DEF v
  <2>3. Traced(v, edges')
    BY <1>edges, <2>1, <2>2 DEF Traced
  <2>4. QED
    BY <1>0, <2>2, <2>3, ProjectMove
<1>4. ASSUME NEW s \in Sessions, Abort(s) \/ Advance(s)
      PROVE  ProjectInv'
  <2> DEFINE v == [Idle EXCEPT !.pc = "append", !.batch = sess[s].batch,
                               !.rest = Tail(sess[s].rest)]
  <2>1. ~Tracing(Idle) /\ ~Tracing(v)
    BY DEF Idle, Tracing
  <2>2. Become(s, Idle) \/ Become(s, v)
    BY <1>4 DEF Abort, Advance
  <2> HIDE DEF v
  <2>3. QED
    BY <1>0, <2>1, <2>2, ProjectMove
<1>5. ASSUME NEW s \in Sessions, Admit(s)
      PROVE  ProjectInv'
  <2>1. PICK c \in Contents :
          Become(s, [sess[s] EXCEPT !.pc = "write", !.content = c,
                                    !.seen = Size])
    BY <1>5 DEF Admit
  <2> DEFINE v == [sess[s] EXCEPT !.pc = "write", !.content = c, !.seen = Size]
  <2>2. sess[s] \in Session
    BY <1>0 DEF TypeOK
  <2>3. ~Tracing(v)
    BY <2>2 DEF Session, Tracing
  <2>4. Become(s, v)
    BY <2>1
  <2> HIDE DEF v
  <2>5. QED
    BY <1>0, <2>3, <2>4, ProjectMove
<1>6. ASSUME NEW s \in Sessions, Lineage(s)
      PROVE  ProjectInv'
  <2> DEFINE w == sess[s]
             found(t) == Ancestors(Pairs(edges), t)
             v(t) == [w EXCEPT
                        !.pc   = IF w.todo = {t} THEN "projected" ELSE "project",
                        !.todo = @ \ {t},
                        !.ids  = @ \cup found(t)]
  <2>1. PICK t \in w.todo : Become(s, v(t))
    BY <1>6 DEF Lineage
  <2>2. w \in Session /\ Tracing(w)
    BY <1>0, <1>6 DEF TypeOK, Lineage, Tracing
  <2>3. Traced(w, edges)
    BY <2>2 DEF ProjectInv
  <2>4. edges' = edges
    BY <1>6 DEF Lineage, file
  <2>5. /\ v(t).pc = "projected" => w.todo = {t}
        /\ v(t).todo = w.todo \ {t} /\ v(t).ids = w.ids \cup found(t)
        /\ v(t).seen = w.seen /\ v(t).terminals = w.terminals
    BY <2>2 DEF Session
  <2>6. Prefix(edges, w.seen.edges) \subseteq Pairs(edges)
    <3>1. w.seen.edges \in Nat /\ w.seen.edges <= Len(edges)
      BY <2>2, <2>3 DEF Session, Traced
    <3>2. Prefix(edges, w.seen.edges)
            = {<<edges[i].from, edges[i].to>> : i \in 1..w.seen.edges}
      BY <1>edges, <3>1, PrefixPairs
    <3>3. \A i \in 1..w.seen.edges : i \in DOMAIN edges
      BY <1>edges, <3>1
    <3>4. QED
      BY <3>2, <3>3 DEF Pairs
  <2>7. Ancestors(Prefix(edges, w.seen.edges), t) \subseteq found(t)
    BY <2>6, AncestorsGrow
  <2>8. found(t) \subseteq Evidence(edges, w.terminals)
    BY <2>1, <2>3 DEF Evidence, Traced
  <2> HIDE DEF v, w, found
  <2>9. Traced(v(t), edges)
    <3>1. \A u \in v(t).terminals \ v(t).todo :
            Ancestors(Prefix(edges, v(t).seen.edges), u) \subseteq v(t).ids
      BY <2>3, <2>5, <2>7 DEF Traced
    <3>2. v(t).ids \subseteq Evidence(edges, v(t).terminals)
      BY <2>3, <2>5, <2>8 DEF Traced
    <3>3. QED
      BY <2>3, <2>5, <3>1, <3>2 DEF Traced
  <2>10. QED
    BY <1>0, <2>1, <2>4, <2>9, ProjectMove
<1>7. QED
  BY <1>1, <1>2, <1>3, <1>4, <1>5, <1>6
  DEF Next, Step, Replay, Reject, Unavailable, Write, Untraceable, Propose,
      Crash, StoreError

(* A proposal is bound to evidence between what there was when the graph   *)
(* was loaded and what there is, whatever is appended while its terminals  *)
(* are traced one by one.                                                  *)
THEOREM Projections == Spec => []ProjectionBounded
<1>1. ProjectInv => ProjectionBounded
  <2> SUFFICES ASSUME ProjectInv, NEW s \in Sessions, sess[s].pc = "projected"
               PROVE  LET loaded == SubSeq(edges, 1, sess[s].seen.edges)
                      IN  /\ Evidence(loaded, sess[s].terminals) \subseteq sess[s].ids
                          /\ sess[s].ids \subseteq Evidence(edges, sess[s].terminals)
    BY DEF ProjectionBounded
  <2>1. Traced(sess[s], edges) /\ sess[s].todo = {}
    BY DEF ProjectInv, Tracing, Traced
  <2>2. QED
    BY <2>1 DEF Traced, Evidence, Prefix
<1>2. QED
  BY <1>1, ProjectInit, ProjectStep, PTL DEF Spec
=============================================================================
