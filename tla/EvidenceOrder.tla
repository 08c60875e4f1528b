---------------------------- MODULE EvidenceOrder ----------------------------
(***************************************************************************)
(* Kahn's algorithm as lib/evidence-graph.ts runs it, with its counters    *)
(* and its queue, for the order of a lineage and for the cycle check.      *)
(* Beside it, what the two are meant to compute.                           *)
(***************************************************************************)
EXTENDS EvidenceGraph, SequencesExt

(* Edges that touch nodes outside V count for nothing.                     *)
Within(es, V) == SelectSeq(es, LAMBDA e : e.from \in V /\ e.to \in V)

adjacency(es, id) ==
  LET out == SelectSeq(es, LAMBDA e : e.from = id)
  IN  [i \in DOMAIN out |-> out[i].to]

(* Variant: the edges that leave a node are counted.                       *)
outgoing(es, V) ==
  [id \in V |-> Cardinality({i \in DOMAIN es : es[i].from = id})]

incoming(es, V) ==
  [id \in V |-> Cardinality({i \in DOMAIN es : es[i].to = id})]

(* Variant: a node is queued with the first edge that leads to it.         *)
DiscountEarly(k, next) ==
  [k EXCEPT !.incoming[next] = @ - 1,
            !.queue = IF next \in k.remaining THEN Append(@, next) ELSE @]

(* One edge out of the current node: count down, and queue at zero.        *)
Discount(k, next) ==
  LET n == k.incoming[next] - 1
  IN  [k EXCEPT !.incoming[next] = n,
                !.queue = IF n = 0 /\ next \in k.remaining
                          THEN Append(@, next) ELSE @]

RECURSIVE Kahn(_, _)
Kahn(es, k) ==
  IF k.queue = <<>> THEN k
  ELSE LET current == Head(k.queue)
           taken == [k EXCEPT !.queue = Tail(@),
                              !.order = Append(@, current),
                              !.remaining = @ \ {current}]
       IN  Kahn(es, FoldLeft(Discount, taken, adjacency(es, current)))

(* The queue starts with the nodes nothing leads to, in a fixed order.     *)
KahnOf(V, es) ==
  LET inner == Within(es, V)
      count == incoming(inner, V)
  IN  Kahn(inner, [ queue     |-> SetToSeq({id \in V : count[id] = 0}),
                    incoming  |-> count,
                    remaining |-> V,
                    order     |-> <<>> ])

topologicalOrder(V, es) == KahnOf(V, es).order

-----------------------------------------------------------------------------
RecordedIds == {id \in NodeIds : Has(nodes, id)}

(* The cycle check finds exactly the nodes on a cycle or behind one, in    *)
(* every graph two racing sessions can leave, with edges recorded twice.   *)
CyclesFound == KahnOf(RecordedIds, edges).remaining = findCycle(Pairs(edges))

(* In a graph that passes the check, the lineage of a node lists each of   *)
(* its ancestors once, and no ancestor before one it is derived from.      *)
LineageOrdered ==
  findCycle(Pairs(edges)) = {} =>
    \A id \in RecordedIds :
      LET V == Ancestors(Pairs(edges), id)
          order == topologicalOrder(V, edges)
      IN  /\ Len(order) = Cardinality(V) /\ ToSet(order) = V
          /\ \A i, j \in DOMAIN order :
               <<order[i], order[j]>> \in Pairs(edges) => i < j
=============================================================================
