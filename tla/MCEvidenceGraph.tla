--------------------------- MODULE MCEvidenceGraph ---------------------------
(* EvidenceGraph on small instances: what the phases append.               *)
EXTENDS EvidenceOrder, TLC

CONSTANTS tra, con, act,  \* node ids
          e1, e2, e3      \* edge ids

NodeOf(id, kind)     == [op |-> "node", id |-> id, kind |-> kind]
EdgeOf(id, from, to) == [op |-> "edge", id |-> id, from |-> from, to |-> to]

(* A line of evidence up to an action, an edge that may close a cycle, and *)
(* ids used for nodes of another kind.                                     *)
BatchesRace ==
  { <<NodeOf(tra, TRANSFORMATION)>>,
    <<NodeOf(con, CONCLUSION), EdgeOf(e1, tra, con),
      NodeOf(act, ACTION_NODE), EdgeOf(e2, con, act)>>,
    <<EdgeOf(e3, con, tra)>>,
    <<NodeOf(tra, CONCLUSION), NodeOf(con, SOURCE)>> }
TerminalsRace == {{con, act}}

SessionSymmetry == Permutations(Sessions)
=============================================================================
