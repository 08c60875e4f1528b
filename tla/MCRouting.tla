------------------------------ MODULE MCRouting ------------------------------
(* Routing on a small instance: the requests a host makes, each axis of a  *)
(* request wrong once, and what injected ports consume.                    *)
EXTENDS Routing

MaxOf(n) == [time |-> n, tokens |-> n, cost |-> n]

Amount(n, research) ==
  [time |-> n, tokens |-> n, cost |-> n, research |-> research, correction |-> 1]

Harmless == [effect |-> "read-only", external |-> "none", duration |-> "immediate",
             duties |-> "not-required", regulated |-> "none"]

(* The request /drenyra:status makes, but for its cost limit.              *)
Good == [ scope |-> "none", forgery |-> "none", foreign |-> FALSE, pinned |-> TRUE,
          family |-> "QUERY", hashesWell |-> TRUE, evidenceThere |-> TRUE,
          tier |-> "R0", declaredTier |-> "R0",
          reversibility |-> "reversible", declaredReversibility |-> "reversible",
          systems |-> <<"available">>, approval |-> "not-required",
          requested |-> Amount(2, 2), policyMax |-> MaxOf(3), unit |-> "well",
          axes |-> Harmless ]

(* /drenyra:status itself asks for no cost at all.                         *)
StatusRequest == [Good EXCEPT !.requested.cost = 0, !.policyMax.cost = 0,
                              !.requested.research = 1]

Faulty ==
  { [Good EXCEPT !.scope = "opaque"], [Good EXCEPT !.scope = "mappable"],
    [Good EXCEPT !.forgery = "unnamed"], [Good EXCEPT !.foreign = TRUE],
    [Good EXCEPT !.pinned = FALSE], [Good EXCEPT !.hashesWell = FALSE],
    [Good EXCEPT !.evidenceThere = FALSE], [Good EXCEPT !.tier = "none"],
    [Good EXCEPT !.declaredTier = "R1"], [Good EXCEPT !.reversibility = "unheard-of"],
    [Good EXCEPT !.declaredReversibility = "irreversible"],
    [Good EXCEPT !.systems = <<"available", "unavailable">>],
    [Good EXCEPT !.systems = <<"unlisted">>], [Good EXCEPT !.systems = <<>>],
    [Good EXCEPT !.approval = "untyped"], [Good EXCEPT !.approval = "required"],
    [Good EXCEPT !.requested.research = 0], [Good EXCEPT !.requested.time = -1],
    [Good EXCEPT !.unit = "hash"], [Good EXCEPT !.unit = "scope"],
    [Good EXCEPT !.axes.effect = "rogue"] }

Delegated == [Good EXCEPT !.axes.external = "bounded", !.requested = Amount(4, 4)]
Ceremony  == [Good EXCEPT !.axes.effect = "core-governed-change", !.approval = "required",
                          !.requested.research = 3]
Beyond    == [Ceremony EXCEPT !.family = "PREPARE_CANDIDATE"]

MCRequests == Faulty \cup {Good, StatusRequest, Delegated, Ceremony, Beyond}

Spends(n, research) == [time |-> n, tokens |-> 0, cost |-> n, research |-> research,
                        correction |-> 0]
MCConsumptions == {Spends(1, 1), Spends(4, 0)}
=============================================================================
