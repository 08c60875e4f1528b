--------------------------- MODULE MCChainPipeline ---------------------------
(* ChainPipeline on small instances: the scopes and the inputs of its runs. *)
EXTENDS ChainPipeline, TLC

CONSTANTS low, high, other  \* scope hashes

MCModeOf == [s \in Scopes |->
               CASE s = low -> ASK [] s = high -> EXECUTE_MODE
                 [] s = other -> PREPARE]

Asks(scope, tier, approver, trusted, resume) ==
  [scope |-> scope, tier |-> tier, approver |-> approver,
   trusted |-> trusted, resume |-> resume]

(* Nothing brought along but the tier; an approver and a trusted receipt;  *)
(* the evidence a wait asked for.                                          *)
Bare(scope)     == Asks(scope, "R2", FALSE, FALSE, FALSE)
Approver(scope) == Asks(scope, "R2", TRUE, TRUE, FALSE)
Resumer(scope)  == Asks(scope, "R2", FALSE, FALSE, TRUE)
Full(scope)     == Asks(scope, "R2", TRUE, TRUE, TRUE)

RunsCrash  == {Bare(low), Bare(high), Approver(high), Resumer(high)}
RunsRace   == {Bare(low), Bare(high), Full(high), Full(other)}
RunsOne    == {Bare(low), Bare(high), Full(high)}

SessionSymmetry == Permutations(Sessions)
=============================================================================
