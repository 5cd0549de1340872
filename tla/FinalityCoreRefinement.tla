----------------------- MODULE FinalityCoreRefinement -----------------------
(***************************************************************************)
(* FinalityCore with durable stores implements ExecutionFinality, crashes  *)
(* included: a crash changes nothing the abstract specification sees.      *)
(***************************************************************************)
EXTENDS FinalityCore

Authorised == {cap.capability_id : cap \in issued}

Consumed == UNION {{<<st, id>> : id \in claims[st]} : st \in Stores}

Effective ==
  [i \in DOMAIN effects |-> <<EffectStore(effects[i]), EffectId(effects[i])>>]

Failed == {<<f.store, f.id>> : f \in failures}

Abstract ==
  INSTANCE ExecutionFinality WITH
    authorised <- Authorised, consumed <- Consumed,
    effective <- Effective, failed <- Failed

\* Every step of the authority, the sinks, the stores and the effector, under
\* every interleaving and with crashes, is a step of the abstract life of an
\* act or invisible to it: authority is never consumed before it is issued,
\* never given back, and never turned into a second effect.
ImplementsExecutionFinality == Abstract!AbstractSpec
=============================================================================
