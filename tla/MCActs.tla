------------------------------- MODULE MCActs -------------------------------
(***************************************************************************)
(* The candidate acts, policy and sinks of the instances TLC checks. A     *)
(* definition a configuration substitutes for a parameter is evaluated at  *)
(* each use; where that costs, it only names one that is evaluated once.   *)
(***************************************************************************)
EXTENDS Integers, Sequences

\* A CandidateAct every check of the policy and of sink-A passes, at times
\* 0 .. freshness.
BaseAct ==
  [ act_id |-> "act", act_class |-> "api-call", effect_class |-> "network-egress",
    source |-> "agent-A", destination |-> "payments", purpose |-> "approved",
    jurisdiction |-> "EU", policy_epoch |-> 7, nonce |-> "nonce-1",
    issued_at |-> 0, freshness |-> 2, sink_id |-> "sink-A",
    boundary_id |-> "boundary-A", scope |-> <<"POST">>, payload |-> "amount-1000",
    runtime_evidence |-> "runtime-ok", authority_context |-> [presenter_key_id |-> "presenter-1"],
    status |-> "NON_EFFECTIVE" ]

\* Strings whose last character is ~ stand for the decomposed spelling.
MCNfc(s) == CASE s = "nonce-1~" -> "nonce-1"
              [] s = "agent-A~" -> "agent-A"
              [] s = "payments~" -> "payments"
              [] s = "amount-1000~" -> "amount-1000"
              [] s = "sink-A~" -> "sink-A"
              [] s = "FOREIGN~" -> "FOREIGN"
              [] OTHER -> s

ThePolicy ==
  [ policy_epoch |-> 7, purposes |-> {"approved"}, jurisdictions |-> {"EU"},
    sinks |-> {"sink-A", "sink-A~", "sink-B"}, boundaries |-> {"boundary-A"},
    effect_classes |-> {"network-egress"}, scopes |-> {"POST", "SEND"},
    revoked_sources |-> {"agent-revoked"}, runtime_evidence |-> "runtime-ok",
    skew |-> 1 ]

MCPolicy == ThePolicy

\* A FinalitySink's configuration.
SinkA ==
  [ sink_id |-> "sink-A", boundary_id |-> "boundary-A", policy_epoch |-> 7,
    supported_scopes |-> {"POST", "SEND"}, effect_class |-> "network-egress",
    key |-> "authority-key", skew |-> 1, require_proof |-> FALSE,
    presentation_freshness |-> 1, store |-> "store-1", signs_receipts |-> TRUE ]
=============================================================================
