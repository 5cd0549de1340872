-------------------------- MODULE MCAuthorityPlane --------------------------
(***************************************************************************)
(* A payment that two principals of two roles have to approve, proposed by *)
(* a foreign compute context, with evidence of two issuers.                *)
(***************************************************************************)
EXTENDS AuthorityPlane, FinalityCoreRefinement, MCActs, TLC

Foreign ==
  [ provider_id |-> "provider-1", compute_jurisdiction |-> "FOREIGN", workload_id |-> "w",
    model_id |-> "m", runtime_evidence |-> "runtime-ok", session_id |-> "s" ]

\* x2 is of a provider the policy does not allow.
TheContexts == [x1 |-> Foreign, x2 |-> [Foreign EXCEPT !.provider_id = "provider-2"]]

\* r signed with key; r is spelled canonically, so that it is what is signed.
Genuine(key, r) == r @@ [signature |-> [by |-> key, over |-> r]]

EvidenceBy(id, issuer, key) ==
  Genuine(key, [ evidence_id |-> id, evidence_type |-> "gateway", asserted_jurisdiction |-> "EU",
                 issuer |-> issuer, subject |-> "sink", observed_at |-> 0, expires_at |-> 1,
                 trust_class |-> "protected", value_digest |-> "v", key_id |-> key ])

\* e3 is a second item of the first issuer; e4 names the second issuer and is
\* signed by the first; e5 is the genuine item of an issuer nobody trusts.
TheEvidence ==
  [ e1 |-> EvidenceBy("e-1", "issuer-1", "ik-1"),
    e2 |-> EvidenceBy("e-2", "issuer-2", "ik-2"),
    e3 |-> EvidenceBy("e-3", "issuer-1", "ik-1"),
    e4 |-> [EvidenceBy("e-2", "issuer-2", "ik-1") EXCEPT !.key_id = "ik-2"],
    e5 |-> EvidenceBy("e-5", "issuer-3", "ik-3") ]

ApprovalBy(approver, role, key) ==
  Genuine(key, [ approver_id |-> approver, role |-> role, candidate_digest |-> "c1",
                 policy_epoch |-> 7, approved_at |-> 0, expires_at |-> 1, key_id |-> key ])

\* a3 is the first approver's in the second one's role; a4 names the second
\* approver and is signed by the first.
TheApprovals ==
  [ a1 |-> ApprovalBy("approver-1", "treasury", "ak-1"),
    a2 |-> ApprovalBy("approver-2", "auditor", "ak-2"),
    a3 |-> ApprovalBy("approver-1", "auditor", "ak-1"),
    a4 |-> [ApprovalBy("approver-2", "auditor", "ak-1") EXCEPT !.key_id = "ak-2"] ]

TheKeys ==
  ("issuer-1" :> "ik-1") @@ ("issuer-2" :> "ik-2") @@ ("issuer-3" :> "ik-3") @@
  ("approver-1" :> "ak-1") @@ ("approver-2" :> "ak-2")

\* What a client of the plane brings: bundles that differ in order, repetition,
\* completeness, authenticity and trust.
TheEvidenceBundles ==
  {<<"e1", "e2">>, <<"e2", "e1">>, <<"e1", "e3">>, <<"e1", "e4">>, <<"e1", "e5">>}

TheApprovalBundles ==
  {<<"a1", "a2">>, <<"a1", "a4">>, <<"a1", "a2", "a3">>, <<"a3", "a2", "a1">>}

\* bind_governance_context for the compute context x, the evidence e1 and e and the
\* approvals a1 and a: what Bind gives, written out.
BoundTo(act, x, e, a) ==
  [act EXCEPT !.authority_context =
     [ presenter_key_id             |-> "presenter-1",
       compute_context_digest       |-> x,
       jurisdiction_evidence_digest |-> {<<"e1", 1>>, <<e, 1>>},
       approvals_digest             |-> {<<"a1", 1>>, <<a, 1>>},
       compute_provider_id          |-> TheContexts[x].provider_id,
       compute_jurisdiction         |-> "FOREIGN" ]]

\* The payment as proposed; bound to what it needs; bound to a forged approval; an
\* altered payment bound to the approvals of the first; the bound payment with its
\* compute jurisdiction respelled; bound to evidence of an issuer nobody trusts; and
\* proposed by a provider the policy does not allow.
TheActs ==
  [ c1 |-> BaseAct,
    c2 |-> BoundTo(BaseAct, "x1", "e2", "a2"),
    c3 |-> BoundTo(BaseAct, "x1", "e2", "a4"),
    c4 |-> BoundTo([BaseAct EXCEPT !.payload = "amount-9000"], "x1", "e2", "a2"),
    c5 |-> [BoundTo(BaseAct, "x1", "e2", "a2") EXCEPT
              !.authority_context.compute_jurisdiction = "FOREIGN~"],
    c6 |-> BoundTo(BaseAct, "x1", "e5", "a2"),
    c7 |-> BoundTo(BaseAct, "x2", "e2", "a2") ]

Amount(n) == [amount |-> [type |-> "int", value |-> n]]

ThePayloads == ("amount-1000" :> Amount(1000)) @@ ("amount-9000" :> Amount(9000))

TheSovPolicy ==
  [ authority_jurisdiction |-> "EU", policy_epoch |-> 7,
    compute_jurisdictions |-> {"FOREIGN", "EU"}, compute_providers |-> {"provider-1"},
    runtime_evidence |-> "runtime-ok", trusted_issuers |-> {"issuer-1", "issuer-2"},
    evidence_types |-> {}, trust_classes |-> {"protected"},
    min_items |-> 2, min_issuers |-> 2, require_authority_assertion |-> TRUE,
    required_roles |-> {"treasury", "auditor"}, threshold |-> 2, skew |-> 0,
    payload_required |-> {"amount"},
    payload_limits |-> [amount |-> [minimum |-> 1, maximum |-> 9000]],
    payload_values |-> << >> ]

\* The values the configuration gives to the parameters, evaluated once.
MCCompute == TheContexts
MCItem == TheEvidence
MCApproval == TheApprovals
MCVerifierKey == TheKeys
MCEvidenceBundles == TheEvidenceBundles
MCApprovalBundles == TheApprovalBundles
MCPayloadOf == ThePayloads
MCSovPolicy == TheSovPolicy
GovernedActs == TheActs

\* No action and no invariant reads lastDecision: states that differ in nothing
\* else have the same future.
AllButDecision == <<vars, plane>>

TheSinks == [s1 |-> SinkA]
OneSink == TheSinks

\* A store or channel about to fail is a state the plane meets and goes no further
\* from: the runs of the core follow failures up.
NothingFails == ~failCommits /\ ~failNext
=============================================================================
