----------------------------- MODULE Governance -----------------------------
(***************************************************************************)
(* The governance inputs of an authorization and the verdict over them     *)
(* (sovereignty_ref: models.py, policy.py, verification.py, and the        *)
(* binding of authority_plane.py): the compute context that proposes an    *)
(* act, bundles of jurisdiction evidence, bundles of approvals.            *)
(*                                                                         *)
(* Compute contexts, evidence and approvals are model values; Compute,     *)
(* Item and Approval give their records.                                   *)
(***************************************************************************)
EXTENDS FinalityData

CONSTANTS
  ComputeContexts, \* the ComputeContext objects
  Compute,         \* [ComputeContexts -> ComputeContext record]
  EvidenceItems,   \* the JurisdictionEvidence objects
  Item,            \* [EvidenceItems -> JurisdictionEvidence record]
  Approvals,       \* the Approval objects
  Approval,        \* [Approvals -> Approval record]
  PayloadOf,       \* payload -> its fields, or NoObject
  NoObject,        \* a payload that is not an object
  SovPolicy,       \* the SovereigntyPolicy record
  NoLimit,         \* None: an allow-list, or a field, that is not there
  VerifierKey      \* PrincipalVerifierRegistry: principal -> its key

ASSUME ThresholdIsANumber == SovPolicy.threshold \in Int

-----------------------------------------------------------------------------
(* Digests *)

GovernanceTexts ==
  {"provider_id", "compute_jurisdiction", "workload_id", "model_id", "session_id",
   "runtime_evidence", "evidence_id", "evidence_type", "asserted_jurisdiction",
   "issuer", "subject", "trust_class", "approver_id", "role"}

\* The canonical form of a governance record.
GovernanceForm(r) ==
  [f \in DOMAIN r |-> IF f \in GovernanceTexts THEN Nfc(r[f]) ELSE r[f]]

ComputeDigest ==
  [x \in ComputeContexts |->
     CHOOSE y \in ComputeContexts : GovernanceForm(Compute[y]) = GovernanceForm(Compute[x])]

EvidenceDigest ==
  [e \in EvidenceItems |->
     CHOOSE d \in EvidenceItems : GovernanceForm(Item[d]) = GovernanceForm(Item[e])]

ApprovalDigest ==
  [a \in Approvals |->
     CHOOSE d \in Approvals : GovernanceForm(Approval[d]) = GovernanceForm(Approval[a])]

\* No two records that differ in their spelling only.
GovernanceIsSpelledOnce ==
  /\ \A x, y \in ComputeContexts : ComputeDigest[x] = ComputeDigest[y] => Compute[x] = Compute[y]
  /\ \A d, e \in EvidenceItems : EvidenceDigest[d] = EvidenceDigest[e] => Item[d] = Item[e]
  /\ \A a, b \in Approvals : ApprovalDigest[a] = ApprovalDigest[b] => Approval[a] = Approval[b]

\* The digest of a sorted list identifies the bag of what is in it.
BundleDigest(digests) ==
  {<<d, Cardinality({i \in DOMAIN digests : digests[i] = d})>> :
     d \in {digests[i] : i \in DOMAIN digests}}

EvidenceBundleDigest(items) == BundleDigest([i \in DOMAIN items |-> EvidenceDigest[items[i]]])

ApprovalsDigest(items) == BundleDigest([i \in DOMAIN items |-> ApprovalDigest[items[i]]])

\* A key set that forgets one of the keys bind_governance_context writes.
GovernanceKeysWithoutApprovals ==
  {"compute_context_digest", "jurisdiction_evidence_digest",
   "compute_provider_id", "compute_jurisdiction"}

GovernanceKeys ==
  {"compute_context_digest", "jurisdiction_evidence_digest", "approvals_digest",
   "compute_provider_id", "compute_jurisdiction"}

\* A candidate as it was before governance metadata was attached to it.
Subject(act) ==
  [act EXCEPT !.authority_context =
     [k \in DOMAIN act.authority_context \ GovernanceKeys |-> act.authority_context[k]]]

\* governance_subject_digest: the representative of the candidates with c's
\* subject.
SubjectDigests ==
  [c \in Candidates |->
     CHOOSE d \in Candidates : Canonical(Subject(Act[d])) = Canonical(Subject(Act[c]))]

SubjectDigest(c) == SubjectDigests[c]

-----------------------------------------------------------------------------
(* Binding *)

GovernanceContext(x, evidence_items, approvals) ==
  [ compute_context_digest       |-> ComputeDigest[x],
    jurisdiction_evidence_digest |-> EvidenceBundleDigest(evidence_items),
    approvals_digest             |-> ApprovalsDigest(approvals),
    compute_provider_id          |-> Compute[x].provider_id,
    compute_jurisdiction         |-> Compute[x].compute_jurisdiction ]

\* bind_governance_context
Bind(act, context) ==
  [act EXCEPT !.authority_context =
     [k \in DOMAIN act.authority_context \cup DOMAIN context |->
        IF k \in DOMAIN context THEN context[k] ELSE act.authority_context[k]]]

\* A binding check that leaves the approvals out.
BoundExceptApprovals(c, context) ==
  \A k \in DOMAIN context \ {"approvals_digest"} :
    k \in DOMAIN Act[c].authority_context /\ Act[c].authority_context[k] = context[k]

\* What AuthorityPlane.authorize requires of a candidate's own context.
IsBound(c, context) ==
  \A k \in DOMAIN context :
    k \in DOMAIN Act[c].authority_context /\ Act[c].authority_context[k] = context[k]

-----------------------------------------------------------------------------
(* Authentication and the verdict of SovereigntyPolicy.validate *)

\* PrincipalVerifierRegistry.verify
PrincipalVerifies(principal, r) ==
  /\ principal \in DOMAIN VerifierKey
  /\ Verify(VerifierKey[principal], GovernanceForm(Unsigned(r)), r.signature, r.key_id)

EvidenceAuthentic(items) ==
  \A i \in DOMAIN items : PrincipalVerifies(Item[items[i]].issuer, Item[items[i]])

ApprovalsAuthentic(items) ==
  \A i \in DOMAIN items : PrincipalVerifies(Approval[items[i]].approver_id, Approval[items[i]])

Allows(limit, v) == limit = NoLimit \/ v \in limit

\* An empty allow-list of issuers or evidence types allows everything.
AllowsUnlessEmpty(allowed, v) == allowed = {} \/ v \in allowed

\* A check that asks only whether the registry knows the issuer.
TrustedIfEnrolled(issuer) == issuer \in DOMAIN VerifierKey

\* Whether evidence of this issuer is counted.
Trusted(issuer) == AllowsUnlessEmpty(SovPolicy.trusted_issuers, issuer)

InWindow(from, until, now) == now >= from - SovPolicy.skew /\ now <= until

EvidenceChecks(items, now) ==
  LET r(i) == Item[items[i]]
      trusted == {i \in DOMAIN items : Trusted(r(i).issuer)}
  IN
  [ insufficient_jurisdiction_evidence |-> Len(items) >= SovPolicy.min_items,
    duplicate_jurisdiction_evidence    |->
      \A i, j \in DOMAIN items : r(i).evidence_id = r(j).evidence_id => i = j,
    untrusted_issuer                   |-> trusted = DOMAIN items,
    evidence_type_not_allowed          |->
      \A i \in DOMAIN items : AllowsUnlessEmpty(SovPolicy.evidence_types, r(i).evidence_type),
    trust_class_not_allowed            |->
      \A i \in DOMAIN items : r(i).trust_class \in SovPolicy.trust_classes,
    from_future_or_expired             |->
      \A i \in DOMAIN items : InWindow(r(i).observed_at, r(i).expires_at, now),
    insufficient_independent_issuers   |->
      Cardinality({r(i).issuer : i \in trusted}) >= SovPolicy.min_issuers,
    authority_jurisdiction_missing     |->
      SovPolicy.require_authority_assertion =>
        \E i \in DOMAIN items : r(i).asserted_jurisdiction = SovPolicy.authority_jurisdiction ]

\* The first approval of each approver; a later one of the same approver is a
\* reason against the act and is looked at no further.
FirstApprovals(items) ==
  {i \in DOMAIN items : \A j \in DOMAIN items :
     Approval[items[j]].approver_id = Approval[items[i]].approver_id => i <= j}

\* A loop that passes over an approver's second approval in silence.
ApprovalChecksSkippingDuplicates(c, items, now) ==
  LET r(i) == Approval[items[i]]
      first == FirstApprovals(items)
      valid == {i \in first :
                  /\ r(i).candidate_digest = SubjectDigest(c)
                  /\ r(i).policy_epoch = SovPolicy.policy_epoch
                  /\ InWindow(r(i).approved_at, r(i).expires_at, now)}
  IN
  [ invalid_approval               |-> valid = first,
    approval_threshold_not_met     |->
      SovPolicy.threshold # 0 => Cardinality(valid) >= SovPolicy.threshold,
    required_approval_role_missing |->
      SovPolicy.required_roles \subseteq {r(i).role : i \in valid} ]

\* invalid_approval stands for the reasons of a mismatched candidate or epoch
\* and of an approval from the future or expired.
ApprovalChecks(c, items, now) ==
  LET r(i) == Approval[items[i]]
      first == FirstApprovals(items)
      valid == {i \in first :
                  /\ r(i).candidate_digest = SubjectDigest(c)
                  /\ r(i).policy_epoch = SovPolicy.policy_epoch
                  /\ InWindow(r(i).approved_at, r(i).expires_at, now)}
  IN
  [ duplicate_approver             |-> first = DOMAIN items,
    invalid_approval               |-> valid = first,
    approval_threshold_not_met     |->
      SovPolicy.threshold # 0 => Cardinality(valid) >= SovPolicy.threshold,
    required_approval_role_missing |->
      SovPolicy.required_roles \subseteq {r(i).role : i \in valid} ]

\* Fields that have to be there, integers within limits, values of a list; a list
\* may allow that a field is not there.
PayloadOk(c) ==
  LET p == PayloadOf[Act[c].payload] IN
  IF p = NoObject
  THEN SovPolicy.payload_required = {} /\ SovPolicy.payload_limits = << >>
       /\ SovPolicy.payload_values = << >>
  ELSE /\ SovPolicy.payload_required \subseteq DOMAIN p
       /\ \A f \in DOMAIN SovPolicy.payload_limits :
            /\ f \in DOMAIN p /\ p[f].type = "int"
            /\ p[f].value >= SovPolicy.payload_limits[f].minimum
            /\ p[f].value <= SovPolicy.payload_limits[f].maximum
       /\ \A f \in DOMAIN SovPolicy.payload_values :
            (IF f \in DOMAIN p THEN p[f].value ELSE NoLimit) \in SovPolicy.payload_values[f]

\* A verdict that passes over the provider of the compute context.
ContextChecksOfJurisdictions(c, x) ==
  LET a == Act[c] IN
  [ authority_jurisdiction_mismatch  |-> a.jurisdiction = SovPolicy.authority_jurisdiction,
    policy_epoch_mismatch            |-> a.policy_epoch = SovPolicy.policy_epoch,
    compute_jurisdiction_not_allowed |->
      Allows(SovPolicy.compute_jurisdictions, Compute[x].compute_jurisdiction),
    compute_runtime_mismatch         |->
      SovPolicy.runtime_evidence \in {NoLimit, Compute[x].runtime_evidence},
    candidate_runtime_mismatch       |-> a.runtime_evidence = Compute[x].runtime_evidence ]

ContextChecks(c, x) ==
  LET a == Act[c] IN
  [ authority_jurisdiction_mismatch  |-> a.jurisdiction = SovPolicy.authority_jurisdiction,
    policy_epoch_mismatch            |-> a.policy_epoch = SovPolicy.policy_epoch,
    compute_jurisdiction_not_allowed |->
      Allows(SovPolicy.compute_jurisdictions, Compute[x].compute_jurisdiction),
    compute_provider_not_allowed     |->
      Allows(SovPolicy.compute_providers, Compute[x].provider_id),
    compute_runtime_mismatch         |->
      SovPolicy.runtime_evidence \in {NoLimit, Compute[x].runtime_evidence},
    candidate_runtime_mismatch       |-> a.runtime_evidence = Compute[x].runtime_evidence ]

Passes(checks) == \A reason \in DOMAIN checks : checks[reason]

\* GovernanceDecision.allowed
Governed(c, x, evidence_items, approvals, now) ==
  /\ Passes(ContextChecks(c, x))
  /\ Passes(EvidenceChecks(evidence_items, now))
  /\ Passes(ApprovalChecks(c, approvals, now))
  /\ PayloadOk(c)
=============================================================================
