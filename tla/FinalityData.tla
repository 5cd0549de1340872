---------------------------- MODULE FinalityData ----------------------------
(***************************************************************************)
(* The data of the finality protocol and the pure functions over it:       *)
(* canonical digests (canonical.py), signatures (crypto.py), the act       *)
(* descriptor (models.py), the policy verdict (policy.py), what the        *)
(* authority derives from a candidate (authority.py, state.py) and what a  *)
(* Finality Sink checks of a presented capability (sink.py, pop.py).       *)
(*                                                                         *)
(* A candidate act is a model value; Act[c] is its CandidateAct record.    *)
(* A hash is modelled by what it identifies: two things have the same      *)
(* digest exactly when their canonical forms are equal.                    *)
(***************************************************************************)
EXTENDS Integers, Sequences, FiniteSets

CONSTANTS
  Candidates,    \* the CandidateAct objects clients create
  Act,           \* [Candidates -> CandidateAct record]
  Nfc(_),        \* Unicode normalisation of one string (unicodedata, external)
  Policy,        \* the Policy record of the authority
  AuthorityId,   \* ProtectedAuthority.authority_id
  AuthorityKey,  \* the key of the authority's authenticator
  CapabilityTtl, \* ProtectedAuthority.capability_ttl_ns
  PresenterKeys, \* keys enrolled in the PresenterVerifierRegistry
  NoProof        \* presentation_proof = None

\* The fields of a CandidateAct: the text ones, and the rest.
TextFields ==
  {"act_id", "act_class", "effect_class", "source", "destination", "purpose",
   "jurisdiction", "nonce", "sink_id", "boundary_id", "payload",
   "runtime_evidence"}

OtherFields ==
  {"policy_epoch", "issued_at", "freshness", "scope", "authority_context", "status"}

ASSUME CandidatesAreRecords ==
  \A c \in Candidates :
    /\ DOMAIN Act[c] = TextFields \cup OtherFields
    /\ Act[c].issued_at \in Int
    /\ Act[c].freshness \in Int
    /\ Act[c].status \in {"NON_EFFECTIVE", "EFFECTIVE"}

ASSUME TtlIsANumber == CapabilityTtl \in Int

-----------------------------------------------------------------------------
(* Canonical form, digests and signatures *)

\* The entries of an authority_context that are text; the others are digests.
ContextTexts == {"presenter_key_id", "compute_provider_id", "compute_jurisdiction"}

\* canonical_bytes of a record: strings are brought to NFC, also inside a scope
\* and an authority context; numbers and digests are kept as they are.
Canonical(r) ==
  [f \in DOMAIN r |->
     CASE f \in TextFields -> Nfc(r[f])
       [] f = "scope" -> [i \in DOMAIN r.scope |-> Nfc(r.scope[i])]
       [] f = "authority_context" ->
            [k \in DOMAIN r[f] |-> IF k \in ContextTexts THEN Nfc(r[f][k]) ELSE r[f][k]]
       [] OTHER -> r[f]]

\* CandidateAct.digest(): the representative of the candidates that share
\* c's canonical form.
Digests ==
  [c \in Candidates |-> CHOOSE d \in Candidates : Canonical(Act[d]) = Canonical(Act[c])]

CandidateDigest(c) == Digests[c]

\* The fields build_hcad copies from the candidate; the governance context
\* and the status are not part of the descriptor.
Described(c) ==
  [f \in DOMAIN Act[c] \ {"sink_id", "boundary_id", "authority_context", "status"} |->
     Canonical(Act[c])[f]]

Descriptors ==
  [c \in Candidates |-> CHOOSE d \in Candidates : Described(d) = Described(c)]

\* build_hcad(candidate, sink_id, boundary_id).digest()
DescriptorDigest(c, sink_id, boundary_id) ==
  <<Descriptors[c], Nfc(sink_id), Nfc(boundary_id)>>

\* Authenticator.sign and Authenticator.verify: a signature names the key and
\* the canonical form of the unsigned content it was made over.
Sign(key, unsigned) == [by |-> key, over |-> Canonical(unsigned)]

Verify(key, unsigned, signature, key_id) ==
  key_id = key /\ signature = Sign(key, unsigned)

\* Everything but the signature: ValidationEvidence.unsigned(),
\* Capability.unsigned(), PresentationProof.unsigned().
Unsigned(r) == [f \in DOMAIN r \ {"signature"} |-> r[f]]

Signed(key, unsigned) ==
  [f \in DOMAIN unsigned \cup {"signature"} |->
     IF f = "signature" THEN Sign(key, unsigned) ELSE unsigned[f]]

\* A record core with its id, the hash of that core, in field f.
WithId(core, f, id) == [g \in DOMAIN core \cup {f} |-> IF g = f THEN id ELSE core[g]]

-----------------------------------------------------------------------------
(* Policy.validate *)

ScopeSet(scope) == {scope[i] : i \in DOMAIN scope}

\* One entry per reason the policy can give against candidate c at time now:
\* TRUE when the candidate passes.
PolicyChecks(c, now) ==
  LET a == Act[c] IN
  [ candidate_not_non_effective |-> a.status = "NON_EFFECTIVE",
    policy_epoch_mismatch       |-> a.policy_epoch = Policy.policy_epoch,
    purpose_not_allowed         |-> a.purpose \in Policy.purposes,
    jurisdiction_not_allowed    |-> a.jurisdiction \in Policy.jurisdictions,
    sink_not_allowed            |-> a.sink_id \in Policy.sinks,
    boundary_not_allowed        |-> a.boundary_id \in Policy.boundaries,
    effect_class_not_allowed    |-> a.effect_class \in Policy.effect_classes,
    empty_scope                 |-> Len(a.scope) > 0,
    scope_not_allowed           |-> ScopeSet(a.scope) \subseteq Policy.scopes,
    duplicate_scope             |-> Cardinality(ScopeSet(a.scope)) = Len(a.scope),
    source_revoked              |-> a.source \notin Policy.revoked_sources,
    invalid_freshness           |-> a.freshness > 0,
    candidate_from_future       |-> now >= a.issued_at - Policy.skew,
    candidate_stale             |-> now <= a.issued_at + a.freshness,
    runtime_evidence_mismatch   |-> \/ Policy.runtime_evidence = "any"
                                    \/ a.runtime_evidence = Policy.runtime_evidence ]

Validate(c, now) ==
  LET passes == PolicyChecks(c, now) IN \A reason \in DOMAIN passes : passes[reason]

-----------------------------------------------------------------------------
(* What ProtectedAuthority.authorize derives from a validated candidate *)

Earlier(a, b) == IF a <= b THEN a ELSE b

\* The protected-state transition of one authorization. Nonce, source and
\* epoch enter its hashed core in canonical form: they are parts of the
\* candidate digest there. The record itself keeps them as spelled.
TransitionId(c, before, cost) ==
  [candidate |-> CandidateDigest(c), before |-> before, cost |-> cost]

TransitionKeepingVersion(c, before, cost) ==
  [ transition_id  |-> TransitionId(c, before, cost),
    nonce          |-> Act[c].nonce,
    source         |-> Act[c].source,
    policy_epoch   |-> Act[c].policy_epoch,
    before_version |-> before.version,
    after_version  |-> before.version,
    quota_before   |-> before.quota,
    quota_after    |-> before.quota - 1,
    budget_before  |-> before.budget,
    budget_after   |-> before.budget - cost ]

Transition(c, before, cost) ==
  [ transition_id  |-> TransitionId(c, before, cost),
    nonce          |-> Act[c].nonce,
    source         |-> Act[c].source,
    policy_epoch   |-> Act[c].policy_epoch,
    before_version |-> before.version,
    after_version  |-> before.version + 1,
    quota_before   |-> before.quota,
    quota_after    |-> before.quota - 1,
    budget_before  |-> before.budget,
    budget_after   |-> before.budget - cost ]

\* The signed ALLOW evidence for transition tid, committed at time now.
EvidenceCore(c, tid, now) ==
  [ authority_id      |-> AuthorityId,
    descriptor_digest |-> DescriptorDigest(c, Act[c].sink_id, Act[c].boundary_id),
    candidate_digest  |-> CandidateDigest(c),
    transition_id     |-> tid,
    policy_epoch      |-> Act[c].policy_epoch,
    decision          |-> "ALLOW",
    committed_at      |-> now,
    key_id            |-> AuthorityKey ]

EvidenceId(c, tid, now) == EvidenceCore(c, tid, now)

Evidence(c, tid, now) ==
  Signed(AuthorityKey, WithId(EvidenceCore(c, tid, now), "evidence_id", EvidenceId(c, tid, now)))

\* The capability that becomes available once the evidence is committed.
CapabilityCore(c, tid, now) ==
  [ authority_id      |-> AuthorityId,
    candidate_digest  |-> CandidateDigest(c),
    descriptor_digest |-> DescriptorDigest(c, Act[c].sink_id, Act[c].boundary_id),
    sink_id           |-> Act[c].sink_id,
    boundary_id       |-> Act[c].boundary_id,
    nonce             |-> Act[c].nonce,
    scope             |-> Act[c].scope,
    policy_epoch      |-> Act[c].policy_epoch,
    evidence_id       |-> EvidenceId(c, tid, now),
    transition_id     |-> tid,
    issued_at         |-> now,
    expires_at        |-> Earlier(Act[c].issued_at + Act[c].freshness,
                                  now + CapabilityTtl),
    key_id            |-> AuthorityKey ]

\* The hashed core in canonical form: nonce, scope, sink and boundary enter
\* it through the candidate digest.
CapabilityId(c, tid, now) ==
  [evidence |-> EvidenceId(c, tid, now), expires_at |-> CapabilityCore(c, tid, now).expires_at]

Capability(c, tid, now) ==
  Signed(AuthorityKey, WithId(CapabilityCore(c, tid, now), "capability_id", CapabilityId(c, tid, now)))

-----------------------------------------------------------------------------
(* What FinalitySink.verify checks. ctx is the sink's configuration: its   *)
(* SinkContext and its authenticator, skew and presentation settings.      *)

\* Presenter.prove: possession of key, bound to one capability, candidate,
\* sink, boundary and nonce at one time.
Prove(key, cap, c, at) ==
  Signed(key, [ capability_id    |-> cap.capability_id,
                candidate_digest |-> CandidateDigest(c),
                sink_id          |-> cap.sink_id,
                boundary_id      |-> cap.boundary_id,
                nonce            |-> cap.nonce,
                presented_at     |-> at,
                presenter_key_id |-> key ])

Distance(a, b) == IF a <= b THEN b - a ELSE a - b

\* A registry that only looks the key up.
ProofNamesEnrolledKey(proof) == proof.presenter_key_id \in PresenterKeys

\* PresenterVerifierRegistry.verify: the named key is enrolled and signed.
ProofVerifies(proof) ==
  /\ proof.presenter_key_id \in PresenterKeys
  /\ Verify(proof.presenter_key_id, Unsigned(proof), proof.signature, proof.presenter_key_id)

\* The presenter key an act names in its authority context.
NamesPresenter(c, key) ==
  /\ "presenter_key_id" \in DOMAIN Act[c].authority_context
  /\ key = Act[c].authority_context.presenter_key_id

\* The strict non-bearer profile.
PresentationOk(ctx, c, cap, proof, now) ==
  ctx.require_proof =>
    /\ proof # NoProof
    /\ NamesPresenter(c, proof.presenter_key_id)
    /\ proof.capability_id = cap.capability_id
    /\ proof.candidate_digest = CandidateDigest(c)
    /\ proof.sink_id = ctx.sink_id /\ proof.boundary_id = ctx.boundary_id
    /\ proof.nonce = Act[c].nonce
    /\ Distance(now, proof.presented_at) <= ctx.presentation_freshness
    /\ ProofVerifies(proof)

\* The signature check of verify, over the capability as it was presented.
CapabilityUnsignedAccepted(ctx, cap) == TRUE

CapabilityVerifies(ctx, cap) ==
  Verify(ctx.key, Unsigned(cap), cap.signature, cap.key_id)

\* Everything verify decides from its arguments and the time it sampled,
\* before it reads the evidence store.
PresentedOk(ctx, c, cap, proof, now) ==
  LET a == Act[c] IN
  /\ a.status = "NON_EFFECTIVE"
  /\ a.effect_class = ctx.effect_class
  /\ a.sink_id = ctx.sink_id /\ cap.sink_id = ctx.sink_id
  /\ a.boundary_id = ctx.boundary_id /\ cap.boundary_id = ctx.boundary_id
  /\ a.policy_epoch = ctx.policy_epoch /\ cap.policy_epoch = ctx.policy_epoch
  /\ a.scope = cap.scope
  /\ ScopeSet(cap.scope) \subseteq ctx.supported_scopes
  /\ cap.nonce = a.nonce
  /\ now >= cap.issued_at - ctx.skew
  /\ now <= cap.expires_at
  /\ cap.expires_at <= a.issued_at + a.freshness
  /\ CapabilityVerifies(ctx, cap)
  /\ PresentationOk(ctx, c, cap, proof, now)
  /\ cap.candidate_digest = CandidateDigest(c)
  /\ cap.descriptor_digest = DescriptorDigest(c, ctx.sink_id, ctx.boundary_id)

\* What verify requires of the evidence record ev it found for cap.
EvidenceOk(ctx, cap, ev) ==
  /\ Verify(ctx.key, Unsigned(ev), ev.signature, ev.key_id)
  /\ ev.decision = "ALLOW"
  /\ ev.authority_id = cap.authority_id
  /\ ev.candidate_digest = cap.candidate_digest
  /\ ev.descriptor_digest = cap.descriptor_digest
  /\ ev.transition_id = cap.transition_id
  /\ ev.policy_epoch = cap.policy_epoch
=============================================================================
