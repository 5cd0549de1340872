--------------------------- MODULE AuthorityPlane ---------------------------
(***************************************************************************)
(* The authority plane (authority_plane.py) in front of the execution-     *)
(* finality core: clients of the compute plane reach the ProtectedAuthority*)
(* only through AuthorityPlane.authorize, which judges the governance      *)
(* inputs, checks that the act is bound to them and delegates with the     *)
(* time it judged them at. The sinks know nothing of governance: what they *)
(* enforce of it, they enforce because the act carries it.                 *)
(***************************************************************************)
EXTENDS FinalityCore, Governance

CONSTANTS
  EvidenceBundles,   \* the sequences of evidence clients bring
  ApprovalBundles,   \* the sequences of approvals clients bring
  AuthenticEvidence, \* require_authenticated_evidence
  AuthenticApprovals,\* require_authenticated_approvals
  NoDecision         \* last_decision = None

ASSUME BundlesAreSequences ==
  /\ \A items \in EvidenceBundles : items \in Seq(EvidenceItems)
  /\ \A approvals \in ApprovalBundles : approvals \in Seq(Approvals)

VARIABLES
  plane,        \* authorizer -> its call of AuthorityPlane.authorize
  lastDecision  \* AuthorityPlane.last_decision

planeVars == <<vars, plane, lastDecision>>

Judging == {a \in Authorizers : plane[a] # NoCall}

PlaneInit ==
  /\ Init
  /\ plane = [a \in Authorizers |-> NoCall]
  /\ lastDecision = NoDecision

-----------------------------------------------------------------------------

\* Sample the clock, check the signatures where that is required, and judge.
Judge(a, c, x, evidence_items, approvals, cost) ==
  /\ auth[a].pc \in Free /\ a \notin Judging
  /\ IF /\ AuthenticEvidence => EvidenceAuthentic(evidence_items)
        /\ AuthenticApprovals => ApprovalsAuthentic(approvals)
     THEN /\ plane' = [plane EXCEPT ![a] =
                         [cand |-> c, cost |-> cost, now |-> clock,
                          allowed |-> Governed(c, x, evidence_items, approvals, clock),
                          context |-> GovernanceContext(x, evidence_items, approvals)]]
          /\ UNCHANGED auth
     ELSE AuthGoes(a, "raised", NoCall) /\ UNCHANGED plane
  /\ UNCHANGED <<external, protected, sinkSide, clients, call, lastDecision>>

\* Publish the decision; then delegate, or raise.
Decide(a) ==
  LET l == plane[a] IN
  /\ a \in Judging
  /\ lastDecision' = [allowed |-> l.allowed, context |-> l.context]
  /\ IF l.allowed /\ IsBound(l.cand, l.context)
     THEN PutToPolicy(a, l.cand, l.cost, l.now)
     ELSE AuthGoes(a, "raised", NoCall)
  /\ plane' = [plane EXCEPT ![a] = NoCall]
  /\ UNCHANGED <<external, protected, sinkSide, clients, call>>

CoreStep ==
  \/ \E a \in Authorizers : AuthStep(a)
  \/ \E t \in Callers, s \in Sinks, c \in Candidates, cap \in Presentable, proof \in PresentableProofs :
       Effectuate(t, s, c, cap, proof)
  \/ \E t \in Callers : CallStep(t)
  \/ \E key \in PresenterKeys, cap \in issued, c \in Candidates : Present(key, cap, c)
  \/ \E s \in Sources, quota, budget \in Grants : Reconfigure(s, quota, budget)
  \/ ClockMoves
  \/ EvidenceStoreToggles
  \/ DownstreamWillFail

PlaneCrash ==
  /\ Crash
  /\ plane' = [a \in Authorizers |-> NoCall]
  /\ lastDecision' = NoDecision

PlaneNext ==
  \/ \E a \in Authorizers, c \in Candidates, x \in ComputeContexts,
        evidence_items \in EvidenceBundles, approvals \in ApprovalBundles, cost \in Costs :
       Judge(a, c, x, evidence_items, approvals, cost)
  \/ \E a \in Authorizers : Decide(a)
  \/ CoreStep /\ UNCHANGED <<plane, lastDecision>>
  \/ PlaneCrash

PlaneSpec == PlaneInit /\ [][PlaneNext]_planeVars

-----------------------------------------------------------------------------

\* The approvals of a bundle that count for act c at time now: genuine, for this
\* very act, of the policy's epoch and current.
Counting(approvals, c, now) ==
  {i \in DOMAIN approvals :
     LET r == Approval[approvals[i]] IN
     /\ AuthenticApprovals => PrincipalVerifies(r.approver_id, r)
     /\ r.candidate_digest = SubjectDigest(c)
     /\ r.policy_epoch = SovPolicy.policy_epoch
     /\ InWindow(r.approved_at, r.expires_at, now)}

\* The items of a bundle that count at time now: genuine, current, of a trusted
\* issuer and of a type and trust class the policy allows.
CountingItems(items, now) ==
  {i \in DOMAIN items :
     LET r == Item[items[i]] IN
     /\ AuthenticEvidence => PrincipalVerifies(r.issuer, r)
     /\ InWindow(r.observed_at, r.expires_at, now)
     /\ AllowsUnlessEmpty(SovPolicy.trusted_issuers, r.issuer)
     /\ AllowsUnlessEmpty(SovPolicy.evidence_types, r.evidence_type)
     /\ r.trust_class \in SovPolicy.trust_classes}

\* Whatever takes effect at a sink carries, bound into the act itself, approvals
\* by enough different principals and of every required role that were made for
\* exactly that act, in the policy's epoch, and were current when the capability
\* was issued: a client cannot have one bundle judged and another act, or the act
\* with another bundle, effected.
EffectsAreApproved ==
  \A i \in DOMAIN effects :
    LET l == effects[i].call
        ctx == Act[l.cand].authority_context
        now == l.cap.issued_at
    IN
    /\ "approvals_digest" \in DOMAIN ctx
    /\ \E approvals \in ApprovalBundles :
         /\ ctx.approvals_digest = ApprovalsDigest(approvals)
         /\ Cardinality({Approval[approvals[k]].approver_id :
                           k \in Counting(approvals, l.cand, now)}) >= SovPolicy.threshold
         /\ SovPolicy.required_roles \subseteq
              {Approval[approvals[k]].role : k \in Counting(approvals, l.cand, now)}

\* Whatever takes effect at a sink carries, bound into the act itself, a bundle of
\* evidence that sufficed when the capability was issued: every item genuine,
\* current and by a trusted issuer, none twice, as many items and independent
\* issuers as the policy asks for, and the authority's jurisdiction asserted where
\* it asks for that.
EffectsAreEvidenced ==
  \A i \in DOMAIN effects :
    LET l == effects[i].call
        ctx == Act[l.cand].authority_context
        now == l.cap.issued_at
    IN
    /\ "jurisdiction_evidence_digest" \in DOMAIN ctx
    /\ \E items \in EvidenceBundles :
         /\ ctx.jurisdiction_evidence_digest = EvidenceBundleDigest(items)
         /\ CountingItems(items, now) = DOMAIN items
         /\ Cardinality({Item[items[k]].evidence_id : k \in DOMAIN items}) = Len(items)
         /\ Len(items) >= SovPolicy.min_items
         /\ Cardinality({Item[items[k]].issuer : k \in DOMAIN items}) >= SovPolicy.min_issuers
         /\ SovPolicy.require_authority_assertion =>
              \E k \in DOMAIN items :
                Item[items[k]].asserted_jurisdiction = SovPolicy.authority_jurisdiction

\* Whatever takes effect at a sink is an act of the authority's own jurisdiction and
\* epoch that names, as its proposer, a compute context of a provider, jurisdiction
\* and runtime the policy allows: the compute plane may be anywhere, and cannot be
\* one that was refused. What the act says of that context is what the policy judged
\* up to its spelling, as a sink compares digests only.
EffectsNameAllowedCompute ==
  \A i \in DOMAIN effects :
    LET act == Act[effects[i].call.cand]
        ctx == act.authority_context
    IN
    /\ {"compute_context_digest", "compute_provider_id", "compute_jurisdiction"}
         \subseteq DOMAIN ctx
    /\ Nfc(act.jurisdiction) = Nfc(SovPolicy.authority_jurisdiction)
    /\ act.policy_epoch = SovPolicy.policy_epoch
    /\ \E x \in ComputeContexts :
         /\ ctx.compute_context_digest = ComputeDigest[x]
         /\ Nfc(ctx.compute_provider_id) = Nfc(Compute[x].provider_id)
         /\ Nfc(ctx.compute_jurisdiction) = Nfc(Compute[x].compute_jurisdiction)
         /\ Nfc(act.runtime_evidence) = Nfc(Compute[x].runtime_evidence)
         /\ Allows(SovPolicy.compute_providers, Compute[x].provider_id)
         /\ Allows(SovPolicy.compute_jurisdictions, Compute[x].compute_jurisdiction)
         /\ SovPolicy.runtime_evidence \in {NoLimit, Compute[x].runtime_evidence}

\* Bundles with the digests a call has computed.
BundlesOf(context) ==
  {x \in ComputeContexts :
     /\ ComputeDigest[x] = context.compute_context_digest
     /\ Compute[x].provider_id = context.compute_provider_id
     /\ Compute[x].compute_jurisdiction = context.compute_jurisdiction}
  \X {e \in EvidenceBundles : EvidenceBundleDigest(e) = context.jurisdiction_evidence_digest}
  \X {r \in ApprovalBundles : ApprovalsDigest(r) = context.approvals_digest}

\* The digests bound into an act forget the order of a bundle, so the verdict
\* must too: bundles with the digests of those a call was judged by, in whatever
\* order, are allowed or refused alike. The digests forget spelling as well and
\* the verdict does not, so this is said of records that are spelled once.
VerdictForgetsOrder ==
  GovernanceIsSpelledOnce =>
    \A a \in Judging : \A b \in BundlesOf(plane[a].context) :
      plane[a].allowed <=> Governed(plane[a].cand, b[1], b[2], b[3], plane[a].now)

\* Approvals are made for an act before they are bound into it: what a call found
\* of an act is what the policy says of the same act once it is bound.
BindingKeepsVerdict ==
  GovernanceIsSpelledOnce =>
    \A a \in Judging, bound \in Candidates :
      Act[bound] = Bind(Act[plane[a].cand], plane[a].context) =>
        \A b \in BundlesOf(plane[a].context) :
          plane[a].allowed <=> Governed(bound, b[1], b[2], b[3], plane[a].now)
=============================================================================
