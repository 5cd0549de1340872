-------------------------- MODULE PortableVerifier --------------------------
(***************************************************************************)
(* The portable verifiers: programs in Go (cmd/finalityverify) and Node    *)
(* (finality_verify.mjs) that judge an exported case file away from the    *)
(* authority. A case holds the candidate, its descriptor, the transition,  *)
(* the evidence, the capability and a sink's context, as                   *)
(* vectors/generate_finality_case.py writes them. Here the authority keeps *)
(* authorising and exporting, may be restarted with an empty protected     *)
(* state, and what a verifier is given may mix parts of several cases and  *)
(* carry altered fields.                                                   *)
(***************************************************************************)
EXTENDS ProtectedState

CONSTANTS
  Contexts,        \* the sink contexts cases are exported for
  Times,           \* the times at which the authority authorises
  PortableActs,    \* candidates whose payload and authority context are in
                   \* the portable profile (InProfile of CanonicalJson)
  MaxSafeInteger,  \* 2^53 - 1
  MaxExports,      \* bound on the cases exported
  MaxRestarts,     \* bound on the restarts of the authority
  MaxChanges,      \* bound on the parts and fields exchanged in a case
  NoCase           \* the verifiers have been given nothing yet

ASSUME PortableCandidates == PortableActs \subseteq Candidates

\* A sink_context says nothing of presenters: it is one of the basic profile.
ASSUME ContextsAreBasic ==
  \A ctx \in Contexts : ctx.require_proof = FALSE /\ ctx.skew \in Nat

ASSUME TimesAreNumbers == Times \subseteq Int

VARIABLES
  exports,     \* the cases the authority has exported
  given,       \* the case the verifiers are given
  restarts,    \* number of restarts so far
  changes      \* number of changes made to the case given

caseVars == <<exports, given, restarts, changes>>

\* CandidateAct.payload_digest(), sha of the payload: what its canonical form is.
PayloadDigest(c) == Nfc(Act[c].payload)

\* build_hcad(candidate, sink_id, boundary_id), spelled as the candidate is; in
\* the place of the payload it has its digest.
Hcad(c, sink_id, boundary_id) ==
  [f \in DOMAIN Act[c] \ {"authority_context", "status"} |->
     CASE f = "sink_id" -> sink_id
       [] f = "payload" -> PayloadDigest(c)
       [] f = "boundary_id" -> boundary_id
       [] OTHER -> Act[c][f]]

\* build_case: what one authorization exports for a sink context.
Case(c, t, now, ctx) ==
  [ cand       |-> c,
    hcad       |-> Hcad(c, ctx.sink_id, ctx.boundary_id),
    transition |-> t,
    evidence   |-> Evidence(c, t.transition_id, now),
    cap        |-> Capability(c, t.transition_id, now),
    ctx        |-> ctx ]

Init ==
  /\ StateInit
  /\ exports = {} /\ given = NoCase
  /\ restarts = 0 /\ changes = 0

\* The authority authorises a candidate and exports the case for its sink.
Export(c, cost, now, ctx) ==
  /\ Cardinality(exports) < MaxExports
  /\ ctx.sink_id = Act[c].sink_id /\ ctx.boundary_id = Act[c].boundary_id
  /\ TransitionForAuthorization(c, cost)
  /\ Validate(c, now)
  /\ exports' = exports \cup {Case(c, NextTransition(c, cost), now, ctx)}
  /\ UNCHANGED <<given, restarts, changes>>

\* A new ProtectedState; exported cases stay where they are.
Restart ==
  /\ restarts < MaxRestarts
  /\ restarts' = restarts + 1
  /\ sources' = [s \in Sources |-> DefaultSource]
  /\ nonces' = Empty
  /\ transitions' = Empty
  /\ UNCHANGED <<exports, given, changes>>

Parts == {"hcad", "transition", "evidence", "cap"}

\* The verifiers are given a case as it was exported,
Give ==
  /\ given' \in exports
  /\ changes' = 0
  /\ UNCHANGED <<stateVars, exports, restarts>>

\* or with a part exchanged with that of another case,
Exchange ==
  \/ \E part \in Parts : \E other \in {x[part] : x \in exports} \ {given[part]} :
       given' = [given EXCEPT ![part] = other]
  \/ \E c \in Candidates \ {given.cand} : given' = [given EXCEPT !.cand = c]
  \/ \E ctx \in Contexts \ {given.ctx} : given' = [given EXCEPT !.ctx = ctx]

\* or with a field of a part taken from another one.
Alter ==
  \E part \in Parts : \E f \in DOMAIN given[part] :
    \E other \in {x[part][f] : x \in exports} \ {given[part][f]} :
      given' = [given EXCEPT ![part][f] = other]

Change ==
  /\ given # NoCase /\ changes < MaxChanges
  /\ Exchange \/ Alter
  /\ changes' = changes + 1
  /\ UNCHANGED <<stateVars, exports, restarts>>

Next ==
  \/ \E c \in Candidates, cost \in Costs, now \in Times, ctx \in Contexts : Export(c, cost, now, ctx)
  \/ Restart
  \/ Give
  \/ Change

Spec == Init /\ [][Next]_<<stateVars, caseVars>>

-----------------------------------------------------------------------------
(* Hashes of received material. A hash is what it identifies, so received  *)
(* material has the hash that goes with it exactly when it is, in canonical*)
(* form, the material that hash was made of.                               *)

Numbers ==
  {"policy_epoch", "issued_at", "freshness", "before_version", "after_version",
   "quota_before", "quota_after", "budget_before", "budget_after",
   "committed_at", "expires_at"}

\* The portable canonicalisers refuse to hash a number they might not share.
Hashable(r) == \A f \in DOMAIN r \cap Numbers : r[f] \in -MaxSafeInteger .. MaxSafeInteger

Without(r, fields) == [f \in DOMAIN r \ fields |-> r[f]]

CandidateHashable(c) == c \in PortableActs /\ Hashable(Act[c])

\* sha(h)
HcadHash(h) == Canonical(h)

\* sha of the transition core is transition_id.
TransitionHashed(t, candidate_digest) ==
  /\ t.transition_id.candidate = candidate_digest
  /\ LET made == Transition(candidate_digest, t.transition_id.before, t.transition_id.cost)
     IN Canonical(Without(t, {"transition_id"})) = Canonical(Without(made, {"transition_id"}))

\* sha of the evidence core is evidence_id.
EvidenceHashed(e) == e.evidence_id = Without(e, {"evidence_id", "signature"})

\* sha of the capability core is capability_id.
CapabilityHashed(cap) ==
  LET e == cap.capability_id.evidence
      made == CapabilityCore(e.candidate_digest, e.transition_id, e.committed_at)
  IN Canonical(Without(cap, {"capability_id", "signature"})) = Canonical(made)

\* authority_key_hex verifies a part's signature.
Mac(case, part) ==
  Hashable(part) /\ part.signature = Sign(case.ctx.key, Unsigned(part))

-----------------------------------------------------------------------------
(* cmd/finalityverify *)

GoBindsAct(case) ==
  LET cd == CandidateDigest(case.cand)
      rebuilt == Hcad(case.cand, case.ctx.sink_id, case.ctx.boundary_id)
      dd == DescriptorDigest(case.cand, case.ctx.sink_id, case.ctx.boundary_id)
  IN
  /\ Act[case.cand].status = "NON_EFFECTIVE"
  /\ CandidateHashable(case.cand) /\ Hashable(case.hcad)
  /\ cd = case.cap.candidate_digest /\ cd = case.evidence.candidate_digest
  /\ PayloadDigest(case.cand) = case.hcad.payload
  /\ dd = case.cap.descriptor_digest /\ dd = case.evidence.descriptor_digest
  /\ HcadHash(case.hcad) = HcadHash(rebuilt)

GoBindsTransition(case) ==
  LET t == case.transition IN
  /\ Hashable(t) /\ TransitionHashed(t, CandidateDigest(case.cand))
  /\ t.after_version = t.before_version + 1
  /\ t.quota_after = t.quota_before - 1
  /\ t.budget_after < t.budget_before
  /\ t.transition_id = case.cap.transition_id
  /\ t.transition_id = case.evidence.transition_id

GoAuthentic(case) ==
  /\ Mac(case, case.evidence) /\ EvidenceHashed(case.evidence)
  /\ case.evidence.decision = "ALLOW"
  /\ Mac(case, case.cap) /\ CapabilityHashed(case.cap)

GoBindsSink(case) ==
  LET a == Act[case.cand]
      cap == case.cap
  IN
  /\ cap.sink_id = case.ctx.sink_id /\ cap.boundary_id = case.ctx.boundary_id
  /\ cap.policy_epoch = case.ctx.policy_epoch
  /\ cap.nonce = a.nonce
  /\ cap.authority_id = case.evidence.authority_id
  /\ cap.scope = a.scope /\ ScopeSet(cap.scope) \subseteq case.ctx.supported_scopes
  /\ a.effect_class = case.ctx.effect_class
  /\ cap.expires_at <= a.issued_at + a.freshness

GoAccepts(case) ==
  GoBindsAct(case) /\ GoBindsTransition(case) /\ GoAuthentic(case) /\ GoBindsSink(case)

-----------------------------------------------------------------------------
(* finality_verify.mjs *)

NodeBindsAct(case) ==
  LET a == Act[case.cand]
      ctx == case.ctx
      digests == <<CandidateDigest(case.cand), DescriptorDigest(case.cand, ctx.sink_id, ctx.boundary_id)>>
  IN
  /\ a.status = "NON_EFFECTIVE" /\ CandidateHashable(case.cand)
  /\ digests = <<case.cap.candidate_digest, case.cap.descriptor_digest>>
  /\ digests = <<case.evidence.candidate_digest, case.evidence.descriptor_digest>>
  /\ PayloadDigest(case.cand) = case.hcad.payload
  /\ Hashable(case.hcad)
  /\ HcadHash(case.hcad) = HcadHash(Hcad(case.cand, ctx.sink_id, ctx.boundary_id))

\* A verifier that does not compare the evidence's transition.
NodeBindsTransitionOfCapability(case) ==
  LET t == case.transition IN
  /\ Hashable(t) /\ TransitionHashed(t, CandidateDigest(case.cand))
  /\ <<t.after_version - t.before_version, t.quota_after - t.quota_before>> = <<1, -1>>
  /\ t.budget_after < t.budget_before
  /\ t.transition_id = case.cap.transition_id

NodeBindsTransition(case) ==
  LET t == case.transition IN
  /\ Hashable(t) /\ TransitionHashed(t, CandidateDigest(case.cand))
  /\ <<t.after_version - t.before_version, t.quota_after - t.quota_before>> = <<1, -1>>
  /\ t.budget_after < t.budget_before
  /\ {case.cap.transition_id, case.evidence.transition_id} = {t.transition_id}

NodeAuthentic(case) ==
  /\ case.evidence.decision = "ALLOW"
  /\ \A part \in {case.evidence, case.cap} : Mac(case, part)
  /\ EvidenceHashed(case.evidence) /\ CapabilityHashed(case.cap)

\* A capability that may not even expire with its candidate.
OutlivesOrEqual(cap, a) == cap.expires_at >= a.issued_at + a.freshness

Outlives(cap, a) == cap.expires_at > a.issued_at + a.freshness

NodeBindsSink(case) ==
  LET a == Act[case.cand]
      cap == case.cap
  IN
  /\ \A f \in {"sink_id", "boundary_id", "policy_epoch"} : cap[f] = case.ctx[f]
  /\ <<cap.nonce, cap.scope>> = <<a.nonce, a.scope>>
  /\ cap.authority_id = case.evidence.authority_id
  /\ ScopeSet(cap.scope) \subseteq case.ctx.supported_scopes
  /\ a.effect_class = case.ctx.effect_class
  /\ ~Outlives(cap, a)

NodeAccepts(case) ==
  NodeBindsAct(case) /\ NodeBindsTransition(case) /\ NodeAuthentic(case) /\ NodeBindsSink(case)

-----------------------------------------------------------------------------

\* The names a sink compares as they are spelled.
SinkNames == {"effect_class", "sink_id", "boundary_id"}

\* Act and sink spell alike what is the same name to both.
SpelledAlike(c, ctx) ==
  /\ \A f \in SinkNames : Nfc(Act[c][f]) = Nfc(ctx[f]) => Act[c][f] = ctx[f]
  /\ \A i \in DOMAIN Act[c].scope, name \in ctx.supported_scopes :
       Nfc(Act[c].scope[i]) = Nfc(name) => Act[c].scope[i] = name

\* No two spellings of one act differ in the source: what the protected state counts
\* by and what digests go by then agree.
SourcesAreSpelledOnce ==
  \A c, d \in Candidates :
    CandidateDigest(c) = CandidateDigest(d) => Act[c].source = Act[d].source

\* A case a portable verifier accepts, whatever it was mixed from and whatever
\* was altered, is in another spelling at most what the authority made of one
\* canonical act and one reservation of it. Its capability and transition are those
\* of one authorization, which the sink with its context, the act's own, would have
\* taken as it was authorised at any time the capability is for, provided the two
\* spell names alike: a sink compares them raw, the digests do not. Its evidence is
\* that of an authorization of the same act with the same transition identifier:
\* the same one as long as the authority has not been restarted, but not necessarily
\* afterwards, as a new life of the authority numbers its transitions alike.
OfflineIsSound ==
  given # NoCase /\ (GoAccepts(given) \/ NodeAccepts(given)) =>
    /\ EvidenceOk(given.ctx, given.cap, given.evidence)
    /\ \E x, y \in exports :
         /\ Canonical(x.cap) = Canonical(given.cap)
         /\ Canonical(x.transition) = Canonical(given.transition)
         /\ Canonical(y.evidence) = Canonical(given.evidence)
         /\ CandidateDigest(x.cand) = CandidateDigest(given.cand)
         /\ CandidateDigest(y.cand) = CandidateDigest(given.cand)
         /\ y.transition.transition_id = x.transition.transition_id
         /\ restarts = 0 /\ SourcesAreSpelledOnce => x = y
         /\ \A f \in SinkNames : Nfc(Act[x.cand][f]) = Nfc(given.ctx[f])
         /\ SpelledAlike(x.cand, given.ctx) =>
              \A now \in x.cap.issued_at .. x.cap.expires_at :
                PresentedOk(given.ctx, x.cand, x.cap, NoProof, now)
         /\ EvidenceOk(given.ctx, x.cap, x.evidence)

\* What the threat model says of evidence: it is bound by its id. A capability names
\* the evidence it was issued on, and a sink looks the evidence up by that name; here
\* the two come side by side in a file, and neither verifier compares them.
EvidenceIsTheCapabilitys ==
  given # NoCase /\ (GoAccepts(given) \/ NodeAccepts(given)) =>
    given.evidence.evidence_id = given.cap.evidence_id

\* Every number of the case can be hashed by all three languages.
Portable(case) ==
  /\ CandidateHashable(case.cand)
  /\ \A part \in Parts : Hashable(case[part])

\* The portable verifiers refuse nothing that a sink would let take effect: if
\* a sink with the case's context, asked now or at any other time, accepts the
\* candidate with the capability and accepts its evidence, then the exported case
\* of that capability passes in Go and in Node, as far as its data are portable.
\* What the protected state still knows of the transition makes no difference.
OfflineFollowsSink ==
  \A x \in exports :
    /\ given # NoCase
    /\ \A part \in Parts : given[part] = x[part]
    /\ Portable(given)
    /\ \E now \in Times : PresentedOk(given.ctx, given.cand, given.cap, NoProof, now)
    /\ EvidenceOk(given.ctx, given.cap, given.evidence)
    => GoAccepts(given) /\ NodeAccepts(given)
=============================================================================
