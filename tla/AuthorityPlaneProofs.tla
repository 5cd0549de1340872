-------------------------- MODULE AuthorityPlaneProofs --------------------------
(***************************************************************************)
(* What the authority plane adds to the core, for every set of bundles,    *)
(* records, policies and candidates and any number of calls and crashes:   *)
(* what takes effect is governed, and the verdict is one over what the     *)
(* digests bound into an act identify.                                     *)
(***************************************************************************)
EXTENDS AuthorityPlane, FinalityCoreSafetyProofs, FinalityCoreRefinementProofs

-----------------------------------------------------------------------------
(* The core behind the plane *)

\* The invariants of the core that say what is presented and effected.
CoreInv == TypeOK /\ StateInv /\ AuthorityInv /\ ProofsAreMade /\ CustodyInv

LEMMA CoreInvInit == Init => CoreInv
BY TypeInit, StateInvInit, AuthorityInvInit, ProofsAreMadeInit, CustodyInit DEF CoreInv, Init

LEMMA CoreInvStep == CoreInv /\ [Next]_vars => CoreInv'
BY TypeStep, StateInvStepInCore, AuthorityInvStep, ProofsAreMadeStep, CustodyStep DEF CoreInv

\* An authorizer put to work at a time of the plane's choosing, or turned away by
\* it, keeps them too.
LEMMA QuietPlaneStep ==
  ASSUME CoreInv, NEW a \in Authorizers, NEW pc, NEW local,
         AuthGoes(a, pc, local), AuthLocalOK(pc, local), pc \notin {"reserved", "committed"},
         pc = "validated" => Validate(local.cand, local.now),
         UNCHANGED <<external, protected, sinkSide, clients, call>>
  PROVE  CoreInv'
<1>1. TypeOK'
  BY QuietAuthStep DEF CoreInv
<1>2. StateInv'
  BY StateInvStep DEF CoreInv, protected, stateVars
<1>3. AuthorityInv'
  <2>1. AuthTypeOK /\ AuthorityInv
    BY DEF CoreInv, TypeOK
  <2>2. UNCHANGED <<nonces, transitions, evidence, issued, live, crashes>>
    BY DEF external, protected, clients
  <2> QED BY <2>1, <2>2, QuietAuthorizerStep
<1>4. ProofsAreMade'
  BY DEF CoreInv, ProofsAreMade, clients
<1>5. CustodyInv'
  <2>1. UNCHANGED <<nonces, transitions, evidence, issued, proofs, crashes, effects, call>>
    BY DEF external, protected, clients, sinkSide
  <2>2. \A p : p \in Verified <=> p \in Verified'
    <3>1. ASSUME NEW tid, NEW c
          PROVE  VerifyTransition(tid, c) <=> VerifyTransition(tid, c)'
      BY <2>1 DEF VerifyTransition
    <3> QED BY <2>1, <3>1 DEF Verified
  <2>3. CallsHold' /\ EffectsHold'
    BY <2>1, <2>2
    DEF CoreInv, CustodyInv, CallsHold, EffectsHold, Held, Evidenced, Reserved
  <2> QED BY <2>3 DEF CustodyInv
<1> QED BY <1>1, <1>2, <1>3, <1>4, <1>5 DEF CoreInv

-----------------------------------------------------------------------------
(* What the plane judged *)

SignedBundles(items, approvals) ==
  /\ AuthenticEvidence => EvidenceAuthentic(items)
  /\ AuthenticApprovals => ApprovalsAuthentic(approvals)

\* At time now the policy allowed act c with bundles the act is bound to.
GovernedAt(c, now) ==
  \E x \in ComputeContexts, items \in EvidenceBundles, approvals \in ApprovalBundles :
    /\ IsBound(c, GovernanceContext(x, items, approvals))
    /\ SignedBundles(items, approvals)
    /\ Governed(c, x, items, approvals, now)

\* A call of the plane carries the verdict over the bundles it was given.
JudgedAs(l) ==
  /\ l.cand \in Candidates /\ l.cost \in Costs /\ l.now \in Times
  /\ \E x \in ComputeContexts, items \in EvidenceBundles, approvals \in ApprovalBundles :
       /\ l.context = GovernanceContext(x, items, approvals)
       /\ SignedBundles(items, approvals)
       /\ l.allowed = Governed(l.cand, x, items, approvals, l.now)

CallsAreJudged ==
  \A a \in Judging : auth[a].pc \in Free /\ JudgedAs(plane[a])

GovernedInFlight ==
  \A a \in Authorizers :
    auth[a].pc \in {"validated", "reserved", "committed"} =>
      GovernedAt(auth[a].local.cand, auth[a].local.now)

IssuedAreGoverned ==
  \A cap \in issued : \E c \in Candidates :
    /\ cap = Capability(c, cap.transition_id, cap.issued_at)
    /\ GovernedAt(c, cap.issued_at)

PlaneInv ==
  /\ DOMAIN plane = Authorizers
  /\ CallsAreJudged /\ GovernedInFlight /\ IssuedAreGoverned

LEMMA PlaneInvInit == PlaneInit => PlaneInv
<1> SUFFICES ASSUME PlaneInit PROVE PlaneInv
  OBVIOUS
<1>1. /\ DOMAIN plane = Authorizers /\ Judging = {}
      /\ \A a \in Authorizers : auth[a].pc = "ready"
      /\ issued = {}
  BY DEF PlaneInit, Init, Judging
<1> QED BY <1>1 DEF PlaneInv, CallsAreJudged, GovernedInFlight, IssuedAreGoverned

\* A step of the core outside the authorizers.
LEMMA QuietGovernedStep ==
  ASSUME PlaneInv, UNCHANGED <<plane, auth, issued>>
  PROVE  PlaneInv'
BY DEF PlaneInv, CallsAreJudged, GovernedInFlight, IssuedAreGoverned, Judging

\* An authorizer that moves on with what it has, or starts with what is governed.
LEMMA AuthorizerStaysGoverned ==
  ASSUME CoreInv, PlaneInv, NEW a \in Authorizers, NEW pc, NEW local,
         AuthGoes(a, pc, local), a \notin Judging', UNCHANGED issued,
         DOMAIN plane' = Authorizers,
         \A b \in Authorizers \ {a} : plane'[b] = plane[b],
         pc \in {"validated", "reserved", "committed"} => GovernedAt(local.cand, local.now)
  PROVE  PlaneInv'
<1>1. AuthTypeOK
  BY DEF CoreInv, TypeOK
<1>2. /\ auth'[a].pc = pc /\ auth'[a].local = local
      /\ \A b \in Authorizers \ {a} : auth'[b] = auth[b]
  BY <1>1 DEF AuthTypeOK, AuthGoes
<1>3. CallsAreJudged'
  BY <1>2 DEF PlaneInv, CallsAreJudged, Judging
<1>4. GovernedInFlight'
  BY <1>2 DEF PlaneInv, GovernedInFlight
<1>5. IssuedAreGoverned'
  BY DEF PlaneInv, IssuedAreGoverned
<1> QED BY <1>3, <1>4, <1>5 DEF PlaneInv

LEMMA JudgeKeepsGoverned ==
  ASSUME CoreInv, PlaneInv, NEW a \in Authorizers, NEW c \in Candidates,
         NEW x \in ComputeContexts, NEW items \in EvidenceBundles,
         NEW approvals \in ApprovalBundles, NEW cost \in Costs,
         Judge(a, c, x, items, approvals, cost)
  PROVE  CoreInv' /\ PlaneInv'
<1>1. /\ auth[a].pc \in Free /\ a \notin Judging
      /\ UNCHANGED <<external, protected, sinkSide, clients, call>>
      /\ UNCHANGED issued
  BY DEF Judge, clients
<1>2. CASE SignedBundles(items, approvals)
  <2> DEFINE l == [cand |-> c, cost |-> cost, now |-> clock,
                   allowed |-> Governed(c, x, items, approvals, clock),
                   context |-> GovernanceContext(x, items, approvals)]
  <2>1. plane' = [plane EXCEPT ![a] = l] /\ UNCHANGED auth
    BY <1>2 DEF Judge, SignedBundles
  <2>2. UNCHANGED vars
    BY <1>1, <2>1 DEF vars
  <2>3. CoreInv'
    BY <2>2, CoreInvStep
  <2>4. JudgedAs(l)
    <3>1. clock \in Times
      BY DEF CoreInv, TypeOK, WorldTypeOK
    <3> QED BY <1>2, <3>1 DEF JudgedAs
  <2> HIDE DEF l
  <2>5. /\ DOMAIN plane' = Authorizers
        /\ \A b \in Authorizers : plane'[b] = plane[b] \/ (b = a /\ plane'[b] = l)
    BY <2>1 DEF PlaneInv
  <2>6. CallsAreJudged'
    BY <1>1, <2>1, <2>4, <2>5 DEF PlaneInv, CallsAreJudged, Judging
  <2>7. GovernedInFlight' /\ IssuedAreGoverned'
    BY <1>1, <2>1 DEF PlaneInv, GovernedInFlight, IssuedAreGoverned
  <2> QED BY <2>3, <2>5, <2>6, <2>7 DEF PlaneInv
<1>3. CASE ~SignedBundles(items, approvals)
  <2>1. AuthGoes(a, "raised", NoCall) /\ UNCHANGED plane
    BY <1>3 DEF Judge, SignedBundles
  <2>2. AuthLocalOK("raised", NoCall)
    BY DEF AuthLocalOK, Free
  <2>3. CoreInv'
    BY <1>1, <2>1, <2>2, QuietPlaneStep
  <2>4. PlaneInv'
    <3>1. a \notin Judging' /\ DOMAIN plane' = Authorizers
      BY <1>1, <2>1 DEF Judging, PlaneInv
    <3> QED BY <1>1, <2>1, <3>1, AuthorizerStaysGoverned
  <2> QED BY <2>3, <2>4
<1> QED BY <1>2, <1>3

\* What is delegated was allowed, with bundles the act is bound to.
LEMMA DecideKeepsGoverned ==
  ASSUME CoreInv, PlaneInv, NEW a \in Authorizers, Decide(a)
  PROVE  CoreInv' /\ PlaneInv'
<1> DEFINE l   == plane[a]
           new == [cand |-> l.cand, cost |-> l.cost, now |-> l.now]
<1>1. /\ a \in Judging /\ plane' = [plane EXCEPT ![a] = NoCall]
      /\ UNCHANGED <<external, protected, sinkSide, clients, call>>
      /\ UNCHANGED issued
  BY DEF Decide, clients
<1>2. JudgedAs(l)
  BY <1>1 DEF PlaneInv, CallsAreJudged
<1>3. /\ DOMAIN plane' = Authorizers /\ a \notin Judging'
      /\ \A b \in Authorizers \ {a} : plane'[b] = plane[b]
  BY <1>1 DEF PlaneInv, Judging
<1>4. CASE l.allowed /\ IsBound(l.cand, l.context) /\ Validate(l.cand, l.now)
  <2>1. AuthGoes(a, "validated", new)
    BY <1>4 DEF Decide, PutToPolicy
  <2>2. AuthLocalOK("validated", new) /\ Validate(new.cand, new.now)
    BY <1>2, <1>4 DEF AuthLocalOK, JudgedAs
  <2>3. GovernedAt(new.cand, new.now)
    BY <1>2, <1>4 DEF GovernedAt, JudgedAs
  <2> HIDE DEF new
  <2>4. CoreInv'
    BY <1>1, <2>1, <2>2, QuietPlaneStep
  <2>5. PlaneInv'
    BY <1>1, <1>3, <2>1, <2>3, AuthorizerStaysGoverned
  <2> QED BY <2>4, <2>5
<1>5. CASE ~(l.allowed /\ IsBound(l.cand, l.context) /\ Validate(l.cand, l.now))
  <2>1. AuthGoes(a, "raised", NoCall)
    BY <1>5 DEF Decide, PutToPolicy
  <2>2. AuthLocalOK("raised", NoCall)
    BY DEF AuthLocalOK, Free
  <2>3. CoreInv'
    BY <1>1, <2>1, <2>2, QuietPlaneStep
  <2>4. PlaneInv'
    BY <1>1, <1>3, <2>1, AuthorizerStaysGoverned
  <2> QED BY <2>3, <2>4
<1> QED BY <1>4, <1>5

\* An authorizer works on what it was given, and signs its capability for that.
LEMMA AuthStepKeepsGoverned ==
  ASSUME CoreInv, PlaneInv, NEW a \in Authorizers, AuthStep(a), UNCHANGED plane
  PROVE  PlaneInv'
<1> DEFINE l == auth[a].local
<1>1. auth[a].pc \in {"validated", "reserved", "committed"} /\ l.cand \in Candidates
  <2>1. auth[a].pc \in {"validated", "reserved", "committed"}
    BY DEF AuthStep, Reserve, ReserveRefused, CommitEvidence, Issue
  <2> QED BY <2>1, AuthLocals DEF CoreInv, TypeOK
<1>2. GovernedAt(l.cand, l.now)
  BY <1>1 DEF PlaneInv, GovernedInFlight
<1>3. a \notin Judging' /\ DOMAIN plane' = Authorizers
  BY <1>1 DEF PlaneInv, CallsAreJudged, Judging, Free
<1>4. CASE Reserve(a)
  <2> DEFINE new == [cand |-> l.cand, now |-> l.now,
                     tid |-> NextTransition(l.cand, l.cost).transition_id]
  <2>1. AuthGoes(a, "reserved", new) /\ GovernedAt(new.cand, new.now) /\ UNCHANGED issued
    BY <1>2, <1>4 DEF Reserve, clients
  <2> HIDE DEF new
  <2> QED BY <1>3, <2>1, AuthorizerStaysGoverned
<1>5. CASE ReserveRefused(a)
  BY <1>3, <1>5, AuthorizerStaysGoverned DEF ReserveRefused, clients
<1>6. CASE CommitEvidence(a)
  <2>1. AuthGoes(a, "raised", NoCall) \/ AuthGoes(a, "committed", l)
    BY <1>6 DEF CommitEvidence
  <2>2. UNCHANGED issued
    BY <1>6 DEF CommitEvidence, clients
  <2> HIDE DEF l
  <2> QED BY <1>2, <1>3, <2>1, <2>2, AuthorizerStaysGoverned
<1>7. CASE Issue(a)
  <2> DEFINE cap == Capability(l.cand, l.tid, l.now)
  <2>1. AuthGoes(a, "returned", NoCall) /\ issued' = issued \cup {cap}
    BY <1>7 DEF Issue
  <2>2. cap = Capability(l.cand, cap.transition_id, cap.issued_at) /\ cap.issued_at = l.now
    BY CapabilityFields
  <2> HIDE DEF cap
  <2>3. IssuedAreGoverned'
    BY <1>1, <1>2, <2>1, <2>2 DEF PlaneInv, IssuedAreGoverned
  <2>4. AuthTypeOK
    BY DEF CoreInv, TypeOK
  <2>5. auth'[a].pc = "returned" /\ \A b \in Authorizers \ {a} : auth'[b] = auth[b]
    BY <2>1, <2>4, OtherAuthorizersStay
  <2>6. CallsAreJudged' /\ GovernedInFlight'
    BY <1>3, <2>5 DEF PlaneInv, CallsAreJudged, GovernedInFlight, Judging
  <2> QED BY <1>3, <2>3, <2>6 DEF PlaneInv
<1> QED BY <1>4, <1>5, <1>6, <1>7 DEF AuthStep

LEMMA PlaneInvStep == CoreInv /\ PlaneInv /\ [PlaneNext]_planeVars => CoreInv' /\ PlaneInv'
<1> SUFFICES ASSUME CoreInv, PlaneInv, [PlaneNext]_planeVars PROVE CoreInv' /\ PlaneInv'
  OBVIOUS
<1>1. CASE UNCHANGED planeVars
  <2>1. UNCHANGED vars /\ UNCHANGED <<plane, auth, issued>>
    BY <1>1 DEF planeVars, vars, clients
  <2> QED BY <2>1, CoreInvStep, QuietGovernedStep
<1>2. CASE \E a \in Authorizers, c \in Candidates, x \in ComputeContexts,
              items \in EvidenceBundles, approvals \in ApprovalBundles, cost \in Costs :
             Judge(a, c, x, items, approvals, cost)
  BY <1>2, JudgeKeepsGoverned
<1>3. CASE \E a \in Authorizers : Decide(a)
  BY <1>3, DecideKeepsGoverned
<1>4. CASE CoreStep /\ UNCHANGED <<plane, lastDecision>>
  <2>1. [Next]_vars /\ UNCHANGED plane
    BY <1>4 DEF CoreStep, Next
  <2>2. CoreInv'
    BY <2>1, CoreInvStep
  <2>3. CASE \E a \in Authorizers : AuthStep(a)
    BY <2>1, <2>2, <2>3, AuthStepKeepsGoverned
  <2>4. CASE ~\E a \in Authorizers : AuthStep(a)
    <3>1. UNCHANGED <<auth, issued>>
      BY <1>4, <2>4
      DEF CoreStep, clients, Effectuate, CallStep, CheckEvidence, CheckTransition, Claim,
          ClaimTimesOut, CommitEffect, EffectFails, ReturnReceipt, ClockMoves,
          EvidenceStoreToggles, DownstreamWillFail, Present, Reconfigure
    <3> QED BY <2>1, <2>2, <3>1, QuietGovernedStep
  <2> QED BY <2>2, <2>3, <2>4
<1>5. CASE PlaneCrash
  <2>1. [Next]_vars
    BY <1>5 DEF PlaneCrash, Next
  <2>2. /\ DOMAIN plane' = Authorizers /\ Judging' = {}
        /\ \A a \in Authorizers : auth'[a].pc = "ready"
        /\ issued' = issued
    BY <1>5 DEF PlaneCrash, Crash, Judging
  <2>3. PlaneInv'
    BY <2>2 DEF PlaneInv, CallsAreJudged, GovernedInFlight, IssuedAreGoverned
  <2> QED BY <2>1, <2>3, CoreInvStep
<1> QED BY <1>1, <1>2, <1>3, <1>4, <1>5 DEF PlaneNext

\* The core keeps its invariants behind the plane, and what the plane lets through
\* stays what it judged until it is a capability (AuthorityPlane.authorize,
\* authority_plane.py).
THEOREM PlaneInvAlways == PlaneSpec => [](CoreInv /\ PlaneInv)
<1>1. PlaneInit => CoreInv /\ PlaneInv
  BY CoreInvInit, PlaneInvInit DEF PlaneInit
<1> QED BY <1>1, PlaneInvStep, PTL DEF PlaneSpec

-----------------------------------------------------------------------------
(* What equal digests say of two acts *)

\* Two acts with one digest have the same authority context, up to the spelling of
\* its texts.
LEMMA SameDigestSameContext ==
  ASSUME NEW c \in Candidates, NEW d \in Candidates, CandidateDigest(c) = CandidateDigest(d),
         NEW p, NEW q, p = Act[c].authority_context, q = Act[d].authority_context
  PROVE  /\ DOMAIN p = DOMAIN q
         /\ \A k \in DOMAIN p : k \notin ContextTexts => p[k] = q[k]
         /\ \A k \in DOMAIN p : k \in ContextTexts => Nfc(p[k]) = Nfc(q[k])
<1> DEFINE Form(r) == [k \in DOMAIN r |-> IF k \in ContextTexts THEN Nfc(r[k]) ELSE r[k]]
<1>1. Canonical(Act[c]) = Canonical(Act[d])
  BY DigestIdentifies
<1>2. "authority_context" \in DOMAIN Act[c] /\ "authority_context" \in DOMAIN Act[d]
  BY CandidatesAreRecords DEF OtherFields
<1>3. /\ Canonical(Act[c])["authority_context"] = Form(p)
      /\ Canonical(Act[d])["authority_context"] = Form(q)
  BY <1>2 DEF Canonical, TextFields
<1>4. Form(p) = Form(q)
  BY <1>1, <1>3
<1>5. DOMAIN p = DOMAIN q
  <2>1. DOMAIN Form(p) = DOMAIN p /\ DOMAIN Form(q) = DOMAIN q
    OBVIOUS
  <2> HIDE DEF Form
  <2> QED BY <1>4, <2>1
<1>6. ASSUME NEW k \in DOMAIN p PROVE Form(p)[k] = Form(q)[k]
  <2> HIDE DEF Form
  <2> QED BY <1>4
<1> QED BY <1>5, <1>6

\* They name the same runtime evidence and jurisdiction, up to spelling, and are of
\* the same policy epoch.
LEMMA SameDigestSameFields ==
  ASSUME NEW c \in Candidates, NEW d \in Candidates, CandidateDigest(c) = CandidateDigest(d)
  PROVE  /\ Nfc(Act[c].runtime_evidence) = Nfc(Act[d].runtime_evidence)
         /\ Nfc(Act[c].jurisdiction) = Nfc(Act[d].jurisdiction)
         /\ Act[c].policy_epoch = Act[d].policy_epoch
<1>1. Canonical(Act[c]) = Canonical(Act[d])
  BY DigestIdentifies
<1>2. ASSUME NEW e \in Candidates
      PROVE  /\ Canonical(Act[e])["runtime_evidence"] = Nfc(Act[e].runtime_evidence)
             /\ Canonical(Act[e])["jurisdiction"] = Nfc(Act[e].jurisdiction)
             /\ Canonical(Act[e])["policy_epoch"] = Act[e].policy_epoch
  <2>1. {"runtime_evidence", "jurisdiction", "policy_epoch"} \subseteq DOMAIN Act[e]
    BY CandidatesAreRecords DEF TextFields, OtherFields
  <2> QED BY <2>1 DEF Canonical, TextFields
<1> QED BY <1>1, <1>2

\* What an approval is made for is the act without its governance metadata.
LEMMA SubjectFields ==
  ASSUME NEW c \in Candidates
  PROVE  /\ DOMAIN Subject(Act[c]) = DOMAIN Act[c]
         /\ \A f \in DOMAIN Act[c] : f # "authority_context" => Subject(Act[c])[f] = Act[c][f]
         /\ Subject(Act[c])["authority_context"] =
              [k \in DOMAIN Act[c].authority_context \ GovernanceKeys |->
                 Act[c].authority_context[k]]
<1>1. "authority_context" \in DOMAIN Act[c]
  BY CandidatesAreRecords DEF OtherFields
<1> QED BY <1>1 DEF Subject

LEMMA SameDigestSameSubject ==
  ASSUME NEW c \in Candidates, NEW d \in Candidates, CandidateDigest(c) = CandidateDigest(d)
  PROVE  SubjectDigest(c) = SubjectDigest(d)
<1> DEFINE r == Subject(Act[c])
           s == Subject(Act[d])
           p == Act[c].authority_context
           q == Act[d].authority_context
<1>1. /\ DOMAIN r = TextFields \cup OtherFields /\ DOMAIN s = TextFields \cup OtherFields
      /\ DOMAIN Act[c] = TextFields \cup OtherFields
      /\ DOMAIN Act[d] = TextFields \cup OtherFields
  BY SubjectFields, CandidatesAreRecords
<1>2. Canonical(Act[c]) = Canonical(Act[d])
  BY DigestIdentifies
<1>3. ASSUME NEW f \in TextFields \cup OtherFields
      PROVE  Canonical(r)[f] = Canonical(s)[f]
  <2>1. CASE f = "authority_context"
    <3>1. /\ DOMAIN p = DOMAIN q
          /\ \A k \in DOMAIN p : k \notin ContextTexts => p[k] = q[k]
          /\ \A k \in DOMAIN p : k \in ContextTexts => Nfc(p[k]) = Nfc(q[k])
      BY SameDigestSameContext
    <3>2. /\ r[f] = [k \in DOMAIN p \ GovernanceKeys |-> p[k]]
          /\ s[f] = [k \in DOMAIN q \ GovernanceKeys |-> q[k]]
      BY <2>1, SubjectFields
    <3>3. /\ Canonical(r)[f] =
               [k \in DOMAIN r[f] |-> IF k \in ContextTexts THEN Nfc(r[f][k]) ELSE r[f][k]]
          /\ Canonical(s)[f] =
               [k \in DOMAIN s[f] |-> IF k \in ContextTexts THEN Nfc(s[f][k]) ELSE s[f][k]]
      <4> HIDE DEF r, s
      <4> QED BY <1>1, <2>1 DEF Canonical, TextFields
    <3> HIDE DEF r, s, p, q
    <3> QED BY <3>1, <3>2, <3>3
  <2>2. CASE f # "authority_context"
    <3>1. r[f] = Act[c][f] /\ s[f] = Act[d][f]
      BY <1>1, <2>2, SubjectFields
    <3>2. Canonical(r)[f] = Canonical(Act[c])[f] /\ Canonical(s)[f] = Canonical(Act[d])[f]
      <4> HIDE DEF r, s
      <4> QED BY <1>1, <2>2, <3>1 DEF Canonical
    <3> QED BY <1>2, <3>2
  <2> QED BY <2>1, <2>2
<1>4. Canonical(r) = Canonical(s)
  <2> HIDE DEF r, s
  <2>1. /\ Canonical(r) = [f \in TextFields \cup OtherFields |-> Canonical(r)[f]]
        /\ Canonical(s) = [f \in TextFields \cup OtherFields |-> Canonical(s)[f]]
    BY <1>1 DEF Canonical
  <2> HIDE DEF Canonical
  <2> QED BY <1>3, <2>1
<1> HIDE DEF p, q
<1> QED BY <1>4 DEF SubjectDigest, SubjectDigests

-----------------------------------------------------------------------------
(* What the verdict says *)

LEMMA BundleProps ==
  ASSUME NEW S, NEW b \in Seq(S)
  PROVE  /\ DOMAIN b = 1 .. Len(b) /\ Len(b) \in Nat
         /\ IsFiniteSet(DOMAIN b) /\ Cardinality(DOMAIN b) = Len(b)
         /\ \A i \in DOMAIN b : i \in Nat /\ b[i] \in S
<1>1. DOMAIN b = 1 .. Len(b) /\ Len(b) \in Nat
  OBVIOUS
<1>2. IsFiniteSet(1 .. Len(b)) /\ Cardinality(1 .. Len(b)) = Len(b)
  BY <1>1, FS_Interval
<1> QED BY <1>1, <1>2

ValidFor(c, r, now) ==
  /\ r.candidate_digest = SubjectDigest(c)
  /\ r.policy_epoch = SovPolicy.policy_epoch
  /\ InWindow(r.approved_at, r.expires_at, now)

\* The loop over approvals passes when all of them are by different approvers and
\* valid, there are enough and every role is among them.
LEMMA ApprovalVerdict ==
  ASSUME NEW c, NEW r \in ApprovalBundles, NEW now
  PROVE  Passes(ApprovalChecks(c, r, now)) <=>
           /\ \A i, j \in DOMAIN r :
                Approval[r[i]].approver_id = Approval[r[j]].approver_id => i = j
           /\ \A i \in DOMAIN r : ValidFor(c, Approval[r[i]], now)
           /\ SovPolicy.threshold # 0 => Cardinality(DOMAIN r) >= SovPolicy.threshold
           /\ SovPolicy.required_roles \subseteq {Approval[r[i]].role : i \in DOMAIN r}
<1> DEFINE first == FirstApprovals(r)
           valid == {i \in first : ValidFor(c, Approval[r[i]], now)}
<1>1. Passes(ApprovalChecks(c, r, now)) <=>
        /\ first = DOMAIN r /\ valid = first
        /\ SovPolicy.threshold # 0 => Cardinality(valid) >= SovPolicy.threshold
        /\ SovPolicy.required_roles \subseteq {Approval[r[i]].role : i \in valid}
  <2> DEFINE k == ApprovalChecks(c, r, now)
  <2>1. DOMAIN k = {"duplicate_approver", "invalid_approval", "approval_threshold_not_met",
                    "required_approval_role_missing"}
    BY DEF ApprovalChecks
  <2>2. Passes(k) <=>
          /\ k.duplicate_approver /\ k.invalid_approval
          /\ k.approval_threshold_not_met /\ k.required_approval_role_missing
    <3> HIDE DEF k
    <3> QED BY <2>1 DEF Passes
  <2>3. /\ k.duplicate_approver <=> first = DOMAIN r
        /\ k.invalid_approval <=> valid = first
        /\ k.approval_threshold_not_met <=>
             (SovPolicy.threshold # 0 => Cardinality(valid) >= SovPolicy.threshold)
        /\ k.required_approval_role_missing <=>
             SovPolicy.required_roles \subseteq {Approval[r[i]].role : i \in valid}
    BY DEF ApprovalChecks, ValidFor
  <2> HIDE DEF first, valid
  <2> QED BY <2>2, <2>3
<1>2. first = DOMAIN r <=>
        \A i, j \in DOMAIN r : Approval[r[i]].approver_id = Approval[r[j]].approver_id => i = j
  <2>1. \A i \in DOMAIN r : i \in Nat
    BY BundlesAreSequences, BundleProps
  <2>2. ASSUME first = DOMAIN r, NEW i \in DOMAIN r, NEW j \in DOMAIN r,
               Approval[r[i]].approver_id = Approval[r[j]].approver_id
        PROVE  i = j
    <3>1. i <= j /\ j <= i
      BY <2>2 DEF FirstApprovals
    <3> QED BY <2>1, <3>1
  <2>3. ASSUME \A i, j \in DOMAIN r :
                 Approval[r[i]].approver_id = Approval[r[j]].approver_id => i = j
        PROVE  first = DOMAIN r
    <3>1. \A i, j \in DOMAIN r :
            Approval[r[j]].approver_id = Approval[r[i]].approver_id => i <= j
      BY <2>1, <2>3
    <3> QED BY <3>1 DEF FirstApprovals
  <2>4. first = DOMAIN r =>
          \A i, j \in DOMAIN r : Approval[r[i]].approver_id = Approval[r[j]].approver_id => i = j
    BY <2>2
  <2> QED BY <2>3, <2>4
<1>3. valid = first <=> \A i \in first : ValidFor(c, Approval[r[i]], now)
  OBVIOUS
<1> HIDE DEF first, valid
<1> QED BY <1>1, <1>2, <1>3

\* The loop over evidence passes when every item does and there are enough of them,
\* of enough issuers.
LEMMA EvidenceVerdict ==
  ASSUME NEW b \in EvidenceBundles, NEW now
  PROVE  Passes(EvidenceChecks(b, now)) <=>
           /\ Len(b) >= SovPolicy.min_items
           /\ \A i, j \in DOMAIN b : Item[b[i]].evidence_id = Item[b[j]].evidence_id => i = j
           /\ \A i \in DOMAIN b :
                /\ AllowsUnlessEmpty(SovPolicy.trusted_issuers, Item[b[i]].issuer)
                /\ AllowsUnlessEmpty(SovPolicy.evidence_types, Item[b[i]].evidence_type)
                /\ Item[b[i]].trust_class \in SovPolicy.trust_classes
                /\ InWindow(Item[b[i]].observed_at, Item[b[i]].expires_at, now)
           /\ Cardinality({Item[b[i]].issuer : i \in DOMAIN b}) >= SovPolicy.min_issuers
           /\ SovPolicy.require_authority_assertion =>
                \E i \in DOMAIN b :
                  Item[b[i]].asserted_jurisdiction = SovPolicy.authority_jurisdiction
<1> DEFINE trusted ==
             {i \in DOMAIN b : AllowsUnlessEmpty(SovPolicy.trusted_issuers, Item[b[i]].issuer)}
<1>1. Passes(EvidenceChecks(b, now)) <=>
        /\ Len(b) >= SovPolicy.min_items
        /\ \A i, j \in DOMAIN b : Item[b[i]].evidence_id = Item[b[j]].evidence_id => i = j
        /\ trusted = DOMAIN b
        /\ \A i \in DOMAIN b : AllowsUnlessEmpty(SovPolicy.evidence_types, Item[b[i]].evidence_type)
        /\ \A i \in DOMAIN b : Item[b[i]].trust_class \in SovPolicy.trust_classes
        /\ \A i \in DOMAIN b : InWindow(Item[b[i]].observed_at, Item[b[i]].expires_at, now)
        /\ Cardinality({Item[b[i]].issuer : i \in trusted}) >= SovPolicy.min_issuers
        /\ SovPolicy.require_authority_assertion =>
             \E i \in DOMAIN b :
               Item[b[i]].asserted_jurisdiction = SovPolicy.authority_jurisdiction
  <2> DEFINE k == EvidenceChecks(b, now)
  <2>1. DOMAIN k = {"insufficient_jurisdiction_evidence", "duplicate_jurisdiction_evidence",
                    "untrusted_issuer", "evidence_type_not_allowed", "trust_class_not_allowed",
                    "from_future_or_expired", "insufficient_independent_issuers",
                    "authority_jurisdiction_missing"}
    BY DEF EvidenceChecks
  <2>2. Passes(k) <=>
          /\ k.insufficient_jurisdiction_evidence /\ k.duplicate_jurisdiction_evidence
          /\ k.untrusted_issuer /\ k.evidence_type_not_allowed /\ k.trust_class_not_allowed
          /\ k.from_future_or_expired /\ k.insufficient_independent_issuers
          /\ k.authority_jurisdiction_missing
    <3> HIDE DEF k
    <3> QED BY <2>1 DEF Passes
  <2>3. /\ k.insufficient_jurisdiction_evidence <=> Len(b) >= SovPolicy.min_items
        /\ k.duplicate_jurisdiction_evidence <=>
             \A i, j \in DOMAIN b : Item[b[i]].evidence_id = Item[b[j]].evidence_id => i = j
        /\ k.untrusted_issuer <=> trusted = DOMAIN b
        /\ k.evidence_type_not_allowed <=>
             \A i \in DOMAIN b : AllowsUnlessEmpty(SovPolicy.evidence_types, Item[b[i]].evidence_type)
    BY DEF EvidenceChecks, Trusted
  <2>4. /\ k.trust_class_not_allowed <=>
             \A i \in DOMAIN b : Item[b[i]].trust_class \in SovPolicy.trust_classes
        /\ k.from_future_or_expired <=>
             \A i \in DOMAIN b : InWindow(Item[b[i]].observed_at, Item[b[i]].expires_at, now)
        /\ k.insufficient_independent_issuers <=>
             Cardinality({Item[b[i]].issuer : i \in trusted}) >= SovPolicy.min_issuers
        /\ k.authority_jurisdiction_missing <=>
             (SovPolicy.require_authority_assertion =>
               \E i \in DOMAIN b :
                 Item[b[i]].asserted_jurisdiction = SovPolicy.authority_jurisdiction)
    BY DEF EvidenceChecks, Trusted
  <2> HIDE DEF trusted
  <2> QED BY <2>2, <2>3, <2>4
<1>2. trusted = DOMAIN b <=>
        \A i \in DOMAIN b : AllowsUnlessEmpty(SovPolicy.trusted_issuers, Item[b[i]].issuer)
  OBVIOUS
<1> HIDE DEF trusted
<1> QED BY <1>1, <1>2

LEMMA ContextVerdict ==
  ASSUME NEW c, NEW x
  PROVE  Passes(ContextChecks(c, x)) <=>
           /\ Act[c].jurisdiction = SovPolicy.authority_jurisdiction
           /\ Act[c].policy_epoch = SovPolicy.policy_epoch
           /\ Allows(SovPolicy.compute_jurisdictions, Compute[x].compute_jurisdiction)
           /\ Allows(SovPolicy.compute_providers, Compute[x].provider_id)
           /\ SovPolicy.runtime_evidence \in {NoLimit, Compute[x].runtime_evidence}
           /\ Act[c].runtime_evidence = Compute[x].runtime_evidence
<1> DEFINE k == ContextChecks(c, x)
<1>1. DOMAIN k = {"authority_jurisdiction_mismatch", "policy_epoch_mismatch",
                  "compute_jurisdiction_not_allowed", "compute_provider_not_allowed",
                  "compute_runtime_mismatch", "candidate_runtime_mismatch"}
  BY DEF ContextChecks
<1>2. Passes(k) <=>
        /\ k.authority_jurisdiction_mismatch /\ k.policy_epoch_mismatch
        /\ k.compute_jurisdiction_not_allowed /\ k.compute_provider_not_allowed
        /\ k.compute_runtime_mismatch /\ k.candidate_runtime_mismatch
  <2> HIDE DEF k
  <2> QED BY <1>1 DEF Passes
<1>3. /\ k.authority_jurisdiction_mismatch <=> Act[c].jurisdiction = SovPolicy.authority_jurisdiction
      /\ k.policy_epoch_mismatch <=> Act[c].policy_epoch = SovPolicy.policy_epoch
      /\ k.compute_jurisdiction_not_allowed <=>
           Allows(SovPolicy.compute_jurisdictions, Compute[x].compute_jurisdiction)
      /\ k.compute_provider_not_allowed <=>
           Allows(SovPolicy.compute_providers, Compute[x].provider_id)
      /\ k.compute_runtime_mismatch <=>
           SovPolicy.runtime_evidence \in {NoLimit, Compute[x].runtime_evidence}
      /\ k.candidate_runtime_mismatch <=>
           Act[c].runtime_evidence = Compute[x].runtime_evidence
  BY DEF ContextChecks
<1> QED BY <1>2, <1>3

-----------------------------------------------------------------------------
(* Effects are governed *)

\* An injection has as many values as arguments.
LEMMA DistinctValues ==
  ASSUME NEW f, IsFiniteSet(DOMAIN f), f = [i \in DOMAIN f |-> f[i]],
         \A i, j \in DOMAIN f : f[i] = f[j] => i = j
  PROVE  Cardinality({f[i] : i \in DOMAIN f}) = Cardinality(DOMAIN f)
<1> DEFINE T == {f[i] : i \in DOMAIN f}
<1>1. f \in Bijection(DOMAIN f, T)
  <2>1. f \in [DOMAIN f -> T]
    OBVIOUS
  <2> QED BY <2>1 DEF Bijection, Injection, Surjection, IsInjective
<1>2. ExistsBijection(DOMAIN f, T)
  BY <1>1 DEF ExistsBijection
<1> HIDE DEF T
<1>3. Cardinality(T) = Cardinality(DOMAIN f)
  BY <1>2, FS_Bijection
<1> QED BY <1>3 DEF T

\* Every approval counts, and there are enough of them.
ApprovalsCount(approvals, c, now) ==
  /\ Counting(approvals, c, now) = DOMAIN approvals
  /\ Cardinality({Approval[approvals[k]].approver_id : k \in DOMAIN approvals})
       >= SovPolicy.threshold
  /\ SovPolicy.required_roles \subseteq {Approval[approvals[k]].role : k \in DOMAIN approvals}

\* What the approvals of an allowed act amount to.
LEMMA ApprovalsSuffice ==
  ASSUME NEW c, NEW x, NEW items \in EvidenceBundles, NEW approvals \in ApprovalBundles,
         NEW now, SignedBundles(items, approvals), Governed(c, x, items, approvals, now)
  PROVE  ApprovalsCount(approvals, c, now)
<1>1. Passes(ApprovalChecks(c, approvals, now))
  BY DEF Governed
<1>2. /\ \A i, j \in DOMAIN approvals :
           Approval[approvals[i]].approver_id = Approval[approvals[j]].approver_id => i = j
      /\ \A i \in DOMAIN approvals : ValidFor(c, Approval[approvals[i]], now)
      /\ SovPolicy.threshold # 0 => Cardinality(DOMAIN approvals) >= SovPolicy.threshold
      /\ SovPolicy.required_roles \subseteq {Approval[approvals[k]].role : k \in DOMAIN approvals}
  BY <1>1, ApprovalVerdict
<1>3. Counting(approvals, c, now) = DOMAIN approvals
  BY <1>2 DEF Counting, ValidFor, SignedBundles, ApprovalsAuthentic
<1>4. Cardinality({Approval[approvals[k]].approver_id : k \in DOMAIN approvals})
        >= SovPolicy.threshold
  <2> DEFINE f == [k \in DOMAIN approvals |-> Approval[approvals[k]].approver_id]
  <2>1. IsFiniteSet(DOMAIN approvals) /\ Cardinality(DOMAIN approvals) \in Nat
    BY BundlesAreSequences, BundleProps
  <2>2. /\ DOMAIN f = DOMAIN approvals /\ f = [i \in DOMAIN f |-> f[i]]
        /\ \A i, j \in DOMAIN f : f[i] = f[j] => i = j
    BY <1>2
  <2>3. {f[k] : k \in DOMAIN f} = {Approval[approvals[k]].approver_id : k \in DOMAIN approvals}
    OBVIOUS
  <2> HIDE DEF f
  <2>4. Cardinality({f[k] : k \in DOMAIN f}) = Cardinality(DOMAIN approvals)
    BY <2>1, <2>2, DistinctValues
  <2>5. Cardinality(DOMAIN approvals) >= SovPolicy.threshold
    BY <1>2, <2>1, ThresholdIsANumber
  <2> QED BY <2>3, <2>4, <2>5
<1> QED BY <1>2, <1>3, <1>4 DEF ApprovalsCount

\* What the evidence of an allowed act amounts to.
LEMMA EvidenceSuffices ==
  ASSUME NEW c, NEW x, NEW items \in EvidenceBundles, NEW approvals \in ApprovalBundles,
         NEW now, SignedBundles(items, approvals), Governed(c, x, items, approvals, now)
  PROVE  /\ CountingItems(items, now) = DOMAIN items
         /\ Cardinality({Item[items[k]].evidence_id : k \in DOMAIN items}) = Len(items)
         /\ Len(items) >= SovPolicy.min_items
         /\ Cardinality({Item[items[k]].issuer : k \in DOMAIN items}) >= SovPolicy.min_issuers
         /\ SovPolicy.require_authority_assertion =>
              \E k \in DOMAIN items :
                Item[items[k]].asserted_jurisdiction = SovPolicy.authority_jurisdiction
<1>1. Passes(EvidenceChecks(items, now))
  BY DEF Governed
<1>2. /\ Len(items) >= SovPolicy.min_items
      /\ \A i, j \in DOMAIN items :
           Item[items[i]].evidence_id = Item[items[j]].evidence_id => i = j
      /\ \A i \in DOMAIN items :
           /\ AllowsUnlessEmpty(SovPolicy.trusted_issuers, Item[items[i]].issuer)
           /\ AllowsUnlessEmpty(SovPolicy.evidence_types, Item[items[i]].evidence_type)
           /\ Item[items[i]].trust_class \in SovPolicy.trust_classes
           /\ InWindow(Item[items[i]].observed_at, Item[items[i]].expires_at, now)
      /\ Cardinality({Item[items[i]].issuer : i \in DOMAIN items}) >= SovPolicy.min_issuers
      /\ SovPolicy.require_authority_assertion =>
           \E i \in DOMAIN items :
             Item[items[i]].asserted_jurisdiction = SovPolicy.authority_jurisdiction
  BY <1>1, EvidenceVerdict
<1>3. CountingItems(items, now) = DOMAIN items
  BY <1>2 DEF CountingItems, SignedBundles, EvidenceAuthentic
<1>4. Cardinality({Item[items[k]].evidence_id : k \in DOMAIN items}) = Len(items)
  <2> DEFINE f == [k \in DOMAIN items |-> Item[items[k]].evidence_id]
  <2>1. IsFiniteSet(DOMAIN items) /\ Cardinality(DOMAIN items) = Len(items)
    BY BundlesAreSequences, BundleProps
  <2>2. /\ DOMAIN f = DOMAIN items /\ f = [i \in DOMAIN f |-> f[i]]
        /\ \A i, j \in DOMAIN f : f[i] = f[j] => i = j
    BY <1>2
  <2>3. {f[k] : k \in DOMAIN f} = {Item[items[k]].evidence_id : k \in DOMAIN items}
    OBVIOUS
  <2> HIDE DEF f
  <2>4. Cardinality({f[k] : k \in DOMAIN f}) = Cardinality(DOMAIN items)
    BY <2>1, <2>2, DistinctValues
  <2> QED BY <2>1, <2>3, <2>4
<1> QED BY <1>2, <1>3, <1>4

\* What the plane judged act c by, and what the act d of an effect carries of it.
CarriesWhatWasJudged(d, c, x, items, approvals, now) ==
  LET ctx == Act[d].authority_context IN
  /\ c \in Candidates /\ d \in Candidates /\ CandidateDigest(c) = CandidateDigest(d)
  /\ SignedBundles(items, approvals)
  /\ Governed(c, x, items, approvals, now)
  /\ GovernanceKeys \subseteq DOMAIN ctx
  /\ ctx.approvals_digest = ApprovalsDigest(approvals)
  /\ ctx.jurisdiction_evidence_digest = EvidenceBundleDigest(items)
  /\ ctx.compute_context_digest = ComputeDigest[x]
  /\ Nfc(ctx.compute_provider_id) = Nfc(Compute[x].provider_id)
  /\ Nfc(ctx.compute_jurisdiction) = Nfc(Compute[x].compute_jurisdiction)

\* The act of every effect carries what the act of its capability was judged by.
LEMMA EffectsCarryWhatWasJudged ==
  ASSUME CoreInv, PlaneInv, NEW i \in DOMAIN effects
  PROVE  \E c \in Candidates, x \in ComputeContexts, items \in EvidenceBundles,
            approvals \in ApprovalBundles :
           CarriesWhatWasJudged(effects[i].call.cand, c, x, items, approvals,
                                effects[i].call.cap.issued_at)
<1> DEFINE l == effects[i].call
           ctx == Act[l.cand].authority_context
           now == l.cap.issued_at
<1>1. /\ l.cand \in Candidates /\ l.cap \in issued
      /\ l.cap.candidate_digest = CandidateDigest(l.cand)
  BY DEF CoreInv, CustodyInv, EffectsHold, Held
<1>2. PICK c \in Candidates :
        l.cap = Capability(c, l.cap.transition_id, now) /\ GovernedAt(c, now)
  BY <1>1 DEF PlaneInv, IssuedAreGoverned
<1>3. CandidateDigest(c) = CandidateDigest(l.cand)
  BY <1>1, <1>2, CapabilityFields
<1>4. PICK x \in ComputeContexts, items \in EvidenceBundles, approvals \in ApprovalBundles :
        /\ IsBound(c, GovernanceContext(x, items, approvals))
        /\ SignedBundles(items, approvals)
        /\ Governed(c, x, items, approvals, now)
  BY <1>2 DEF GovernedAt
<1> DEFINE p == Act[c].authority_context
<1>5. /\ GovernanceKeys \subseteq DOMAIN p
      /\ p.compute_context_digest = ComputeDigest[x]
      /\ p.jurisdiction_evidence_digest = EvidenceBundleDigest(items)
      /\ p.approvals_digest = ApprovalsDigest(approvals)
      /\ p.compute_provider_id = Compute[x].provider_id
      /\ p.compute_jurisdiction = Compute[x].compute_jurisdiction
  BY <1>4 DEF IsBound, GovernanceContext, GovernanceKeys
<1>6. /\ DOMAIN p = DOMAIN ctx
      /\ \A k \in DOMAIN p : k \notin ContextTexts => p[k] = ctx[k]
      /\ \A k \in DOMAIN p : k \in ContextTexts => Nfc(p[k]) = Nfc(ctx[k])
  BY <1>1, <1>3, SameDigestSameContext
<1> HIDE DEF p
<1>7. /\ GovernanceKeys \subseteq DOMAIN ctx
      /\ ctx.compute_context_digest = ComputeDigest[x]
      /\ ctx.jurisdiction_evidence_digest = EvidenceBundleDigest(items)
      /\ ctx.approvals_digest = ApprovalsDigest(approvals)
      /\ Nfc(ctx.compute_provider_id) = Nfc(Compute[x].provider_id)
      /\ Nfc(ctx.compute_jurisdiction) = Nfc(Compute[x].compute_jurisdiction)
  BY <1>5, <1>6 DEF GovernanceKeys, ContextTexts
<1>8. CarriesWhatWasJudged(l.cand, c, x, items, approvals, now)
  BY <1>1, <1>3, <1>4, <1>7 DEF CarriesWhatWasJudged
<1> QED BY <1>8

\* Whatever takes effect carries, bound into the act itself, the approvals the act
\* needed when its capability was issued: no client, and no interleaving of calls,
\* has one bundle judged and another act or bundle effected
\* (AuthorityPlane.authorize, authority_plane.py; SovereigntyPolicy.validate,
\* policy.py; FinalitySink.verify, sink.py).
THEOREM EffectsAreAlwaysApproved == PlaneSpec => []EffectsAreApproved
<1>1. CoreInv /\ PlaneInv => EffectsAreApproved
  <2> SUFFICES ASSUME CoreInv, PlaneInv, NEW i \in DOMAIN effects
               PROVE  LET l == effects[i].call
                          ctx == Act[l.cand].authority_context
                          now == l.cap.issued_at
                      IN
                      /\ "approvals_digest" \in DOMAIN ctx
                      /\ \E approvals \in ApprovalBundles :
                           /\ ctx.approvals_digest = ApprovalsDigest(approvals)
                           /\ Cardinality({Approval[approvals[k]].approver_id :
                                             k \in Counting(approvals, l.cand, now)})
                                >= SovPolicy.threshold
                           /\ SovPolicy.required_roles \subseteq
                                {Approval[approvals[k]].role :
                                   k \in Counting(approvals, l.cand, now)}
    BY DEF EffectsAreApproved
  <2> DEFINE d == effects[i].call.cand
             now == effects[i].call.cap.issued_at
  <2>1. PICK c \in Candidates, x \in ComputeContexts, items \in EvidenceBundles,
             approvals \in ApprovalBundles :
          CarriesWhatWasJudged(d, c, x, items, approvals, now)
    BY EffectsCarryWhatWasJudged
  <2> HIDE DEF d, now
  <2>2. ApprovalsCount(approvals, c, now)
    <3>1. SignedBundles(items, approvals) /\ Governed(c, x, items, approvals, now)
      BY <2>1 DEF CarriesWhatWasJudged
    <3> QED BY <3>1, ApprovalsSuffice
  <2>3. Counting(approvals, d, now) = Counting(approvals, c, now)
    <3>1. SubjectDigest(d) = SubjectDigest(c)
      BY <2>1, SameDigestSameSubject DEF CarriesWhatWasJudged
    <3> QED BY <3>1 DEF Counting
  <2>4. /\ "approvals_digest" \in DOMAIN Act[d].authority_context
        /\ Act[d].authority_context.approvals_digest = ApprovalsDigest(approvals)
    BY <2>1 DEF CarriesWhatWasJudged, GovernanceKeys
  <2> QED BY <2>2, <2>3, <2>4 DEF ApprovalsCount, d, now
<1> QED BY <1>1, PlaneInvAlways, PTL

\* Whatever takes effect carries, bound into the act itself, evidence that sufficed
\* when its capability was issued: genuine, current, by enough independent issuers
\* the policy trusts (SovereigntyPolicy.validate, policy.py).
THEOREM EffectsAreAlwaysEvidenced == PlaneSpec => []EffectsAreEvidenced
<1>1. CoreInv /\ PlaneInv => EffectsAreEvidenced
  <2> SUFFICES ASSUME CoreInv, PlaneInv, NEW i \in DOMAIN effects
               PROVE  LET l == effects[i].call
                          ctx == Act[l.cand].authority_context
                          now == l.cap.issued_at
                      IN
                      /\ "jurisdiction_evidence_digest" \in DOMAIN ctx
                      /\ \E items \in EvidenceBundles :
                           /\ ctx.jurisdiction_evidence_digest = EvidenceBundleDigest(items)
                           /\ CountingItems(items, now) = DOMAIN items
                           /\ Cardinality({Item[items[k]].evidence_id : k \in DOMAIN items})
                                = Len(items)
                           /\ Len(items) >= SovPolicy.min_items
                           /\ Cardinality({Item[items[k]].issuer : k \in DOMAIN items})
                                >= SovPolicy.min_issuers
                           /\ SovPolicy.require_authority_assertion =>
                                \E k \in DOMAIN items :
                                  Item[items[k]].asserted_jurisdiction =
                                    SovPolicy.authority_jurisdiction
    BY DEF EffectsAreEvidenced
  <2> DEFINE d == effects[i].call.cand
             now == effects[i].call.cap.issued_at
  <2>1. PICK c \in Candidates, x \in ComputeContexts, items \in EvidenceBundles,
             approvals \in ApprovalBundles :
          CarriesWhatWasJudged(d, c, x, items, approvals, now)
    BY EffectsCarryWhatWasJudged
  <2> HIDE DEF d, now
  <2>2. /\ CountingItems(items, now) = DOMAIN items
        /\ Cardinality({Item[items[k]].evidence_id : k \in DOMAIN items}) = Len(items)
        /\ Len(items) >= SovPolicy.min_items
        /\ Cardinality({Item[items[k]].issuer : k \in DOMAIN items}) >= SovPolicy.min_issuers
        /\ SovPolicy.require_authority_assertion =>
             \E k \in DOMAIN items :
               Item[items[k]].asserted_jurisdiction = SovPolicy.authority_jurisdiction
    BY <2>1, EvidenceSuffices DEF CarriesWhatWasJudged
  <2>3. /\ "jurisdiction_evidence_digest" \in DOMAIN Act[d].authority_context
        /\ Act[d].authority_context.jurisdiction_evidence_digest = EvidenceBundleDigest(items)
    BY <2>1 DEF CarriesWhatWasJudged, GovernanceKeys
  <2> QED BY <2>2, <2>3 DEF d, now
<1> QED BY <1>1, PlaneInvAlways, PTL

\* Whatever takes effect is of the authority's jurisdiction and epoch and names a
\* compute context of a provider, jurisdiction and runtime the policy allows
\* (SovereigntyPolicy.validate, policy.py).
THEOREM EffectsAlwaysNameAllowedCompute == PlaneSpec => []EffectsNameAllowedCompute
<1>1. CoreInv /\ PlaneInv => EffectsNameAllowedCompute
  <2> SUFFICES ASSUME CoreInv, PlaneInv, NEW i \in DOMAIN effects
               PROVE  LET act == Act[effects[i].call.cand]
                          ctx == act.authority_context
                      IN
                      /\ {"compute_context_digest", "compute_provider_id",
                          "compute_jurisdiction"} \subseteq DOMAIN ctx
                      /\ Nfc(act.jurisdiction) = Nfc(SovPolicy.authority_jurisdiction)
                      /\ act.policy_epoch = SovPolicy.policy_epoch
                      /\ \E x \in ComputeContexts :
                           /\ ctx.compute_context_digest = ComputeDigest[x]
                           /\ Nfc(ctx.compute_provider_id) = Nfc(Compute[x].provider_id)
                           /\ Nfc(ctx.compute_jurisdiction) = Nfc(Compute[x].compute_jurisdiction)
                           /\ Nfc(act.runtime_evidence) = Nfc(Compute[x].runtime_evidence)
                           /\ Allows(SovPolicy.compute_providers, Compute[x].provider_id)
                           /\ Allows(SovPolicy.compute_jurisdictions,
                                     Compute[x].compute_jurisdiction)
                           /\ SovPolicy.runtime_evidence \in {NoLimit, Compute[x].runtime_evidence}
    BY DEF EffectsNameAllowedCompute
  <2> DEFINE d == effects[i].call.cand
             now == effects[i].call.cap.issued_at
  <2>1. PICK c \in Candidates, x \in ComputeContexts, items \in EvidenceBundles,
             approvals \in ApprovalBundles :
          CarriesWhatWasJudged(d, c, x, items, approvals, now)
    BY EffectsCarryWhatWasJudged
  <2> HIDE DEF d, now
  <2>2. Passes(ContextChecks(c, x))
    BY <2>1 DEF CarriesWhatWasJudged, Governed
  <2>3. /\ Act[c].jurisdiction = SovPolicy.authority_jurisdiction
        /\ Act[c].policy_epoch = SovPolicy.policy_epoch
        /\ Allows(SovPolicy.compute_jurisdictions, Compute[x].compute_jurisdiction)
        /\ Allows(SovPolicy.compute_providers, Compute[x].provider_id)
        /\ SovPolicy.runtime_evidence \in {NoLimit, Compute[x].runtime_evidence}
        /\ Act[c].runtime_evidence = Compute[x].runtime_evidence
    BY <2>2, ContextVerdict
  <2>4. /\ Nfc(Act[d].runtime_evidence) = Nfc(Compute[x].runtime_evidence)
        /\ Nfc(Act[d].jurisdiction) = Nfc(SovPolicy.authority_jurisdiction)
        /\ Act[d].policy_epoch = SovPolicy.policy_epoch
    <3>1. c \in Candidates /\ d \in Candidates /\ CandidateDigest(c) = CandidateDigest(d)
      BY <2>1 DEF CarriesWhatWasJudged
    <3> QED BY <2>3, <3>1, SameDigestSameFields
  <2>5. /\ {"compute_context_digest", "compute_provider_id", "compute_jurisdiction"}
             \subseteq DOMAIN Act[d].authority_context
        /\ Act[d].authority_context.compute_context_digest = ComputeDigest[x]
        /\ Nfc(Act[d].authority_context.compute_provider_id) = Nfc(Compute[x].provider_id)
        /\ Nfc(Act[d].authority_context.compute_jurisdiction) =
             Nfc(Compute[x].compute_jurisdiction)
    BY <2>1 DEF CarriesWhatWasJudged, GovernanceKeys
  <2> QED BY <2>3, <2>4, <2>5 DEF d
<1> QED BY <1>1, PlaneInvAlways, PTL

-----------------------------------------------------------------------------
(* The verdict is one over what the digests identify *)

\* If nothing is twice in a bag, nothing is twice in a list with the same bag, and
\* the two list the same.
LEMMA SameBag ==
  ASSUME NEW f, NEW g, IsFiniteSet(DOMAIN f), IsFiniteSet(DOMAIN g),
         f = [i \in DOMAIN f |-> f[i]], g = [i \in DOMAIN g |-> g[i]],
         \A i, j \in DOMAIN f : f[i] = f[j] => i = j,
         BundleDigest(f) = BundleDigest(g)
  PROVE  /\ \A i, j \in DOMAIN g : g[i] = g[j] => i = j
         /\ {f[i] : i \in DOMAIN f} = {g[i] : i \in DOMAIN g}
         /\ Cardinality(DOMAIN f) = Cardinality(DOMAIN g)
<1> DEFINE At(h, d) == {i \in DOMAIN h : h[i] = d}
           Pair(h, d) == <<d, Cardinality(At(h, d))>>
           Values(h) == {h[i] : i \in DOMAIN h}
<1>1. {Pair(f, d) : d \in Values(f)} = {Pair(g, d) : d \in Values(g)}
  BY DEF BundleDigest
<1>2. ASSUME NEW d \in Values(f) PROVE Cardinality(At(f, d)) = 1
  <2>1. PICK i \in DOMAIN f : f[i] = d
    OBVIOUS
  <2>2. At(f, d) = {i}
    BY <2>1
  <2> QED BY <2>2, FS_Singleton
<1>3. ASSUME NEW d \in Values(g)
      PROVE  d \in Values(f) /\ Cardinality(At(g, d)) = 1
  <2>1. Pair(g, d) \in {Pair(f, e) : e \in Values(f)}
    <3> HIDE DEF Pair, Values
    <3> QED BY <1>1
  <2>2. PICK e \in Values(f) : Pair(g, d) = Pair(f, e)
    <3> HIDE DEF Pair, Values
    <3> QED BY <2>1
  <2>3. d = e /\ Cardinality(At(g, d)) = Cardinality(At(f, e))
    <3> HIDE DEF At
    <3> QED BY <2>2
  <2> HIDE DEF At, Values
  <2> QED BY <1>2, <2>3
<1>4. Values(f) \subseteq Values(g)
  <2> SUFFICES ASSUME NEW d \in Values(f) PROVE d \in Values(g)
    OBVIOUS
  <2>1. PICK e \in Values(g) : Pair(f, d) = Pair(g, e)
    <3>1. Pair(f, d) \in {Pair(g, e) : e \in Values(g)}
      <4> HIDE DEF Pair, Values
      <4> QED BY <1>1
    <3> HIDE DEF Pair, Values
    <3> QED BY <3>1
  <2>2. d = e
    <3> HIDE DEF At
    <3> QED BY <2>1
  <2> HIDE DEF Values
  <2> QED BY <2>2
<1>5. ASSUME NEW i \in DOMAIN g, NEW j \in DOMAIN g, g[i] = g[j] PROVE i = j
  <2>1. Cardinality(At(g, g[j])) = 1
    BY <1>3
  <2>2. IsFiniteSet(At(g, g[j]))
    BY FS_Subset
  <2>3. PICK x : At(g, g[j]) = {x}
    <3> HIDE DEF At
    <3> QED BY <2>1, <2>2, FS_Singleton
  <2>4. i \in At(g, g[j]) /\ j \in At(g, g[j])
    BY <1>5
  <2> QED BY <2>3, <2>4
<1>6. Values(f) = Values(g)
  <2> HIDE DEF Values
  <2> QED BY <1>3, <1>4
<1>7. /\ Cardinality(Values(f)) = Cardinality(DOMAIN f)
      /\ Cardinality(Values(g)) = Cardinality(DOMAIN g)
  BY <1>5, DistinctValues
<1> QED BY <1>5, <1>6, <1>7

\* Evidence that passes does so in any order: with one item per digest, a bundle of
\* the same digest holds the same records.
LEMMA EvidenceForgetsOrder ==
  ASSUME NEW b \in EvidenceBundles, NEW d \in EvidenceBundles, NEW now,
         GovernanceIsSpelledOnce, EvidenceBundleDigest(b) = EvidenceBundleDigest(d),
         Passes(EvidenceChecks(b, now))
  PROVE  Passes(EvidenceChecks(d, now))
<1> DEFINE f == [i \in DOMAIN b |-> EvidenceDigest[b[i]]]
           g == [i \in DOMAIN d |-> EvidenceDigest[d[i]]]
<1>1. /\ Len(b) >= SovPolicy.min_items
      /\ \A i, j \in DOMAIN b : Item[b[i]].evidence_id = Item[b[j]].evidence_id => i = j
      /\ \A i \in DOMAIN b :
           /\ AllowsUnlessEmpty(SovPolicy.trusted_issuers, Item[b[i]].issuer)
           /\ AllowsUnlessEmpty(SovPolicy.evidence_types, Item[b[i]].evidence_type)
           /\ Item[b[i]].trust_class \in SovPolicy.trust_classes
           /\ InWindow(Item[b[i]].observed_at, Item[b[i]].expires_at, now)
      /\ Cardinality({Item[b[i]].issuer : i \in DOMAIN b}) >= SovPolicy.min_issuers
      /\ SovPolicy.require_authority_assertion =>
           \E i \in DOMAIN b : Item[b[i]].asserted_jurisdiction = SovPolicy.authority_jurisdiction
  BY EvidenceVerdict
<1>2. /\ IsFiniteSet(DOMAIN b) /\ Cardinality(DOMAIN b) = Len(b)
      /\ IsFiniteSet(DOMAIN d) /\ Cardinality(DOMAIN d) = Len(d)
      /\ \A i \in DOMAIN b : b[i] \in EvidenceItems
      /\ \A i \in DOMAIN d : d[i] \in EvidenceItems
  BY BundlesAreSequences, BundleProps
<1>3. \A x, y \in EvidenceItems : EvidenceDigest[x] = EvidenceDigest[y] => Item[x] = Item[y]
  BY DEF GovernanceIsSpelledOnce
<1>4. /\ DOMAIN f = DOMAIN b /\ f = [i \in DOMAIN f |-> f[i]]
      /\ DOMAIN g = DOMAIN d /\ g = [i \in DOMAIN g |-> g[i]]
      /\ \A i, j \in DOMAIN f : f[i] = f[j] => i = j
      /\ BundleDigest(f) = BundleDigest(g)
  BY <1>1, <1>2, <1>3 DEF EvidenceBundleDigest
<1>5. /\ \A i, j \in DOMAIN g : g[i] = g[j] => i = j
      /\ {f[i] : i \in DOMAIN f} = {g[i] : i \in DOMAIN g}
      /\ Len(b) = Len(d)
  <2> HIDE DEF f, g
  <2> QED BY <1>2, <1>4, SameBag
<1>6. /\ \A i \in DOMAIN d : \E j \in DOMAIN b : f[j] = g[i] /\ Item[b[j]] = Item[d[i]]
      /\ \A j \in DOMAIN b : \E i \in DOMAIN d : Item[b[j]] = Item[d[i]]
  <2>1. \A i \in DOMAIN b, j \in DOMAIN d : f[i] = g[j] => Item[b[i]] = Item[d[j]]
    BY <1>2, <1>3
  <2>2. /\ \A i \in DOMAIN d : \E j \in DOMAIN b : f[j] = g[i]
        /\ \A j \in DOMAIN b : \E i \in DOMAIN d : f[j] = g[i]
    <3> HIDE DEF f, g
    <3>1. /\ DOMAIN f = DOMAIN b /\ DOMAIN g = DOMAIN d
          /\ {f[i] : i \in DOMAIN f} = {g[i] : i \in DOMAIN g}
      BY <1>4, <1>5
    <3>2. /\ \A i \in DOMAIN g : g[i] \in {f[j] : j \in DOMAIN f}
          /\ \A j \in DOMAIN f : f[j] \in {g[i] : i \in DOMAIN g}
      BY <3>1
    <3> QED BY <3>1, <3>2
  <2> HIDE DEF f, g
  <2> QED BY <2>1, <2>2
<1> HIDE DEF f, g
<1>7. \A i, k \in DOMAIN d : Item[d[i]].evidence_id = Item[d[k]].evidence_id => i = k
  <2> SUFFICES ASSUME NEW i \in DOMAIN d, NEW k \in DOMAIN d,
                      Item[d[i]].evidence_id = Item[d[k]].evidence_id
               PROVE  i = k
    OBVIOUS
  <2>1. PICK j \in DOMAIN b : f[j] = g[i] /\ Item[b[j]] = Item[d[i]]
    BY <1>6
  <2>2. PICK m \in DOMAIN b : f[m] = g[k] /\ Item[b[m]] = Item[d[k]]
    BY <1>6
  <2>3. j = m
    BY <1>1, <2>1, <2>2
  <2> QED BY <1>4, <1>5, <2>1, <2>2, <2>3
<1>8. {Item[b[i]].issuer : i \in DOMAIN b} = {Item[d[i]].issuer : i \in DOMAIN d}
  BY <1>6
<1>9. \A i \in DOMAIN d :
        /\ AllowsUnlessEmpty(SovPolicy.trusted_issuers, Item[d[i]].issuer)
        /\ AllowsUnlessEmpty(SovPolicy.evidence_types, Item[d[i]].evidence_type)
        /\ Item[d[i]].trust_class \in SovPolicy.trust_classes
        /\ InWindow(Item[d[i]].observed_at, Item[d[i]].expires_at, now)
  BY <1>1, <1>6
<1>10. SovPolicy.require_authority_assertion =>
         \E i \in DOMAIN d : Item[d[i]].asserted_jurisdiction = SovPolicy.authority_jurisdiction
  BY <1>1, <1>6
<1>11. Len(d) >= SovPolicy.min_items
  BY <1>1, <1>5
<1>12. Cardinality({Item[d[i]].issuer : i \in DOMAIN d}) >= SovPolicy.min_issuers
  BY <1>1, <1>8
<1> QED BY <1>7, <1>9, <1>10, <1>11, <1>12, EvidenceVerdict

\* So do approvals, and for every act with the same subject.
LEMMA ApprovalsForgetOrder ==
  ASSUME NEW b \in ApprovalBundles, NEW d \in ApprovalBundles, NEW now, NEW c, NEW e,
         GovernanceIsSpelledOnce, ApprovalsDigest(b) = ApprovalsDigest(d),
         SubjectDigest(c) = SubjectDigest(e), Passes(ApprovalChecks(c, b, now))
  PROVE  Passes(ApprovalChecks(e, d, now))
<1> DEFINE f == [i \in DOMAIN b |-> ApprovalDigest[b[i]]]
           g == [i \in DOMAIN d |-> ApprovalDigest[d[i]]]
<1>1. /\ \A i, j \in DOMAIN b :
           Approval[b[i]].approver_id = Approval[b[j]].approver_id => i = j
      /\ \A i \in DOMAIN b : ValidFor(c, Approval[b[i]], now)
      /\ SovPolicy.threshold # 0 => Cardinality(DOMAIN b) >= SovPolicy.threshold
      /\ SovPolicy.required_roles \subseteq {Approval[b[i]].role : i \in DOMAIN b}
  BY ApprovalVerdict
<1>2. /\ IsFiniteSet(DOMAIN b) /\ IsFiniteSet(DOMAIN d)
      /\ \A i \in DOMAIN b : b[i] \in Approvals
      /\ \A i \in DOMAIN d : d[i] \in Approvals
  BY BundlesAreSequences, BundleProps
<1>3. \A x, y \in Approvals : ApprovalDigest[x] = ApprovalDigest[y] => Approval[x] = Approval[y]
  BY DEF GovernanceIsSpelledOnce
<1>4. /\ DOMAIN f = DOMAIN b /\ f = [i \in DOMAIN f |-> f[i]]
      /\ DOMAIN g = DOMAIN d /\ g = [i \in DOMAIN g |-> g[i]]
      /\ \A i, j \in DOMAIN f : f[i] = f[j] => i = j
      /\ BundleDigest(f) = BundleDigest(g)
  BY <1>1, <1>2, <1>3 DEF ApprovalsDigest
<1>5. /\ \A i, j \in DOMAIN g : g[i] = g[j] => i = j
      /\ {f[i] : i \in DOMAIN f} = {g[i] : i \in DOMAIN g}
      /\ Cardinality(DOMAIN b) = Cardinality(DOMAIN d)
  <2> HIDE DEF f, g
  <2> QED BY <1>2, <1>4, SameBag
<1>6. /\ \A i \in DOMAIN d : \E j \in DOMAIN b : f[j] = g[i] /\ Approval[b[j]] = Approval[d[i]]
      /\ \A j \in DOMAIN b : \E i \in DOMAIN d : Approval[b[j]] = Approval[d[i]]
  <2>1. \A i \in DOMAIN b, j \in DOMAIN d : f[i] = g[j] => Approval[b[i]] = Approval[d[j]]
    BY <1>2, <1>3
  <2>2. /\ \A i \in DOMAIN d : \E j \in DOMAIN b : f[j] = g[i]
        /\ \A j \in DOMAIN b : \E i \in DOMAIN d : f[j] = g[i]
    <3> HIDE DEF f, g
    <3>1. /\ DOMAIN f = DOMAIN b /\ DOMAIN g = DOMAIN d
          /\ {f[i] : i \in DOMAIN f} = {g[i] : i \in DOMAIN g}
      BY <1>4, <1>5
    <3>2. /\ \A i \in DOMAIN g : g[i] \in {f[j] : j \in DOMAIN f}
          /\ \A j \in DOMAIN f : f[j] \in {g[i] : i \in DOMAIN g}
      BY <3>1
    <3> QED BY <3>1, <3>2
  <2> HIDE DEF f, g
  <2> QED BY <2>1, <2>2
<1> HIDE DEF f, g
<1>7. \A i, k \in DOMAIN d : Approval[d[i]].approver_id = Approval[d[k]].approver_id => i = k
  <2> SUFFICES ASSUME NEW i \in DOMAIN d, NEW k \in DOMAIN d,
                      Approval[d[i]].approver_id = Approval[d[k]].approver_id
               PROVE  i = k
    OBVIOUS
  <2>1. PICK j \in DOMAIN b : f[j] = g[i] /\ Approval[b[j]] = Approval[d[i]]
    BY <1>6
  <2>2. PICK m \in DOMAIN b : f[m] = g[k] /\ Approval[b[m]] = Approval[d[k]]
    BY <1>6
  <2>3. j = m
    BY <1>1, <2>1, <2>2
  <2> QED BY <1>4, <1>5, <2>1, <2>2, <2>3
<1>8. {Approval[b[i]].role : i \in DOMAIN b} = {Approval[d[i]].role : i \in DOMAIN d}
  BY <1>6
<1>9. \A i \in DOMAIN d : ValidFor(e, Approval[d[i]], now)
  BY <1>1, <1>6 DEF ValidFor
<1>10. SovPolicy.threshold # 0 => Cardinality(DOMAIN d) >= SovPolicy.threshold
  BY <1>1, <1>5
<1>11. SovPolicy.required_roles \subseteq {Approval[d[i]].role : i \in DOMAIN d}
  BY <1>1, <1>8
<1> QED BY <1>7, <1>9, <1>10, <1>11, ApprovalVerdict

\* Two acts that the policy and the approvals cannot tell apart.
GovernedAlike(c, e) ==
  /\ SubjectDigest(c) = SubjectDigest(e)
  /\ Act[c].jurisdiction = Act[e].jurisdiction
  /\ Act[c].policy_epoch = Act[e].policy_epoch
  /\ Act[c].runtime_evidence = Act[e].runtime_evidence
  /\ Act[c].payload = Act[e].payload

\* An act and the same act bound to a governance context are governed alike.
LEMMA BoundActIsGovernedAlike ==
  ASSUME NEW c \in Candidates, NEW e \in Candidates, NEW context,
         DOMAIN context = GovernanceKeys, Act[e] = Bind(Act[c], context)
  PROVE  GovernedAlike(c, e)
<1> DEFINE p == Act[c].authority_context
           q == Act[e].authority_context
<1>1. /\ DOMAIN Act[c] = TextFields \cup OtherFields
      /\ DOMAIN Act[e] = TextFields \cup OtherFields
      /\ "authority_context" \in TextFields \cup OtherFields
  BY CandidatesAreRecords DEF OtherFields
<1>2. /\ q = [k \in DOMAIN p \cup GovernanceKeys |->
                IF k \in GovernanceKeys THEN context[k] ELSE p[k]]
      /\ \A f \in DOMAIN Act[c] : f # "authority_context" => Act[e][f] = Act[c][f]
  BY <1>1 DEF Bind
<1>3. [k \in DOMAIN p \ GovernanceKeys |-> p[k]] = [k \in DOMAIN q \ GovernanceKeys |-> q[k]]
  <2>1. DOMAIN q \ GovernanceKeys = DOMAIN p \ GovernanceKeys
    <3> HIDE DEF p, q
    <3> QED BY <1>2
  <2>2. \A k \in DOMAIN p \ GovernanceKeys : q[k] = p[k]
    <3> HIDE DEF p, q
    <3> QED BY <1>2
  <2> HIDE DEF p, q
  <2> QED BY <2>1, <2>2
<1>4. Subject(Act[c]) = Subject(Act[e])
  <2> DEFINE r == Subject(Act[c])
             s == Subject(Act[e])
  <2>1. /\ DOMAIN r = DOMAIN Act[c] /\ DOMAIN s = DOMAIN Act[c]
        /\ \A f \in DOMAIN Act[c] : r[f] = s[f]
    <3>1. /\ DOMAIN r = DOMAIN Act[c] /\ DOMAIN s = DOMAIN Act[c]
          /\ \A f \in DOMAIN Act[c] : f # "authority_context" => r[f] = Act[c][f]
          /\ \A f \in DOMAIN Act[c] : f # "authority_context" => s[f] = Act[e][f]
          /\ r["authority_context"] = [k \in DOMAIN p \ GovernanceKeys |-> p[k]]
          /\ s["authority_context"] = [k \in DOMAIN q \ GovernanceKeys |-> q[k]]
      BY <1>1, SubjectFields
    <3> HIDE DEF r, s, p, q
    <3> QED BY <1>2, <1>3, <3>1
  <2>2. r = [f \in DOMAIN r |-> r[f]] /\ s = [f \in DOMAIN s |-> s[f]]
    BY DEF Subject
  <2>3. r = s
    <3> HIDE DEF r, s
    <3> QED BY <2>1, <2>2
  <2> QED BY <2>3
<1>5. SubjectDigest(c) = SubjectDigest(e)
  BY <1>4 DEF SubjectDigest, SubjectDigests
<1>6. {"jurisdiction", "policy_epoch", "runtime_evidence", "payload"} \subseteq DOMAIN Act[c]
  BY <1>1 DEF TextFields, OtherFields
<1>7. /\ Act[e]["jurisdiction"] = Act[c]["jurisdiction"]
      /\ Act[e]["policy_epoch"] = Act[c]["policy_epoch"]
      /\ Act[e]["runtime_evidence"] = Act[c]["runtime_evidence"]
      /\ Act[e]["payload"] = Act[c]["payload"]
  BY <1>2, <1>6
<1> QED BY <1>5, <1>7 DEF GovernedAlike

\* A verdict holds for whatever has the digests of what it was passed on.
LEMMA VerdictOfDigests ==
  ASSUME NEW c, NEW e, NEW x \in ComputeContexts, NEW y \in ComputeContexts,
         NEW items \in EvidenceBundles, NEW d \in EvidenceBundles,
         NEW approvals \in ApprovalBundles, NEW r \in ApprovalBundles, NEW now,
         GovernanceIsSpelledOnce, GovernedAlike(c, e),
         ComputeDigest[x] = ComputeDigest[y],
         EvidenceBundleDigest(items) = EvidenceBundleDigest(d),
         ApprovalsDigest(approvals) = ApprovalsDigest(r),
         Governed(c, x, items, approvals, now)
  PROVE  Governed(e, y, d, r, now)
<1>1. /\ Passes(ContextChecks(c, x)) /\ Passes(EvidenceChecks(items, now))
      /\ Passes(ApprovalChecks(c, approvals, now)) /\ PayloadOk(c)
  BY DEF Governed
<1>2. Passes(ContextChecks(e, y))
  <2>1. Compute[x] = Compute[y]
    BY DEF GovernanceIsSpelledOnce
  <2>2. /\ Act[c].jurisdiction = SovPolicy.authority_jurisdiction
        /\ Act[c].policy_epoch = SovPolicy.policy_epoch
        /\ Allows(SovPolicy.compute_jurisdictions, Compute[x].compute_jurisdiction)
        /\ Allows(SovPolicy.compute_providers, Compute[x].provider_id)
        /\ SovPolicy.runtime_evidence \in {NoLimit, Compute[x].runtime_evidence}
        /\ Act[c].runtime_evidence = Compute[x].runtime_evidence
    BY <1>1, ContextVerdict
  <2>3. /\ Act[e].jurisdiction = SovPolicy.authority_jurisdiction
        /\ Act[e].policy_epoch = SovPolicy.policy_epoch
        /\ Allows(SovPolicy.compute_jurisdictions, Compute[y].compute_jurisdiction)
        /\ Allows(SovPolicy.compute_providers, Compute[y].provider_id)
        /\ SovPolicy.runtime_evidence \in {NoLimit, Compute[y].runtime_evidence}
        /\ Act[e].runtime_evidence = Compute[y].runtime_evidence
    BY <2>1, <2>2 DEF GovernedAlike
  <2> QED BY <2>3, ContextVerdict
<1>3. Passes(EvidenceChecks(d, now))
  BY <1>1, EvidenceForgetsOrder
<1>4. Passes(ApprovalChecks(e, r, now))
  BY <1>1, ApprovalsForgetOrder DEF GovernedAlike
<1>5. PayloadOk(e)
  BY <1>1 DEF PayloadOk, GovernedAlike
<1> QED BY <1>2, <1>3, <1>4, <1>5 DEF Governed

\* What a call of the plane found, it finds for every bundle with its digests and
\* every act governed like its own.
LEMMA CallsVerdict ==
  ASSUME PlaneInv, GovernanceIsSpelledOnce, NEW a \in Judging, NEW e \in Candidates,
         GovernedAlike(plane[a].cand, e), NEW b \in BundlesOf(plane[a].context)
  PROVE  plane[a].allowed <=> Governed(e, b[1], b[2], b[3], plane[a].now)
<1> DEFINE l == plane[a]
<1>1. PICK x \in ComputeContexts, items \in EvidenceBundles, approvals \in ApprovalBundles :
        /\ l.context = GovernanceContext(x, items, approvals)
        /\ l.allowed = Governed(l.cand, x, items, approvals, l.now)
  BY DEF PlaneInv, CallsAreJudged, JudgedAs
<1>2. /\ l.context.compute_context_digest = ComputeDigest[x]
      /\ l.context.jurisdiction_evidence_digest = EvidenceBundleDigest(items)
      /\ l.context.approvals_digest = ApprovalsDigest(approvals)
  BY <1>1 DEF GovernanceContext
<1>3. /\ b[1] \in ComputeContexts /\ b[2] \in EvidenceBundles /\ b[3] \in ApprovalBundles
      /\ ComputeDigest[b[1]] = ComputeDigest[x]
      /\ EvidenceBundleDigest(b[2]) = EvidenceBundleDigest(items)
      /\ ApprovalsDigest(b[3]) = ApprovalsDigest(approvals)
  <2> HIDE DEF l
  <2> QED BY <1>2 DEF BundlesOf, l
<1>4. GovernedAlike(e, l.cand)
  BY DEF GovernedAlike
<1>5. Governed(l.cand, x, items, approvals, l.now) => Governed(e, b[1], b[2], b[3], l.now)
  BY <1>3, VerdictOfDigests
<1>6. Governed(e, b[1], b[2], b[3], l.now) => Governed(l.cand, x, items, approvals, l.now)
  BY <1>3, <1>4, VerdictOfDigests
<1> HIDE DEF l
<1> QED BY <1>1, <1>5, <1>6 DEF l

\* Whatever order a client lists its evidence and its approvals in, the call gets
\* the same verdict, so the digests bound into the act name a verdict and not one
\* of its orderings (SovereigntyPolicy.validate, policy.py; bundle digests, models.py).
THEOREM VerdictAlwaysForgetsOrder == PlaneSpec => []VerdictForgetsOrder
<1>1. CoreInv /\ PlaneInv => VerdictForgetsOrder
  <2> SUFFICES ASSUME PlaneInv, GovernanceIsSpelledOnce, NEW a \in Judging,
                      NEW b \in BundlesOf(plane[a].context)
               PROVE  plane[a].allowed <=>
                        Governed(plane[a].cand, b[1], b[2], b[3], plane[a].now)
    BY DEF VerdictForgetsOrder
  <2>1. plane[a].cand \in Candidates
    BY DEF PlaneInv, CallsAreJudged, JudgedAs
  <2>2. GovernedAlike(plane[a].cand, plane[a].cand)
    BY DEF GovernedAlike
  <2> QED BY <2>1, <2>2, CallsVerdict
<1> QED BY <1>1, PlaneInvAlways, PTL

\* What the approvers and the policy found of an act they find of the act a client
\* binds to them and presents (bind_governance_context and governance_subject_digest,
\* authority_plane.py and models.py).
THEOREM BindingAlwaysKeepsVerdict == PlaneSpec => []BindingKeepsVerdict
<1>1. CoreInv /\ PlaneInv => BindingKeepsVerdict
  <2> SUFFICES ASSUME PlaneInv, GovernanceIsSpelledOnce, NEW a \in Judging,
                      NEW bound \in Candidates,
                      Act[bound] = Bind(Act[plane[a].cand], plane[a].context),
                      NEW b \in BundlesOf(plane[a].context)
               PROVE  plane[a].allowed <=> Governed(bound, b[1], b[2], b[3], plane[a].now)
    BY DEF BindingKeepsVerdict
  <2>1. plane[a].cand \in Candidates /\ DOMAIN plane[a].context = GovernanceKeys
    <3>1. JudgedAs(plane[a])
      BY DEF PlaneInv, CallsAreJudged
    <3> QED BY <3>1 DEF JudgedAs, GovernanceContext, GovernanceKeys
  <2>2. GovernedAlike(plane[a].cand, bound)
    BY <2>1, BoundActIsGovernedAlike
  <2> QED BY <2>2, CallsVerdict
<1> QED BY <1>1, PlaneInvAlways, PTL

-----------------------------------------------------------------------------
(* What the core promises, behind the plane *)

\* Every step behind the plane is a step of the core, or touches nothing of it but
\* an authorizer that has not reserved yet.
LEMMA PlaneSteps ==
  [PlaneNext]_planeVars
    => [Next]_vars \/ UNCHANGED <<external, protected, sinkSide, clients, call>>
<1> SUFFICES ASSUME [PlaneNext]_planeVars
             PROVE  [Next]_vars \/ UNCHANGED <<external, protected, sinkSide, clients, call>>
  OBVIOUS
<1>1. CASE UNCHANGED planeVars
  BY <1>1 DEF planeVars
<1>2. CASE \E a \in Authorizers, c \in Candidates, x \in ComputeContexts,
              items \in EvidenceBundles, approvals \in ApprovalBundles, cost \in Costs :
             Judge(a, c, x, items, approvals, cost)
  BY <1>2 DEF Judge
<1>3. CASE \E a \in Authorizers : Decide(a)
  BY <1>3 DEF Decide
<1>4. CASE CoreStep \/ PlaneCrash
  BY <1>4 DEF CoreStep, PlaneCrash, Next
<1> QED BY <1>1, <1>2, <1>3, <1>4 DEF PlaneNext

\* The invariants of the core that say what is claimed, effected and returned.
EffectInv == ClaimInv /\ IdInv /\ OneEffectPerNonce /\ ReceiptInv

LEMMA EffectInvInit == Init => EffectInv
<1>1. Init => OneEffectPerNonce
  BY DEF Init, OneEffectPerNonce
<1> QED BY <1>1, ClaimInvInit, IdInvInit, ReceiptInvInit DEF EffectInv

LEMMA EffectInvStep ==
  CoreInv /\ CoreInv' /\ EffectInv /\ [PlaneNext]_planeVars => EffectInv'
<1> SUFFICES ASSUME CoreInv, CoreInv', EffectInv, [PlaneNext]_planeVars PROVE EffectInv'
  OBVIOUS
<1>1. CASE [Next]_vars
  <2>1. TypeOK /\ CustodyInv
    BY DEF CoreInv
  <2>2. ClaimInv' /\ IdInv' /\ ReceiptInv'
    BY <1>1, <2>1, ClaimInvStep, IdInvStep, ReceiptInvStep DEF EffectInv
  <2>3. (AuthorityInv /\ CustodyInv)'
    BY DEF CoreInv
  <2>4. OneEffectPerNonceNow'
    BY <2>2, <2>3, OneNow, PTL
  <2>5. OneEffectPerNonce'
    BY <1>1, <2>1, <2>4, EarlierRunsStay DEF EffectInv
  <2> QED BY <2>2, <2>5 DEF EffectInv
<1>2. CASE UNCHANGED <<external, protected, sinkSide, clients, call>>
  <2>1. UNCHANGED <<crashes, claims, effects, failures, receipts, issued, call>>
    BY <1>2 DEF external, protected, sinkSide, clients
  <2>2. ClaimInv'
    BY <2>1, QuietClaimStep DEF EffectInv
  <2>3. IdInv'
    BY <2>1, QuietIdStep DEF EffectInv
  <2>4. ReceiptInv'
    BY <2>1, QuietReceiptStep DEF EffectInv
  <2>5. OneEffectPerNonce'
    BY <2>1 DEF EffectInv, OneEffectPerNonce, EffectStore
  <2> QED BY <2>2, <2>3, <2>4, <2>5 DEF EffectInv
<1> QED BY <1>1, <1>2, PlaneSteps

\* Judging and deciding, and their interleaving with everything else, disturb no call
\* of a sink (AuthorityPlane.authorize, authority_plane.py).
THEOREM EffectInvAlways == PlaneSpec => []EffectInv
<1>1. PlaneInit => EffectInv
  BY EffectInvInit DEF PlaneInit
<1> QED BY <1>1, EffectInvStep, PlaneInvAlways, PTL DEF PlaneSpec

\* The core keeps its promises when clients reach it only through the plane, which
\* delegates at a time it sampled before, whatever has happened since: what takes
\* effect was authorised and presented by its presenter, once, within the quota, and
\* has a true receipt (AuthorityPlane.authorize, authority_plane.py; authority.py,
\* sink.py and state.py behind it).
THEOREM PlaneKeepsPromises ==
  PlaneSpec => [](/\ AtMostOneEffect /\ FailureIsFinal
                  /\ OneEffectPerNonce /\ EffectsWithinQuota
                  /\ CapabilitiesAreBacked /\ LedgerIsAChain
                  /\ OnlyAuthorisedActsTakeEffect /\ StrictSinksNeedThePresenter
                  /\ ReceiptsNameTheirEffect)
<1>1. CoreInv /\ EffectInv
        => /\ AtMostOneEffect /\ FailureIsFinal
           /\ OneEffectPerNonce /\ EffectsWithinQuota
           /\ CapabilitiesAreBacked /\ LedgerIsAChain
           /\ OnlyAuthorisedActsTakeEffect /\ StrictSinksNeedThePresenter
           /\ ReceiptsNameTheirEffect
  <2> SUFFICES ASSUME CoreInv, EffectInv
               PROVE  /\ AtMostOneEffect /\ FailureIsFinal
                      /\ OneEffectPerNonce /\ EffectsWithinQuota
                      /\ CapabilitiesAreBacked /\ LedgerIsAChain
                      /\ OnlyAuthorisedActsTakeEffect /\ StrictSinksNeedThePresenter
                      /\ ReceiptsNameTheirEffect
    OBVIOUS
  <2>1. AtMostOneEffect /\ FailureIsFinal /\ OneEffectPerNonce
    BY DEF EffectInv, ClaimInv
  <2>2. EffectsWithinQuota
    BY EffectsAreCharged DEF CoreInv, EffectInv
  <2>3. CapabilitiesAreBacked /\ LedgerIsAChain
    BY DEF CoreInv, AuthorityInv, StateInv
  <2>4. OnlyAuthorisedActsTakeEffect
    BY EffectsAreAuthorised DEF CoreInv
  <2>5. StrictSinksNeedThePresenter
    BY PresentersArePresent DEF CoreInv
  <2>6. ReceiptsNameTheirEffect
    BY ReferencesAreUnique DEF EffectInv
  <2> QED BY <2>1, <2>2, <2>3, <2>4, <2>5, <2>6
<1> QED BY <1>1, PlaneInvAlways, EffectInvAlways, PTL

-----------------------------------------------------------------------------
(* The plane and the life of an act *)

\* The governed system as a whole is the abstract life of an act too: with durable
\* stores the plane adds conditions under which authority comes into being and
\* nothing to what becomes of it (authority_plane.py in front of authority.py, sink.py
\* and state.py).
THEOREM PlaneRefines ==
  ASSUME Durable = Stores
  PROVE  PlaneSpec => ImplementsExecutionFinality
<1>1. CoreInv /\ EffectInv /\ [PlaneNext]_planeVars
        => [Abstract!AbstractNext]_(Abstract!abstractVars)
  <2> SUFFICES ASSUME CoreInv, EffectInv, [PlaneNext]_planeVars PROVE AbstractStep
    BY DEF AbstractStep
  <2>1. CASE [Next]_vars
    BY <2>1, StepSimulates DEF CoreInv, EffectInv
  <2>2. CASE UNCHANGED <<external, protected, sinkSide, clients, call>>
    BY <2>2, InvisibleStep DEF sinkSide, clients, protected, external
  <2> QED BY <2>1, <2>2, PlaneSteps
<1>2. PlaneInit => Abstract!AbstractInit
  BY InitSimulates DEF PlaneInit
<1> QED
  BY <1>1, <1>2, PlaneInvAlways, EffectInvAlways, PTL
  DEF PlaneSpec, ImplementsExecutionFinality, Abstract!AbstractSpec

================================================================================
