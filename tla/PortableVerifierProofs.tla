------------------------- MODULE PortableVerifierProofs -------------------------
(***************************************************************************)
(* Theorems about the portable verifiers, for every set of candidates,     *)
(* contexts, costs and times, every normalisation, and any number of       *)
(* restarts of the authority and of changes made to a case on its way.     *)
(***************************************************************************)
EXTENDS PortableVerifier, ProtectedStateProofs

-----------------------------------------------------------------------------
(* Canonical forms *)

\* The fields canonical form treats by their name.
SpecialFields == TextFields \cup {"scope", "authority_context"}

LEMMA CanonicalFields ==
  ASSUME NEW r
  PROVE  /\ DOMAIN Canonical(r) = DOMAIN r
         /\ \A f \in DOMAIN r : f \in TextFields => Canonical(r)[f] = Nfc(r[f])
         /\ \A f \in DOMAIN r : f \notin SpecialFields => Canonical(r)[f] = r[f]
         /\ "scope" \in DOMAIN r =>
              Canonical(r)["scope"] = [i \in DOMAIN r.scope |-> Nfc(r.scope[i])]
BY DEF Canonical, SpecialFields, TextFields

\* What two records with one canonical form have in common.
LEMMA CanonicallyEqual ==
  ASSUME NEW r, NEW s, Canonical(r) = Canonical(s)
  PROVE  /\ DOMAIN r = DOMAIN s
         /\ \A f \in DOMAIN r : f \in TextFields => Nfc(r[f]) = Nfc(s[f])
         /\ \A f \in DOMAIN r : f \notin SpecialFields => r[f] = s[f]
<1>1. DOMAIN r = DOMAIN s
  BY CanonicalFields
<1>2. ASSUME NEW f \in DOMAIN r, f \in TextFields PROVE Nfc(r[f]) = Nfc(s[f])
  <2>1. Canonical(r)[f] = Nfc(r[f]) /\ Canonical(s)[f] = Nfc(s[f])
    BY <1>1, <1>2, CanonicalFields
  <2> QED BY <2>1
<1>3. ASSUME NEW f \in DOMAIN r, f \notin SpecialFields PROVE r[f] = s[f]
  <2>1. Canonical(r)[f] = r[f] /\ Canonical(s)[f] = s[f]
    BY <1>1, <1>3, CanonicalFields
  <2> QED BY <2>1
<1> QED BY <1>1, <1>2, <1>3

LEMMA CanonicallyEqualScopes ==
  ASSUME NEW r, NEW s, Canonical(r) = Canonical(s), "scope" \in DOMAIN r
  PROVE  /\ DOMAIN r.scope = DOMAIN s.scope
         /\ \A i \in DOMAIN r.scope : Nfc(r.scope[i]) = Nfc(s.scope[i])
<1> DEFINE F == [i \in DOMAIN r.scope |-> Nfc(r.scope[i])]
           G == [i \in DOMAIN s.scope |-> Nfc(s.scope[i])]
<1>1. "scope" \in DOMAIN s
  BY CanonicalFields
<1>2. Canonical(r)["scope"] = F /\ Canonical(s)["scope"] = G
  BY <1>1, CanonicalFields
<1>3. F = G
  BY <1>2
<1>4. DOMAIN F = DOMAIN r.scope /\ DOMAIN G = DOMAIN s.scope
  OBVIOUS
<1>5. DOMAIN r.scope = DOMAIN s.scope
  <2> HIDE DEF F, G
  <2> QED BY <1>3, <1>4
<1>6. ASSUME NEW i \in DOMAIN r.scope PROVE Nfc(r.scope[i]) = Nfc(s.scope[i])
  <2>1. F[i] = Nfc(r.scope[i]) /\ G[i] = Nfc(s.scope[i])
    BY <1>5
  <2> HIDE DEF F, G
  <2> QED BY <1>3, <2>1
<1> QED BY <1>5, <1>6

\* A field that is not treated by its name can be added to both sides.
LEMMA CanonicallyEqualWith ==
  ASSUME NEW r, NEW s, NEW f, f \in DOMAIN r, f \in DOMAIN s, f \notin SpecialFields,
         r[f] = s[f], Canonical(Without(r, {f})) = Canonical(Without(s, {f}))
  PROVE  Canonical(r) = Canonical(s)
<1> DEFINE p == Without(r, {f})
           q == Without(s, {f})
<1>1. /\ DOMAIN p = DOMAIN r \ {f} /\ DOMAIN q = DOMAIN s \ {f}
      /\ \A g \in DOMAIN r \ {f} : p[g] = r[g]
      /\ \A g \in DOMAIN s \ {f} : q[g] = s[g]
  BY DEF Without
<1> HIDE DEF p, q
<1>2. DOMAIN p = DOMAIN q
  BY CanonicalFields DEF p, q
<1>3. DOMAIN r = DOMAIN s
  BY <1>1, <1>2
<1>4. ASSUME NEW g \in DOMAIN r PROVE Canonical(r)[g] = Canonical(s)[g]
  <2>1. CASE g = f
    BY <1>3, <2>1, CanonicalFields
  <2>2. CASE g # f
    <3>1. Canonical(p)[g] = Canonical(r)[g]
      BY <1>1, <2>2 DEF Canonical
    <3>2. Canonical(q)[g] = Canonical(s)[g]
      BY <1>1, <1>3, <2>2 DEF Canonical
    <3> QED BY <3>1, <3>2 DEF p, q
  <2> QED BY <2>1, <2>2
<1>5. /\ Canonical(r) = [g \in DOMAIN r |-> Canonical(r)[g]]
      /\ Canonical(s) = [g \in DOMAIN s |-> Canonical(s)[g]]
  BY DEF Canonical
<1> HIDE DEF Canonical
<1> QED BY <1>3, <1>4, <1>5

\* The representative of an act has its digest.
LEMMA Representative ==
  ASSUME NEW c \in Candidates
  PROVE  /\ CandidateDigest(c) \in Candidates
         /\ CandidateDigest(CandidateDigest(c)) = CandidateDigest(c)
<1>1. CandidateDigest(c) \in Candidates
      /\ Canonical(Act[CandidateDigest(c)]) = Canonical(Act[c])
  BY DEF CandidateDigest, Digests
<1> QED BY <1>1, DigestIdentifies

\* Acts with one digest agree on everything a capability says of them.
LEMMA SameDigestSameFields ==
  ASSUME NEW c \in Candidates, NEW d \in Candidates, CandidateDigest(c) = CandidateDigest(d)
  PROVE  /\ \A f \in TextFields : Nfc(Act[c][f]) = Nfc(Act[d][f])
         /\ Act[c].policy_epoch = Act[d].policy_epoch
         /\ Act[c].issued_at = Act[d].issued_at /\ Act[c].freshness = Act[d].freshness
         /\ Act[c].status = Act[d].status
         /\ DOMAIN Act[c].scope = DOMAIN Act[d].scope
         /\ \A i \in DOMAIN Act[c].scope : Nfc(Act[c].scope[i]) = Nfc(Act[d].scope[i])
<1>1. Canonical(Act[c]) = Canonical(Act[d])
  BY DigestIdentifies
<1>2. /\ DOMAIN Act[c] = TextFields \cup OtherFields
      /\ DOMAIN Act[d] = TextFields \cup OtherFields
  BY CandidatesAreRecords
<1>3. \A f \in TextFields : Nfc(Act[c][f]) = Nfc(Act[d][f])
  BY <1>1, <1>2, CanonicallyEqual
<1>4. \A f \in {"policy_epoch", "issued_at", "freshness", "status"} :
        f \in DOMAIN Act[c] /\ f \notin SpecialFields
  BY <1>2 DEF OtherFields, TextFields, SpecialFields
<1>5. \A f \in {"policy_epoch", "issued_at", "freshness", "status"} : Act[c][f] = Act[d][f]
  BY <1>1, <1>4, CanonicallyEqual
<1>6. "scope" \in DOMAIN Act[c]
  BY <1>2 DEF OtherFields
<1> QED BY <1>1, <1>3, <1>5, <1>6, CanonicallyEqualScopes

-----------------------------------------------------------------------------
(* What is exported *)

CapabilityFieldNames ==
  {"authority_id", "candidate_digest", "descriptor_digest", "sink_id", "boundary_id",
   "nonce", "scope", "policy_epoch", "evidence_id", "transition_id", "issued_at",
   "expires_at", "key_id"}

LEMMA ExportedCapability ==
  ASSUME NEW c, NEW tid, NEW now, NEW cap, cap = Capability(c, tid, now)
  PROVE  /\ DOMAIN cap = CapabilityFieldNames \cup {"capability_id", "signature"}
         /\ \A f \in CapabilityFieldNames : cap[f] = CapabilityCore(c, tid, now)[f]
         /\ cap.capability_id = CapabilityId(c, tid, now)
         /\ cap.signature = Sign(AuthorityKey, Unsigned(cap))
         /\ Without(cap, {"capability_id", "signature"}) = CapabilityCore(c, tid, now)
<1> DEFINE core == CapabilityCore(c, tid, now)
           id == CapabilityId(c, tid, now)
           unsigned == WithId(core, "capability_id", id)
<1>1. DOMAIN core = CapabilityFieldNames /\ core = [f \in CapabilityFieldNames |-> core[f]]
  BY DEF CapabilityCore, CapabilityFieldNames
<1>2. "capability_id" \notin CapabilityFieldNames /\ "signature" \notin CapabilityFieldNames
  BY DEF CapabilityFieldNames
<1> HIDE DEF core, id
<1>3. /\ DOMAIN unsigned = CapabilityFieldNames \cup {"capability_id"}
      /\ unsigned["capability_id"] = id
      /\ \A f \in CapabilityFieldNames : unsigned[f] = core[f]
      /\ unsigned = [f \in DOMAIN unsigned |-> unsigned[f]]
  BY <1>1, <1>2 DEF WithId
<1>4. cap = Signed(AuthorityKey, unsigned)
  BY DEF Capability, core, id
<1> HIDE DEF unsigned
<1>5. /\ DOMAIN cap = CapabilityFieldNames \cup {"capability_id", "signature"}
      /\ cap["signature"] = Sign(AuthorityKey, unsigned)
      /\ \A f \in DOMAIN unsigned : cap[f] = unsigned[f]
  BY <1>2, <1>3, <1>4 DEF Signed
<1>6. Unsigned(cap) = unsigned
  <2>1. DOMAIN cap \ {"signature"} = DOMAIN unsigned
    BY <1>2, <1>3, <1>5
  <2> QED BY <1>3, <1>5, <2>1 DEF Unsigned
<1>7. Without(cap, {"capability_id", "signature"}) = core
  <2>1. DOMAIN cap \ {"capability_id", "signature"} = CapabilityFieldNames
    BY <1>2, <1>5
  <2>2. \A f \in CapabilityFieldNames : cap[f] = core[f]
    BY <1>3, <1>5
  <2> QED BY <1>1, <2>1, <2>2 DEF Without
<1> QED BY <1>3, <1>5, <1>6, <1>7 DEF core, id

EvidenceFieldNames ==
  {"authority_id", "descriptor_digest", "candidate_digest", "transition_id", "policy_epoch",
   "decision", "committed_at", "key_id"}

LEMMA ExportedEvidence ==
  ASSUME NEW c, NEW tid, NEW now, NEW ev, ev = Evidence(c, tid, now)
  PROVE  /\ DOMAIN ev = EvidenceFieldNames \cup {"evidence_id", "signature"}
         /\ \A f \in EvidenceFieldNames : ev[f] = EvidenceCore(c, tid, now)[f]
         /\ ev.evidence_id = EvidenceCore(c, tid, now)
         /\ ev.signature = Sign(AuthorityKey, Unsigned(ev))
         /\ Without(ev, {"evidence_id", "signature"}) = EvidenceCore(c, tid, now)
<1> DEFINE core == EvidenceCore(c, tid, now)
           unsigned == WithId(core, "evidence_id", core)
<1>1. DOMAIN core = EvidenceFieldNames /\ core = [f \in EvidenceFieldNames |-> core[f]]
  BY DEF EvidenceCore, EvidenceFieldNames
<1>2. "evidence_id" \notin EvidenceFieldNames /\ "signature" \notin EvidenceFieldNames
  BY DEF EvidenceFieldNames
<1> HIDE DEF core
<1>3. /\ DOMAIN unsigned = EvidenceFieldNames \cup {"evidence_id"}
      /\ unsigned["evidence_id"] = core
      /\ \A f \in EvidenceFieldNames : unsigned[f] = core[f]
      /\ unsigned = [f \in DOMAIN unsigned |-> unsigned[f]]
  BY <1>1, <1>2 DEF WithId
<1>4. ev = Signed(AuthorityKey, unsigned)
  BY DEF Evidence, EvidenceId, core
<1> HIDE DEF unsigned
<1>5. /\ DOMAIN ev = EvidenceFieldNames \cup {"evidence_id", "signature"}
      /\ ev["signature"] = Sign(AuthorityKey, unsigned)
      /\ \A f \in DOMAIN unsigned : ev[f] = unsigned[f]
  BY <1>2, <1>3, <1>4 DEF Signed
<1>6. Unsigned(ev) = unsigned
  <2>1. DOMAIN ev \ {"signature"} = DOMAIN unsigned
    BY <1>2, <1>3, <1>5
  <2> QED BY <1>3, <1>5, <2>1 DEF Unsigned
<1>7. Without(ev, {"evidence_id", "signature"}) = core
  <2>1. DOMAIN ev \ {"evidence_id", "signature"} = EvidenceFieldNames
    BY <1>2, <1>5
  <2>2. \A f \in EvidenceFieldNames : ev[f] = core[f]
    BY <1>3, <1>5
  <2> QED BY <1>1, <2>1, <2>2 DEF Without
<1> QED BY <1>3, <1>5, <1>6, <1>7 DEF core

LEMMA CoreFields ==
  ASSUME NEW c, NEW tid, NEW now
  PROVE  /\ CapabilityCore(c, tid, now).authority_id = AuthorityId
         /\ CapabilityCore(c, tid, now).candidate_digest = CandidateDigest(c)
         /\ CapabilityCore(c, tid, now).descriptor_digest =
              DescriptorDigest(c, Act[c].sink_id, Act[c].boundary_id)
         /\ CapabilityCore(c, tid, now).sink_id = Act[c].sink_id
         /\ CapabilityCore(c, tid, now).boundary_id = Act[c].boundary_id
         /\ CapabilityCore(c, tid, now).nonce = Act[c].nonce
         /\ CapabilityCore(c, tid, now).scope = Act[c].scope
         /\ CapabilityCore(c, tid, now).policy_epoch = Act[c].policy_epoch
         /\ CapabilityCore(c, tid, now).transition_id = tid
         /\ CapabilityCore(c, tid, now).issued_at = now
         /\ CapabilityCore(c, tid, now).expires_at =
              Earlier(Act[c].issued_at + Act[c].freshness, now + CapabilityTtl)
         /\ CapabilityCore(c, tid, now).key_id = AuthorityKey
         /\ EvidenceCore(c, tid, now).authority_id = AuthorityId
         /\ EvidenceCore(c, tid, now).candidate_digest = CandidateDigest(c)
         /\ EvidenceCore(c, tid, now).descriptor_digest =
              DescriptorDigest(c, Act[c].sink_id, Act[c].boundary_id)
         /\ EvidenceCore(c, tid, now).transition_id = tid
         /\ EvidenceCore(c, tid, now).policy_epoch = Act[c].policy_epoch
         /\ EvidenceCore(c, tid, now).decision = "ALLOW"
         /\ EvidenceCore(c, tid, now).committed_at = now
         /\ EvidenceCore(c, tid, now).key_id = AuthorityKey
BY DEF CapabilityCore, EvidenceCore

TransitionFieldNames ==
  {"transition_id", "nonce", "source", "policy_epoch", "before_version", "after_version",
   "quota_before", "quota_after", "budget_before", "budget_after"}

\* Acts with one digest have canonically one transition from a source state.
LEMMA SameDigestSameTransition ==
  ASSUME NEW c \in Candidates, NEW d \in Candidates, CandidateDigest(c) = CandidateDigest(d),
         NEW before, NEW cost
  PROVE  Canonical(Transition(c, before, cost)) = Canonical(Transition(d, before, cost))
<1> DEFINE t == Transition(c, before, cost)
           u == Transition(d, before, cost)
<1>1. /\ DOMAIN t = TransitionFieldNames /\ DOMAIN u = TransitionFieldNames
  BY DEF Transition, TransitionFieldNames
<1>2. \A f \in TransitionFieldNames : f \notin {"nonce", "source"} => f \notin SpecialFields
  BY DEF TransitionFieldNames, SpecialFields, TextFields
<1>3. /\ Nfc(t["nonce"]) = Nfc(u["nonce"]) /\ Nfc(t["source"]) = Nfc(u["source"])
      /\ {"nonce", "source"} \subseteq TextFields
  <2>1. {"nonce", "source"} \subseteq TextFields
    BY DEF TextFields
  <2> QED BY <2>1, SameDigestSameFields, TransitionFields
<1>4. \A f \in TransitionFieldNames : f \notin {"nonce", "source"} => t[f] = u[f]
  <2>1. TransitionId(c, before, cost) = TransitionId(d, before, cost)
    BY DEF TransitionId
  <2>2. Act[c].policy_epoch = Act[d].policy_epoch
    BY SameDigestSameFields
  <2> QED BY <2>1, <2>2, TransitionFields DEF TransitionFieldNames
<1> HIDE DEF t, u
<1>5. ASSUME NEW f \in TransitionFieldNames PROVE Canonical(t)[f] = Canonical(u)[f]
  <2>1. CASE f \in {"nonce", "source"}
    <3>1. f \in TextFields /\ Nfc(t[f]) = Nfc(u[f])
      BY <1>3, <2>1
    <3>2. Canonical(t)[f] = Nfc(t[f]) /\ Canonical(u)[f] = Nfc(u[f])
      BY <1>1, <3>1, CanonicalFields
    <3> QED BY <3>1, <3>2
  <2>2. CASE f \notin {"nonce", "source"}
    BY <1>1, <1>2, <1>4, <2>2, CanonicalFields
  <2> QED BY <2>1, <2>2
<1>6. Canonical(t) = Canonical(u)
  <2>1. /\ Canonical(t) = [f \in TransitionFieldNames |-> Canonical(t)[f]]
        /\ Canonical(u) = [f \in TransitionFieldNames |-> Canonical(u)[f]]
    BY <1>1 DEF Canonical
  <2> HIDE DEF Canonical
  <2> QED BY <1>5, <2>1
<1> QED BY <1>6 DEF t, u

-----------------------------------------------------------------------------
(* The invariant *)

\* The source state and the cost an exported transition names.
Before(x) == x.transition.transition_id.before
Cost(x) == x.transition.transition_id.cost

\* An exported case is the whole of one authorization of a valid act.
AnExport(x) ==
  /\ x.cand \in Candidates /\ x.ctx \in Contexts /\ x.cap.issued_at \in Times
  /\ Before(x) \in [version : Nat, quota : Nat, budget : Nat]
  /\ Cost(x) \in Int /\ Cost(x) > 0
  /\ x.ctx.sink_id = Act[x.cand].sink_id /\ x.ctx.boundary_id = Act[x.cand].boundary_id
  /\ Validate(x.cand, x.cap.issued_at)
  /\ x = Case(x.cand, Transition(x.cand, Before(x), Cost(x)), x.cap.issued_at, x.ctx)

ExportsAreMade == \A x \in exports : AnExport(x)

\* A case given has parts with the fields of exported ones, each field from some
\* export.
Mixed(part) ==
  /\ \E x \in exports : DOMAIN given[part] = DOMAIN x[part]
  /\ \A f \in DOMAIN given[part] : \E x \in exports : given[part][f] = x[part][f]

GivenIsMixed ==
  given # NoCase =>
    /\ DOMAIN given = {"cand", "ctx"} \cup Parts
    /\ given.cand \in Candidates /\ given.ctx \in Contexts
    /\ \A part \in Parts : Mixed(part)

PortableInv == StateInv /\ ExportsAreMade /\ GivenIsMixed

LEMMA CaseFields ==
  ASSUME NEW c, NEW t, NEW now, NEW ctx
  PROVE  /\ DOMAIN Case(c, t, now, ctx) = {"cand", "ctx"} \cup Parts
         /\ Case(c, t, now, ctx).cand = c
         /\ Case(c, t, now, ctx).ctx = ctx
         /\ Case(c, t, now, ctx).hcad = Hcad(c, ctx.sink_id, ctx.boundary_id)
         /\ Case(c, t, now, ctx).transition = t
         /\ Case(c, t, now, ctx).evidence = Evidence(c, t.transition_id, now)
         /\ Case(c, t, now, ctx).cap = Capability(c, t.transition_id, now)
BY DEF Case, Parts

LEMMA ExportIsMade ==
  ASSUME StateInv, NEW c \in Candidates, NEW cost \in Costs, NEW now \in Times,
         NEW ctx \in Contexts, Export(c, cost, now, ctx),
         NEW x, x = Case(c, NextTransition(c, cost), now, ctx)
  PROVE  AnExport(x)
<1> DEFINE before == sources[Act[c].source]
           t == Transition(c, before, cost)
<1>1. TransitionForAuthorization(c, cost) /\ Validate(c, now)
      /\ ctx.sink_id = Act[c].sink_id /\ ctx.boundary_id = Act[c].boundary_id
  BY DEF Export
<1>2. /\ cost \in Int /\ cost > 0
      /\ before \in [version : Nat, quota : Nat, budget : Nat]
  <2>1. StateTypeOK
    BY DEF StateInv
  <2>2. cost \in Int /\ cost > 0 /\ Act[c].source \in Sources
    BY <1>1, <2>1, SourceIsCharged
  <2> QED BY <2>1, <2>2 DEF StateTypeOK
<1>3. x = Case(c, t, now, ctx)
  BY DEF NextTransition
<1>4. t.transition_id.before = before /\ t.transition_id.cost = cost
  BY TransitionFields, TransitionIdFields
<1> HIDE DEF t, before
<1>5. /\ x.cand = c /\ x.ctx = ctx /\ x.transition = t
      /\ x.cap = Capability(c, t.transition_id, now)
  BY <1>3, CaseFields
<1>6. x.cap.issued_at = now
  <2>1. x.cap["issued_at"] = CapabilityCore(c, t.transition_id, now)["issued_at"]
    BY <1>5, ExportedCapability DEF CapabilityFieldNames
  <2> QED BY <2>1, CoreFields
<1>7. Before(x) = before /\ Cost(x) = cost
  BY <1>4, <1>5 DEF Before, Cost
<1> QED BY <1>1, <1>2, <1>3, <1>5, <1>6, <1>7 DEF AnExport, t

LEMMA PortableInvInit == Init => PortableInv
<1> SUFFICES ASSUME Init PROVE PortableInv
  OBVIOUS
<1>1. StateInv
  BY StateInvInit DEF Init
<1> QED BY <1>1 DEF Init, PortableInv, ExportsAreMade, GivenIsMixed

LEMMA ChangeKeepsMixed ==
  ASSUME PortableInv, Change
  PROVE  GivenIsMixed'
<1>1. /\ exports' = exports /\ given # NoCase
      /\ DOMAIN given = {"cand", "ctx"} \cup Parts
      /\ given.cand \in Candidates /\ given.ctx \in Contexts
      /\ \A part \in Parts : Mixed(part)
  BY DEF Change, PortableInv, GivenIsMixed
<1>2. "cand" \notin Parts /\ "ctx" \notin Parts
  BY DEF Parts
<1>3. CASE \E part \in Parts : \E other \in {x[part] : x \in exports} \ {given[part]} :
             given' = [given EXCEPT ![part] = other]
  <2>1. PICK part \in Parts, x \in exports : given' = [given EXCEPT ![part] = x[part]]
    BY <1>3
  <2>2. /\ DOMAIN given' = DOMAIN given /\ given'[part] = x[part]
        /\ \A q \in DOMAIN given \ {part} : given'[q] = given[q]
    BY <1>1, <2>1
  <2>3. \A q \in Parts : Mixed(q)'
    BY <1>1, <2>1, <2>2 DEF Mixed
  <2> QED BY <1>1, <1>2, <2>2, <2>3 DEF GivenIsMixed
<1>4. CASE \/ \E c \in Candidates \ {given.cand} : given' = [given EXCEPT !.cand = c]
           \/ \E ctx \in Contexts \ {given.ctx} : given' = [given EXCEPT !.ctx = ctx]
  <2>1. /\ DOMAIN given' = DOMAIN given /\ \A q \in Parts : given'[q] = given[q]
        /\ given'.cand \in Candidates /\ given'.ctx \in Contexts
    BY <1>1, <1>2, <1>4
  <2>2. \A q \in Parts : Mixed(q)'
    BY <1>1, <2>1 DEF Mixed
  <2> QED BY <1>1, <2>1, <2>2 DEF GivenIsMixed
<1>5. CASE Alter
  <2> PICK part \in Parts :
        \E f \in DOMAIN given[part] :
          \E other \in {x[part][f] : x \in exports} \ {given[part][f]} :
            given' = [given EXCEPT ![part][f] = other]
    BY <1>5 DEF Alter
  <2> PICK f \in DOMAIN given[part] :
        \E other \in {x[part][f] : x \in exports} \ {given[part][f]} :
          given' = [given EXCEPT ![part][f] = other]
    OBVIOUS
  <2> PICK other \in {x[part][f] : x \in exports} :
        given' = [given EXCEPT ![part][f] = other]
    OBVIOUS
  <2>1. PICK x \in exports : other = x[part][f]
    OBVIOUS
  <2>2. /\ DOMAIN given' = DOMAIN given
        /\ given'[part] = [given[part] EXCEPT ![f] = x[part][f]]
        /\ \A q \in DOMAIN given \ {part} : given'[q] = given[q]
    BY <1>1, <2>1
  <2>3. /\ DOMAIN given'[part] = DOMAIN given[part] /\ given'[part][f] = x[part][f]
        /\ \A g \in DOMAIN given[part] \ {f} : given'[part][g] = given[part][g]
    BY <2>2
  <2>4. Mixed(part)'
    BY <1>1, <2>3 DEF Mixed
  <2>5. \A q \in Parts \ {part} : Mixed(q)'
    BY <1>1, <2>2 DEF Mixed
  <2> QED BY <1>1, <1>2, <2>2, <2>4, <2>5 DEF GivenIsMixed
<1> QED BY <1>3, <1>4, <1>5 DEF Change, Exchange

LEMMA PortableInvStep == PortableInv /\ [Next]_<<stateVars, caseVars>> => PortableInv'
<1> SUFFICES ASSUME PortableInv, [Next]_<<stateVars, caseVars>> PROVE PortableInv'
  OBVIOUS
<1>1. CASE \E c \in Candidates, cost \in Costs, now \in Times, ctx \in Contexts :
             Export(c, cost, now, ctx)
  <2>1. PICK c \in Candidates, cost \in Costs, now \in Times, ctx \in Contexts :
          Export(c, cost, now, ctx)
    BY <1>1
  <2>2. StateInv'
    BY <2>1, StateInvStep DEF Export, PortableInv, StateNext
  <2> DEFINE x == Case(c, NextTransition(c, cost), now, ctx)
  <2>3. exports' = exports \cup {x} /\ given' = given
    BY <2>1 DEF Export
  <2>4. AnExport(x)
    BY <2>1, ExportIsMade DEF PortableInv
  <2> HIDE DEF x
  <2>5. ExportsAreMade'
    BY <2>3, <2>4 DEF PortableInv, ExportsAreMade
  <2>6. GivenIsMixed'
    BY <2>3 DEF PortableInv, GivenIsMixed, Mixed
  <2> QED BY <2>2, <2>5, <2>6 DEF PortableInv
<1>2. CASE Restart
  <2>1. StateInit'
    BY <1>2 DEF Restart, StateInit
  <2>2. StateInv'
    BY <2>1, StateInvInit, PTL
  <2> QED BY <1>2, <2>2 DEF Restart, PortableInv, ExportsAreMade, GivenIsMixed, Mixed
<1>3. CASE Give
  <2>1. StateInv' /\ ExportsAreMade'
    BY <1>3, StateInvStep DEF Give, PortableInv, ExportsAreMade
  <2>2. given' \in exports /\ exports' = exports
    BY <1>3 DEF Give
  <2>3. AnExport(given')
    BY <2>2 DEF PortableInv, ExportsAreMade
  <2>4. /\ DOMAIN given' = {"cand", "ctx"} \cup Parts
        /\ given'.cand \in Candidates /\ given'.ctx \in Contexts
    BY <2>3, CaseFields DEF AnExport
  <2> QED BY <2>1, <2>2, <2>4 DEF PortableInv, GivenIsMixed, Mixed
<1>4. CASE Change
  <2>1. StateInv' /\ ExportsAreMade'
    BY <1>4, StateInvStep DEF Change, PortableInv, ExportsAreMade
  <2> QED BY <1>4, <2>1, ChangeKeepsMixed DEF PortableInv
<1>5. CASE UNCHANGED <<stateVars, caseVars>>
  BY <1>5, StateInvStep DEF caseVars, PortableInv, ExportsAreMade, GivenIsMixed, Mixed
<1> QED BY <1>1, <1>2, <1>3, <1>4, <1>5 DEF Next

\* What the authority exports is one whole authorization, and whatever is done to a
\* case on its way, each of its fields is one the authority exported
\* (vectors/generate_finality_case.py).
THEOREM PortableInvAlways == Spec => []PortableInv
BY PortableInvInit, PortableInvStep, PTL DEF Spec

-----------------------------------------------------------------------------
(* One life of the authority *)

\* As long as the authority has not been restarted its sources only move on, so that
\* no transition identifier is exported twice.
OneLifeInv ==
  /\ restarts \in Nat
  /\ restarts = 0 /\ SourcesAreSpelledOnce =>
       /\ \A x \in exports : Before(x).version < sources[Act[x.cand].source].version
       /\ \A x, y \in exports :
            x.transition.transition_id = y.transition.transition_id => x = y

\* The case just exported is of the version its source had, which has moved on.
LEMMA ExportMovesOn ==
  ASSUME StateInv, NEW c \in Candidates, NEW cost \in Costs, NEW now, NEW ctx,
         Export(c, cost, now, ctx), NEW x, x = Case(c, NextTransition(c, cost), now, ctx),
         NEW s, s = Act[c].source
  PROVE  /\ x.cand = c /\ exports' = exports \cup {x} /\ restarts' = restarts
         /\ Before(x) = sources[s]
         /\ x.transition.transition_id.candidate = CandidateDigest(c)
         /\ sources[s].version \in Nat /\ sources'[s].version = sources[s].version + 1
         /\ \A r \in Sources : r # s => sources'[r] = sources[r]
<1> DEFINE t == Transition(c, sources[s], cost)
<1>1. TransitionForAuthorization(c, cost) /\ StateTypeOK
      /\ exports' = exports \cup {x} /\ restarts' = restarts
  BY DEF Export, StateInv
<1>2. x.cand = c /\ x.transition = t
  <2>1. x = Case(c, t, now, ctx)
    BY DEF NextTransition
  <2> HIDE DEF t
  <2> QED BY <2>1, CaseFields
<1>3. t.transition_id.before = sources[s] /\ t.transition_id.candidate = CandidateDigest(c)
  BY TransitionFields, TransitionIdFields
<1>4. /\ s \in Sources /\ sources[s].version \in Nat
      /\ sources' = [sources EXCEPT ![s] =
                       [version |-> sources[s].version + 1, quota |-> sources[s].quota - 1,
                        budget |-> sources[s].budget - cost]]
  BY <1>1, SourceIsCharged
<1>5. /\ sources'[s].version = sources[s].version + 1
      /\ \A r \in Sources : r # s => sources'[r] = sources[r]
  <2>1. sources \in [Sources -> [version : Nat, quota : Nat, budget : Nat]]
    BY <1>1 DEF StateTypeOK
  <2> QED BY <1>4, <2>1
<1> HIDE DEF t
<1>6. Before(x) = sources[s] /\ x.transition.transition_id.candidate = CandidateDigest(c)
  BY <1>2, <1>3 DEF Before
<1> QED BY <1>1, <1>2, <1>4, <1>5, <1>6

\* An exported case's act has a source, and its transition identifier names the act.
LEMMA ExportedAct ==
  ASSUME NEW y, AnExport(y)
  PROVE  /\ y.cand \in Candidates /\ Act[y.cand].source \in Sources
         /\ y.transition.transition_id.candidate = CandidateDigest(y.cand)
         /\ Before(y).version \in Nat
<1> DEFINE t == Transition(y.cand, Before(y), Cost(y))
<1>1. t.transition_id.candidate = CandidateDigest(y.cand)
  BY TransitionFields, TransitionIdFields
<1>2. y = Case(y.cand, t, y.cap.issued_at, y.ctx)
  BY DEF AnExport
<1> HIDE DEF t
<1>3. y.transition = t
  BY <1>2, CaseFields
<1> QED BY <1>1, <1>3, SourcesOfCandidates DEF AnExport

LEMMA ExportKeepsOneLife ==
  ASSUME PortableInv, OneLifeInv, NEW c \in Candidates, NEW cost \in Costs, NEW now \in Times,
         NEW ctx \in Contexts, Export(c, cost, now, ctx)
  PROVE  OneLifeInv'
<1> DEFINE x == Case(c, NextTransition(c, cost), now, ctx)
           s == Act[c].source
<1>1. /\ x.cand = c /\ exports' = exports \cup {x} /\ restarts' = restarts
      /\ Before(x) = sources[s]
      /\ x.transition.transition_id.candidate = CandidateDigest(c)
      /\ sources[s].version \in Nat /\ sources'[s].version = sources[s].version + 1
      /\ \A r \in Sources : r # s => sources'[r] = sources[r]
  BY ExportMovesOn DEF PortableInv
<1> HIDE DEF x
<1> SUFFICES ASSUME restarts = 0, SourcesAreSpelledOnce
             PROVE  /\ \A y \in exports' : Before(y).version < sources'[Act[y.cand].source].version
                    /\ \A y, z \in exports' :
                         y.transition.transition_id = z.transition.transition_id => y = z
  BY <1>1 DEF OneLifeInv, SourcesAreSpelledOnce
<1>2. /\ \A y \in exports : Before(y).version < sources[Act[y.cand].source].version
      /\ \A y, z \in exports : y.transition.transition_id = z.transition.transition_id => y = z
  BY DEF OneLifeInv
<1>3. \A y \in exports : /\ y.cand \in Candidates /\ Act[y.cand].source \in Sources
                         /\ y.transition.transition_id.candidate = CandidateDigest(y.cand)
                         /\ Before(y).version \in Nat
  BY ExportedAct DEF PortableInv, ExportsAreMade
<1>4. ASSUME NEW y \in exports
      PROVE  Before(y).version < sources'[Act[y.cand].source].version
  <2>1. CASE Act[y.cand].source = s
    BY <1>1, <1>2, <1>3, <2>1
  <2>2. CASE Act[y.cand].source # s
    BY <1>1, <1>2, <1>3, <2>2
  <2> QED BY <2>1, <2>2
<1>5. Before(x).version < sources'[Act[x.cand].source].version
  BY <1>1
<1>6. ASSUME NEW y \in exports
      PROVE  y.transition.transition_id # x.transition.transition_id
  <2> SUFFICES ASSUME y.transition.transition_id = x.transition.transition_id PROVE FALSE
    OBVIOUS
  <2>1. CandidateDigest(y.cand) = CandidateDigest(c) /\ Before(y) = sources[s]
    BY <1>1, <1>3 DEF Before
  <2>2. Act[y.cand].source = s
    BY <1>3, <2>1 DEF SourcesAreSpelledOnce
  <2> QED BY <1>1, <1>2, <2>1, <2>2
<1> QED BY <1>1, <1>2, <1>4, <1>5, <1>6

LEMMA OneLifeInvStep ==
  PortableInv /\ OneLifeInv /\ [Next]_<<stateVars, caseVars>> => OneLifeInv'
<1> SUFFICES ASSUME PortableInv, OneLifeInv, [Next]_<<stateVars, caseVars>> PROVE OneLifeInv'
  OBVIOUS
<1>1. CASE \E c \in Candidates, cost \in Costs, now \in Times, ctx \in Contexts :
             Export(c, cost, now, ctx)
  BY <1>1, ExportKeepsOneLife
<1>2. CASE Restart
  <2>1. restarts' \in Nat /\ restarts' # 0
    BY <1>2 DEF Restart, OneLifeInv
  <2> QED BY <2>1 DEF OneLifeInv
<1>3. CASE Give \/ Change \/ UNCHANGED <<stateVars, caseVars>>
  <2>1. UNCHANGED <<sources, exports, restarts>>
    BY <1>3 DEF Give, Change, stateVars, caseVars
  <2> QED BY <2>1 DEF OneLifeInv, SourcesAreSpelledOnce
<1> QED BY <1>1, <1>2, <1>3 DEF Next

\* In one life of the authority a transition identifier is of one authorization, if no
\* act is known under two spellings of its source (transition_for_authorization,
\* state.py).
THEOREM OneLifeInvAlways == Spec => []OneLifeInv
<1>1. Init => OneLifeInv
  BY DEF Init, OneLifeInv
<1> QED BY <1>1, OneLifeInvStep, PortableInvAlways, PTL DEF Spec

-----------------------------------------------------------------------------
(* What the verifiers accept is sound *)

\* What either verifier has compared in a case it accepts.
Compared(case) ==
  LET a == Act[case.cand]
      ctx == case.ctx
      cap == case.cap
      ev == case.evidence
  IN
  /\ CandidateDigest(case.cand) = cap.candidate_digest
  /\ CandidateDigest(case.cand) = ev.candidate_digest
  /\ cap.descriptor_digest = ev.descriptor_digest
  /\ TransitionHashed(case.transition, CandidateDigest(case.cand))
  /\ case.transition.transition_id = cap.transition_id
  /\ case.transition.transition_id = ev.transition_id
  /\ ev.decision = "ALLOW"
  /\ ev.signature = Sign(ctx.key, Unsigned(ev))
  /\ cap.signature = Sign(ctx.key, Unsigned(cap))
  /\ cap.sink_id = ctx.sink_id /\ cap.boundary_id = ctx.boundary_id
  /\ cap.policy_epoch = ctx.policy_epoch /\ cap.authority_id = ev.authority_id
  /\ ScopeSet(cap.scope) \subseteq ctx.supported_scopes
  /\ a.effect_class = ctx.effect_class

LEMMA AcceptedIsCompared ==
  ASSUME NEW case, GoAccepts(case) \/ NodeAccepts(case)
  PROVE  Compared(case)
<1>1. CASE GoAccepts(case)
  BY <1>1 DEF GoAccepts, GoBindsAct, GoBindsTransition, GoAuthentic, GoBindsSink, Mac, Compared
<1>2. CASE NodeAccepts(case)
  BY <1>2 DEF NodeAccepts, NodeBindsAct, NodeBindsTransition, NodeAuthentic, NodeBindsSink, Mac,
              Compared
<1> QED BY <1>1, <1>2

\* The fields of an export.
LEMMA ExportFields ==
  ASSUME NEW x, AnExport(x), NEW c, c = x.cand, NEW now, now = x.cap.issued_at
  PROVE  /\ x.hcad = Hcad(c, x.ctx.sink_id, x.ctx.boundary_id)
         /\ x.transition = Transition(c, Before(x), Cost(x))
         /\ x.evidence = Evidence(c, TransitionId(c, Before(x), Cost(x)), now)
         /\ x.cap = Capability(c, TransitionId(c, Before(x), Cost(x)), now)
<1> DEFINE t == Transition(c, Before(x), Cost(x))
<1>1. x = Case(c, t, now, x.ctx)
  BY DEF AnExport
<1>2. t.transition_id = TransitionId(c, Before(x), Cost(x))
  BY TransitionFields
<1> HIDE DEF t
<1>3. /\ x.hcad = Hcad(c, x.ctx.sink_id, x.ctx.boundary_id) /\ x.transition = t
      /\ x.evidence = Evidence(c, t.transition_id, now)
      /\ x.cap = Capability(c, t.transition_id, now)
  BY <1>1, CaseFields
<1> QED BY <1>2, <1>3 DEF t

LEMMA ExportedParts ==
  ASSUME NEW x, AnExport(x)
  PROVE  /\ DOMAIN x.cap = CapabilityFieldNames \cup {"capability_id", "signature"}
         /\ DOMAIN x.evidence = EvidenceFieldNames \cup {"evidence_id", "signature"}
         /\ DOMAIN x.transition = TransitionFieldNames
         /\ x.cap.signature = Sign(AuthorityKey, Unsigned(x.cap))
         /\ x.evidence.signature = Sign(AuthorityKey, Unsigned(x.evidence))
         /\ x.transition.transition_id = TransitionId(x.cand, Before(x), Cost(x))
<1> DEFINE c == x.cand
           now == x.cap.issued_at
           tid == TransitionId(x.cand, Before(x), Cost(x))
<1>1. x.cap = Capability(c, tid, now) /\ x.evidence = Evidence(c, tid, now)
      /\ x.transition = Transition(c, Before(x), Cost(x))
  BY ExportFields
<1>2. DOMAIN x.transition = TransitionFieldNames
  BY <1>1 DEF Transition, TransitionFieldNames
<1>3. x.transition.transition_id = tid
  BY <1>1, TransitionFields
<1> HIDE DEF c, now, tid
<1>4. /\ DOMAIN x.cap = CapabilityFieldNames \cup {"capability_id", "signature"}
      /\ x.cap.signature = Sign(AuthorityKey, Unsigned(x.cap))
  <2> DEFINE cap == x.cap
  <2>1. cap = Capability(c, tid, now)
    BY <1>1
  <2> HIDE DEF cap
  <2>2. /\ DOMAIN cap = CapabilityFieldNames \cup {"capability_id", "signature"}
        /\ cap.signature = Sign(AuthorityKey, Unsigned(cap))
    BY <2>1, ExportedCapability
  <2> QED BY <2>2 DEF cap
<1>5. /\ DOMAIN x.evidence = EvidenceFieldNames \cup {"evidence_id", "signature"}
      /\ x.evidence.signature = Sign(AuthorityKey, Unsigned(x.evidence))
  BY <1>1, ExportedEvidence
<1> QED BY <1>2, <1>3, <1>4, <1>5 DEF tid

\* What the capability and the evidence of an export say.
LEMMA ExportSays ==
  ASSUME NEW x, AnExport(x), NEW c, c = x.cand
  PROVE  /\ x.cap.authority_id = AuthorityId /\ x.evidence.authority_id = AuthorityId
         /\ x.cap.candidate_digest = CandidateDigest(c)
         /\ x.evidence.candidate_digest = CandidateDigest(c)
         /\ x.cap.descriptor_digest = DescriptorDigest(c, Act[c].sink_id, Act[c].boundary_id)
         /\ x.evidence.descriptor_digest = DescriptorDigest(c, Act[c].sink_id, Act[c].boundary_id)
         /\ x.cap.sink_id = Act[c].sink_id /\ x.cap.boundary_id = Act[c].boundary_id
         /\ x.cap.nonce = Act[c].nonce /\ x.cap.scope = Act[c].scope
         /\ x.cap.policy_epoch = Act[c].policy_epoch
         /\ x.evidence.policy_epoch = Act[c].policy_epoch
         /\ x.cap.transition_id = x.transition.transition_id
         /\ x.evidence.transition_id = x.transition.transition_id
         /\ x.cap.expires_at =
              Earlier(Act[c].issued_at + Act[c].freshness, x.cap.issued_at + CapabilityTtl)
         /\ x.cap.key_id = AuthorityKey /\ x.evidence.key_id = AuthorityKey
         /\ x.evidence.decision = "ALLOW"
<1> DEFINE now == x.cap.issued_at
           tid == TransitionId(x.cand, Before(x), Cost(x))
           k == CapabilityCore(c, tid, now)
           e == EvidenceCore(c, tid, now)
<1>1. x.cap = Capability(c, tid, now) /\ x.evidence = Evidence(c, tid, now)
  BY ExportFields
<1>2. x.transition.transition_id = tid
  BY ExportedParts
<1>3. (\A f \in CapabilityFieldNames : x.cap[f] = k[f])
      /\ (\A f \in EvidenceFieldNames : x.evidence[f] = e[f])
  <2> HIDE DEF now, tid
  <2> QED BY <1>1, ExportedCapability, ExportedEvidence
<1>4. /\ k.authority_id = AuthorityId /\ k.candidate_digest = CandidateDigest(c)
      /\ k.descriptor_digest = DescriptorDigest(c, Act[c].sink_id, Act[c].boundary_id)
      /\ k.sink_id = Act[c].sink_id /\ k.boundary_id = Act[c].boundary_id
      /\ k.nonce = Act[c].nonce /\ k.scope = Act[c].scope
      /\ k.policy_epoch = Act[c].policy_epoch /\ k.transition_id = tid
      /\ k.expires_at = Earlier(Act[c].issued_at + Act[c].freshness, now + CapabilityTtl)
      /\ k.key_id = AuthorityKey
  BY CoreFields
<1>5. /\ e.authority_id = AuthorityId /\ e.candidate_digest = CandidateDigest(c)
      /\ e.descriptor_digest = DescriptorDigest(c, Act[c].sink_id, Act[c].boundary_id)
      /\ e.policy_epoch = Act[c].policy_epoch /\ e.transition_id = tid
      /\ e.decision = "ALLOW" /\ e.key_id = AuthorityKey
  BY CoreFields
<1> HIDE DEF k, e, tid
<1>6. /\ x.cap.authority_id = k.authority_id /\ x.cap.candidate_digest = k.candidate_digest
      /\ x.cap.descriptor_digest = k.descriptor_digest /\ x.cap.sink_id = k.sink_id
      /\ x.cap.boundary_id = k.boundary_id /\ x.cap.nonce = k.nonce /\ x.cap.scope = k.scope
      /\ x.cap.policy_epoch = k.policy_epoch /\ x.cap.transition_id = k.transition_id
      /\ x.cap.expires_at = k.expires_at /\ x.cap.key_id = k.key_id
  BY <1>3 DEF CapabilityFieldNames
<1>7. /\ x.evidence.authority_id = e.authority_id
      /\ x.evidence.candidate_digest = e.candidate_digest
      /\ x.evidence.descriptor_digest = e.descriptor_digest
      /\ x.evidence.policy_epoch = e.policy_epoch /\ x.evidence.transition_id = e.transition_id
      /\ x.evidence.decision = e.decision /\ x.evidence.key_id = e.key_id
  BY <1>3 DEF EvidenceFieldNames
<1> QED BY <1>2, <1>4, <1>5, <1>6, <1>7

\* A signature fixes its key and the canonical form of what it was made over.
LEMMA SignedAlike ==
  ASSUME NEW r, NEW s, NEW k, NEW l, "signature" \in DOMAIN r, "signature" \in DOMAIN s,
         r.signature = s.signature, r.signature = Sign(k, Unsigned(r)),
         s.signature = Sign(l, Unsigned(s))
  PROVE  k = l /\ Canonical(r) = Canonical(s)
<1>1. Sign(k, Unsigned(r)) = Sign(l, Unsigned(s))
  OBVIOUS
<1>2. /\ Sign(k, Unsigned(r)).by = k /\ Sign(l, Unsigned(s)).by = l
      /\ Sign(k, Unsigned(r)).over = Canonical(Unsigned(r))
      /\ Sign(l, Unsigned(s)).over = Canonical(Unsigned(s))
  BY DEF Sign
<1>3. k = l /\ Canonical(Unsigned(r)) = Canonical(Unsigned(s))
  <2> HIDE DEF Sign, Canonical, Unsigned
  <2> QED BY <1>1, <1>2
<1>4. Unsigned(r) = Without(r, {"signature"}) /\ Unsigned(s) = Without(s, {"signature"})
  BY DEF Unsigned, Without
<1>5. "signature" \notin SpecialFields
  BY DEF SpecialFields, TextFields
<1> QED BY <1>3, <1>4, <1>5, CanonicallyEqualWith

\* The capability and the evidence of an accepted case are exported ones, in
\* another spelling at most.
LEMMA AcceptedCapability ==
  ASSUME PortableInv, given # NoCase, Compared(given)
  PROVE  \E x \in exports : /\ AnExport(x) /\ given.ctx.key = AuthorityKey
                            /\ Canonical(given.cap) = Canonical(x.cap)
<1>1. Mixed("cap")
  BY DEF PortableInv, GivenIsMixed, Parts
<1>2. \A x \in exports : AnExport(x)
  BY DEF PortableInv, ExportsAreMade
<1>3. "signature" \in DOMAIN given.cap
  BY <1>1, <1>2, ExportedParts DEF Mixed
<1>4. PICK x \in exports : given.cap["signature"] = x.cap["signature"]
  BY <1>1, <1>3 DEF Mixed
<1>5. "signature" \in DOMAIN x.cap /\ x.cap.signature = Sign(AuthorityKey, Unsigned(x.cap))
  BY <1>2, ExportedParts
<1>6. given.cap.signature = Sign(given.ctx.key, Unsigned(given.cap))
  BY DEF Compared
<1> QED BY <1>2, <1>3, <1>4, <1>5, <1>6, SignedAlike

LEMMA AcceptedEvidence ==
  ASSUME PortableInv, given # NoCase, Compared(given)
  PROVE  \E x \in exports : AnExport(x) /\ Canonical(given.evidence) = Canonical(x.evidence)
<1>1. Mixed("evidence")
  BY DEF PortableInv, GivenIsMixed, Parts
<1>2. \A x \in exports : AnExport(x)
  BY DEF PortableInv, ExportsAreMade
<1>3. "signature" \in DOMAIN given.evidence
  BY <1>1, <1>2, ExportedParts DEF Mixed
<1>4. PICK x \in exports : given.evidence["signature"] = x.evidence["signature"]
  BY <1>1, <1>3 DEF Mixed
<1>5. /\ "signature" \in DOMAIN x.evidence
      /\ x.evidence.signature = Sign(AuthorityKey, Unsigned(x.evidence))
  BY <1>2, ExportedParts
<1>6. given.evidence.signature = Sign(given.ctx.key, Unsigned(given.evidence))
  BY DEF Compared
<1> QED BY <1>2, <1>3, <1>4, <1>5, <1>6, SignedAlike

\* What a capability in another spelling shares with the exported one.
LEMMA RespelledCapability ==
  ASSUME NEW x, AnExport(x), NEW cap, Canonical(cap) = Canonical(x.cap)
  PROVE  /\ cap.candidate_digest = x.cap.candidate_digest
         /\ cap.descriptor_digest = x.cap.descriptor_digest
         /\ cap.transition_id = x.cap.transition_id
         /\ cap.policy_epoch = x.cap.policy_epoch
         /\ cap.authority_id = x.cap.authority_id
         /\ Nfc(cap.sink_id) = Nfc(x.cap.sink_id)
         /\ Nfc(cap.boundary_id) = Nfc(x.cap.boundary_id)
         /\ DOMAIN cap.scope = DOMAIN x.cap.scope
         /\ \A i \in DOMAIN x.cap.scope : Nfc(cap.scope[i]) = Nfc(x.cap.scope[i])
<1> DEFINE raw == {"candidate_digest", "descriptor_digest", "transition_id", "policy_epoch",
                   "authority_id"}
<1>1. DOMAIN x.cap = CapabilityFieldNames \cup {"capability_id", "signature"}
  BY ExportedParts
<1>2. DOMAIN cap = DOMAIN x.cap
  BY CanonicallyEqual
<1>3. /\ raw \subseteq DOMAIN cap /\ "scope" \in DOMAIN cap
      /\ \A f \in raw : f \notin SpecialFields
      /\ {"sink_id", "boundary_id"} \subseteq DOMAIN cap \cap TextFields
  BY <1>1, <1>2 DEF CapabilityFieldNames, SpecialFields, TextFields
<1>4. \A f \in raw : cap[f] = x.cap[f]
  <2> HIDE DEF raw
  <2> QED BY <1>3, CanonicallyEqual
<1>5. \A f \in {"sink_id", "boundary_id"} : Nfc(cap[f]) = Nfc(x.cap[f])
  BY <1>3, CanonicallyEqual
<1>6. /\ DOMAIN cap.scope = DOMAIN x.cap.scope
      /\ \A i \in DOMAIN cap.scope : Nfc(cap.scope[i]) = Nfc(x.cap.scope[i])
  BY <1>3, CanonicallyEqualScopes
<1> QED BY <1>4, <1>5, <1>6

LEMMA RespelledEvidence ==
  ASSUME NEW x, AnExport(x), NEW ev, Canonical(ev) = Canonical(x.evidence)
  PROVE  /\ ev.candidate_digest = x.evidence.candidate_digest
         /\ ev.policy_epoch = x.evidence.policy_epoch
         /\ ev.key_id = x.evidence.key_id
         /\ ev.transition_id = x.evidence.transition_id
<1> DEFINE raw == {"candidate_digest", "policy_epoch", "key_id", "transition_id"}
<1>1. DOMAIN x.evidence = EvidenceFieldNames \cup {"evidence_id", "signature"}
  BY ExportedParts
<1>2. DOMAIN ev = DOMAIN x.evidence
  BY CanonicallyEqual
<1>3. raw \subseteq DOMAIN ev /\ \A f \in raw : f \notin SpecialFields
  BY <1>1, <1>2 DEF EvidenceFieldNames, SpecialFields, TextFields
<1>4. \A f \in raw : ev[f] = x.evidence[f]
  <2> HIDE DEF raw
  <2> QED BY <1>3, CanonicallyEqual
<1> QED BY <1>4

\* The transition of an accepted case is that of its capability.
LEMMA AcceptedTransition ==
  ASSUME PortableInv, given # NoCase, Compared(given), NEW x \in exports, AnExport(x),
         CandidateDigest(x.cand) = CandidateDigest(given.cand),
         given.cap.transition_id = x.cap.transition_id
  PROVE  Canonical(x.transition) = Canonical(given.transition)
<1> DEFINE t == given.transition
           c == x.cand
           d == CandidateDigest(given.cand)
           id == TransitionId(c, Before(x), Cost(x))
           made == Transition(d, Before(x), Cost(x))
<1>1. c \in Candidates /\ given.cand \in Candidates
  BY DEF AnExport, PortableInv, GivenIsMixed
<1>2. d \in Candidates /\ CandidateDigest(d) = CandidateDigest(c)
  BY <1>1, Representative
<1>3. /\ x.transition = Transition(c, Before(x), Cost(x)) /\ x.transition.transition_id = id
      /\ DOMAIN x.transition = TransitionFieldNames
  BY ExportFields, ExportedParts
<1>4. t.transition_id = id
  BY <1>3, ExportSays DEF Compared
<1>5. Canonical(Without(t, {"transition_id"})) = Canonical(Without(made, {"transition_id"}))
  <2>1. TransitionHashed(t, d)
    BY DEF Compared
  <2>2. id.before = Before(x) /\ id.cost = Cost(x)
    BY TransitionIdFields
  <2> HIDE DEF t, d, id
  <2> QED BY <1>4, <2>1, <2>2 DEF TransitionHashed
<1>6. "transition_id" \in DOMAIN t
  <2>1. Mixed("transition") /\ \A y \in exports : AnExport(y)
    BY DEF PortableInv, GivenIsMixed, Parts, ExportsAreMade
  <2> QED BY <2>1, ExportedParts DEF Mixed, TransitionFieldNames
<1>7. /\ "transition_id" \in DOMAIN made /\ made.transition_id = id
      /\ "transition_id" \notin SpecialFields
  <2>1. made.transition_id = TransitionId(d, Before(x), Cost(x))
    BY TransitionFields
  <2>2. TransitionId(d, Before(x), Cost(x)) = id
    BY <1>2 DEF TransitionId
  <2> QED BY <2>1, <2>2 DEF Transition, SpecialFields, TextFields
<1>8. Canonical(made) = Canonical(x.transition)
  <2> HIDE DEF c, d
  <2> QED BY <1>1, <1>2, <1>3, SameDigestSameTransition
<1> HIDE DEF t, made
<1>9. Canonical(t) = Canonical(made)
  BY <1>4, <1>5, <1>6, <1>7, CanonicallyEqualWith
<1> QED BY <1>8, <1>9 DEF t

\* An act and a sink with the same names in one spelling: the sink takes the act as
\* it was authorised whenever its capability is current.
LEMMA SinkTakesTheOriginal ==
  ASSUME NEW x, AnExport(x), NEW ctx \in Contexts, NEW a, a = Act[x.cand],
         ctx.key = AuthorityKey, ctx.policy_epoch = a.policy_epoch,
         \A f \in SinkNames : a[f] = ctx[f],
         \A i \in DOMAIN a.scope : a.scope[i] \in ctx.supported_scopes,
         NEW now \in x.cap.issued_at .. x.cap.expires_at
  PROVE  PresentedOk(ctx, x.cand, x.cap, NoProof, now)
<1> DEFINE c == x.cand
           cap == x.cap
<1>1. /\ c \in Candidates /\ cap.issued_at \in Int /\ Validate(c, cap.issued_at)
      /\ ctx.skew \in Nat /\ ctx.require_proof = FALSE
  BY TimesAreNumbers, ContextsAreBasic DEF AnExport
<1>2. /\ cap.candidate_digest = CandidateDigest(c)
      /\ cap.descriptor_digest = DescriptorDigest(c, a.sink_id, a.boundary_id)
      /\ cap.sink_id = a.sink_id /\ cap.boundary_id = a.boundary_id
      /\ cap.nonce = a.nonce /\ cap.scope = a.scope /\ cap.policy_epoch = a.policy_epoch
      /\ cap.expires_at = Earlier(a.issued_at + a.freshness, cap.issued_at + CapabilityTtl)
      /\ cap.key_id = AuthorityKey
  BY ExportSays
<1>3. cap.signature = Sign(AuthorityKey, Unsigned(cap))
  BY ExportedParts
<1>4. a.status = "NON_EFFECTIVE"
  <2> DEFINE k == PolicyChecks(c, cap.issued_at)
  <2>1. "candidate_not_non_effective" \in DOMAIN k
    BY DEF PolicyChecks
  <2>2. k.candidate_not_non_effective
    <3> HIDE DEF k
    <3> QED BY <1>1, <2>1 DEF Validate, k
  <2>3. k.candidate_not_non_effective <=> a.status = "NON_EFFECTIVE"
    BY DEF PolicyChecks
  <2> QED BY <2>2, <2>3
<1>5. a.issued_at \in Int /\ a.freshness \in Int /\ CapabilityTtl \in Int
  BY <1>1, CandidatesAreRecords, TtlIsANumber
<1>6. cap.expires_at \in Int /\ cap.expires_at <= a.issued_at + a.freshness
  BY <1>1, <1>2, <1>5 DEF Earlier
<1>7. now \in Int /\ now >= cap.issued_at - ctx.skew /\ now <= cap.expires_at
  BY <1>1, <1>6
<1>8. /\ a.effect_class = ctx.effect_class /\ a.sink_id = ctx.sink_id
      /\ a.boundary_id = ctx.boundary_id
  BY DEF SinkNames
<1>9. ScopeSet(cap.scope) \subseteq ctx.supported_scopes
  BY <1>2 DEF ScopeSet
<1>10. CapabilityVerifies(ctx, cap)
  BY <1>2, <1>3 DEF CapabilityVerifies, Verify
<1>11. PresentationOk(ctx, c, cap, NoProof, now)
  BY <1>1 DEF PresentationOk
<1> HIDE DEF c, cap
<1> QED BY <1>2, <1>4, <1>6, <1>7, <1>8, <1>9, <1>10, <1>11 DEF PresentedOk, c, cap

\* The capability and transition a portable verifier accepts are those of one
\* authorization of the canonically same act, and the evidence is that of an
\* authorization with the same transition identifier, whatever parts and fields of other
\* cases were put into the file, before or after whatever restarts; with no restart the
\* two authorizations are one (cmd/finalityverify/main.go, finality_verify.mjs).
THEOREM OfflineIsAlwaysSound == Spec => []OfflineIsSound
<1>1. PortableInv /\ OneLifeInv => OfflineIsSound
  <2> SUFFICES ASSUME PortableInv, OneLifeInv, given # NoCase, GoAccepts(given) \/ NodeAccepts(given)
               PROVE  /\ EvidenceOk(given.ctx, given.cap, given.evidence)
                      /\ \E x, y \in exports :
                           /\ Canonical(x.cap) = Canonical(given.cap)
                           /\ Canonical(x.transition) = Canonical(given.transition)
                           /\ Canonical(y.evidence) = Canonical(given.evidence)
                           /\ CandidateDigest(x.cand) = CandidateDigest(given.cand)
                           /\ CandidateDigest(y.cand) = CandidateDigest(given.cand)
                           /\ y.transition.transition_id = x.transition.transition_id
                           /\ restarts = 0 /\ SourcesAreSpelledOnce => x = y
                           /\ \A f \in SinkNames : Nfc(Act[x.cand][f]) = Nfc(given.ctx[f])
                           /\ SpelledAlike(x.cand, given.ctx) =>
                                \A now \in x.cap.issued_at .. x.cap.expires_at :
                                  PresentedOk(given.ctx, x.cand, x.cap, NoProof, now)
                           /\ EvidenceOk(given.ctx, x.cap, x.evidence)
    BY DEF OfflineIsSound
  <2> DEFINE g == given.cand
             ctx == given.ctx
             cap == given.cap
             ev == given.evidence
  <2>1. Compared(given)
    BY AcceptedIsCompared
  <2>2. PICK x \in exports : /\ AnExport(x) /\ ctx.key = AuthorityKey
                             /\ Canonical(cap) = Canonical(x.cap)
    BY <2>1, AcceptedCapability
  <2>3. PICK y \in exports : AnExport(y) /\ Canonical(ev) = Canonical(y.evidence)
    BY <2>1, AcceptedEvidence
  <2> DEFINE c == x.cand
  <2>4. /\ c \in Candidates /\ g \in Candidates /\ y.cand \in Candidates /\ ctx \in Contexts
    BY <2>2, <2>3 DEF AnExport, PortableInv, GivenIsMixed
  <2>5. /\ CandidateDigest(g) = cap.candidate_digest /\ CandidateDigest(g) = ev.candidate_digest
        /\ cap.descriptor_digest = ev.descriptor_digest
        /\ cap.transition_id = ev.transition_id /\ cap.authority_id = ev.authority_id
        /\ ev.decision = "ALLOW" /\ ev.signature = Sign(ctx.key, Unsigned(ev))
        /\ cap.sink_id = ctx.sink_id /\ cap.boundary_id = ctx.boundary_id
        /\ cap.policy_epoch = ctx.policy_epoch
        /\ ScopeSet(cap.scope) \subseteq ctx.supported_scopes
        /\ Act[g].effect_class = ctx.effect_class
    BY <2>1 DEF Compared
  <2>6. /\ cap.candidate_digest = x.cap.candidate_digest
        /\ cap.transition_id = x.cap.transition_id
        /\ cap.policy_epoch = x.cap.policy_epoch
        /\ Nfc(cap.sink_id) = Nfc(x.cap.sink_id) /\ Nfc(cap.boundary_id) = Nfc(x.cap.boundary_id)
        /\ DOMAIN cap.scope = DOMAIN x.cap.scope
        /\ \A i \in DOMAIN x.cap.scope : Nfc(cap.scope[i]) = Nfc(x.cap.scope[i])
    <3> HIDE DEF cap
    <3> QED BY <2>2, RespelledCapability
  <2>7. /\ x.cap.candidate_digest = CandidateDigest(c) /\ x.cap.policy_epoch = Act[c].policy_epoch
        /\ x.cap.sink_id = Act[c].sink_id /\ x.cap.boundary_id = Act[c].boundary_id
        /\ x.cap.scope = Act[c].scope
    BY <2>2, ExportSays
  <2>8. CandidateDigest(c) = CandidateDigest(g)
    <3> HIDE DEF c, g, cap, ev, ctx
    <3> QED BY <2>5, <2>6, <2>7
  <2>9. ev.policy_epoch = cap.policy_epoch /\ ev.key_id = AuthorityKey
    <3>1. /\ ev.candidate_digest = y.evidence.candidate_digest
          /\ ev.policy_epoch = y.evidence.policy_epoch /\ ev.key_id = y.evidence.key_id
      <4> HIDE DEF ev
      <4> QED BY <2>3, RespelledEvidence
    <3>2. /\ y.evidence.candidate_digest = CandidateDigest(y.cand)
          /\ y.evidence.policy_epoch = Act[y.cand].policy_epoch
          /\ y.evidence.key_id = AuthorityKey
      BY <2>3, ExportSays
    <3>3. CandidateDigest(y.cand) = CandidateDigest(c)
      <4> HIDE DEF c, g, cap, ev, ctx
      <4> QED BY <2>5, <2>8, <3>1, <3>2
    <3>4. Act[y.cand].policy_epoch = Act[c].policy_epoch
      BY <2>4, <3>3, SameDigestSameFields
    <3> HIDE DEF c, g, cap, ev, ctx
    <3> QED BY <2>6, <2>7, <3>1, <3>2, <3>4
  <2>10. EvidenceOk(ctx, cap, ev)
    <3> HIDE DEF c, g, cap, ev, ctx
    <3> QED BY <2>2, <2>5, <2>9 DEF EvidenceOk, Verify
  <2>11. Canonical(x.transition) = Canonical(given.transition)
    BY <2>1, <2>2, <2>6, <2>8, AcceptedTransition
  <2>12. \A f \in SinkNames : Nfc(Act[c][f]) = Nfc(ctx[f])
    <3>1. Nfc(Act[c]["effect_class"]) = Nfc(Act[g]["effect_class"])
      BY <2>4, <2>8, SameDigestSameFields DEF TextFields
    <3>2. /\ Nfc(Act[c].effect_class) = Nfc(ctx.effect_class)
          /\ Nfc(Act[c].sink_id) = Nfc(ctx.sink_id)
          /\ Nfc(Act[c].boundary_id) = Nfc(ctx.boundary_id)
      <4> HIDE DEF c, g, cap, ev, ctx
      <4> QED BY <2>5, <2>6, <2>7, <3>1
    <3> QED BY <3>2 DEF SinkNames
  <2>13. ASSUME SpelledAlike(c, ctx), NEW now \in x.cap.issued_at .. x.cap.expires_at
         PROVE  PresentedOk(ctx, c, x.cap, NoProof, now)
    <3>1. \A f \in SinkNames : Act[c][f] = ctx[f]
      BY <2>12, <2>13 DEF SpelledAlike
    <3>2. ASSUME NEW i \in DOMAIN Act[c].scope PROVE Act[c].scope[i] \in ctx.supported_scopes
      <4> HIDE DEF c, g, cap, ev, ctx
      <4>1. i \in DOMAIN cap.scope /\ Nfc(Act[c].scope[i]) = Nfc(cap.scope[i])
        BY <2>6, <2>7
      <4>2. cap.scope[i] \in ctx.supported_scopes
        BY <2>5, <4>1 DEF ScopeSet
      <4>3. Act[c].scope[i] = cap.scope[i]
        BY <2>13, <4>1, <4>2 DEF SpelledAlike
      <4> QED BY <4>2, <4>3
    <3>3. ctx.policy_epoch = Act[c].policy_epoch
      <4> HIDE DEF c, g, cap, ev, ctx
      <4> QED BY <2>5, <2>6, <2>7
    <3> HIDE DEF ctx
    <3> QED BY <2>2, <2>4, <2>13, <3>1, <3>2, <3>3, SinkTakesTheOriginal
  <2>14. EvidenceOk(ctx, x.cap, x.evidence)
    <3>1. /\ x.evidence.decision = "ALLOW" /\ x.evidence.key_id = AuthorityKey
          /\ x.evidence.authority_id = x.cap.authority_id
          /\ x.evidence.candidate_digest = x.cap.candidate_digest
          /\ x.evidence.descriptor_digest = x.cap.descriptor_digest
          /\ x.evidence.transition_id = x.cap.transition_id
          /\ x.evidence.policy_epoch = x.cap.policy_epoch
      BY <2>2, ExportSays
    <3>2. x.evidence.signature = Sign(AuthorityKey, Unsigned(x.evidence))
      BY <2>2, ExportedParts
    <3> HIDE DEF ctx
    <3> QED BY <2>2, <3>1, <3>2 DEF EvidenceOk, Verify
  <2>15. /\ CandidateDigest(y.cand) = CandidateDigest(g)
         /\ y.transition.transition_id = x.transition.transition_id
    <3>1. /\ ev.candidate_digest = y.evidence.candidate_digest
          /\ ev.transition_id = y.evidence.transition_id
      <4> HIDE DEF ev
      <4> QED BY <2>3, RespelledEvidence
    <3>2. /\ y.evidence.candidate_digest = CandidateDigest(y.cand)
          /\ y.evidence.transition_id = y.transition.transition_id
          /\ x.cap.transition_id = x.transition.transition_id
      BY <2>2, <2>3, ExportSays
    <3> HIDE DEF c, g, cap, ev, ctx
    <3> QED BY <2>5, <2>6, <3>1, <3>2
  <2>16. restarts = 0 /\ SourcesAreSpelledOnce => x = y
    BY <2>15 DEF OneLifeInv
  <2> QED BY <2>2, <2>3, <2>8, <2>10, <2>11, <2>12, <2>13, <2>14, <2>15, <2>16
<1> QED BY <1>1, PortableInvAlways, OneLifeInvAlways, PTL

-----------------------------------------------------------------------------
(* They accept what a sink takes *)

\* Acts with one digest have one descriptor for a sink.
LEMMA SameDigestSameDescriptor ==
  ASSUME NEW c \in Candidates, NEW d \in Candidates, CandidateDigest(c) = CandidateDigest(d)
  PROVE  /\ Descriptors[c] = Descriptors[d]
         /\ DescriptorDigest(c, Act[c].sink_id, Act[c].boundary_id) =
              DescriptorDigest(d, Act[d].sink_id, Act[d].boundary_id)
<1>1. Canonical(Act[c]) = Canonical(Act[d]) /\ DOMAIN Act[c] = DOMAIN Act[d]
  BY DigestIdentifies, CandidatesAreRecords
<1>2. Described(c) = Described(d)
  BY <1>1 DEF Described
<1>3. Descriptors[c] = Descriptors[d]
  BY <1>2 DEF Descriptors
<1>4. /\ Nfc(Act[c]["sink_id"]) = Nfc(Act[d]["sink_id"])
      /\ Nfc(Act[c]["boundary_id"]) = Nfc(Act[d]["boundary_id"])
  BY SameDigestSameFields DEF TextFields
<1> QED BY <1>3, <1>4 DEF DescriptorDigest

LEMMA SameDigestSameHcad ==
  ASSUME NEW c \in Candidates, NEW d \in Candidates, CandidateDigest(c) = CandidateDigest(d),
         NEW sink_id, NEW boundary_id
  PROVE  /\ PayloadDigest(c) = PayloadDigest(d)
         /\ Hcad(c, sink_id, boundary_id).payload = PayloadDigest(c)
         /\ Canonical(Hcad(c, sink_id, boundary_id)) = Canonical(Hcad(d, sink_id, boundary_id))
<1> DEFINE h == Hcad(c, sink_id, boundary_id)
           k == Hcad(d, sink_id, boundary_id)
           N == (TextFields \cup OtherFields) \ {"authority_context", "status"}
<1>1. DOMAIN Act[c] = TextFields \cup OtherFields /\ DOMAIN Act[d] = TextFields \cup OtherFields
  BY CandidatesAreRecords
<1>2. /\ DOMAIN h = N /\ DOMAIN k = N /\ {"payload", "sink_id", "boundary_id"} \subseteq N
      /\ h["sink_id"] = sink_id /\ k["sink_id"] = sink_id
      /\ h["boundary_id"] = boundary_id /\ k["boundary_id"] = boundary_id
      /\ h["payload"] = PayloadDigest(c) /\ k["payload"] = PayloadDigest(d)
      /\ \A f \in N : f \notin {"payload", "sink_id", "boundary_id"} =>
           h[f] = Act[c][f] /\ k[f] = Act[d][f]
  BY <1>1 DEF Hcad, TextFields, OtherFields
<1>3. PayloadDigest(c) = PayloadDigest(d)
  <2>1. Nfc(Act[c]["payload"]) = Nfc(Act[d]["payload"])
    BY SameDigestSameFields DEF TextFields
  <2> QED BY <2>1 DEF PayloadDigest
<1>4. Canonical(Act[c]) = Canonical(Act[d])
  BY DigestIdentifies
<1> HIDE DEF h, k
<1>5. ASSUME NEW f \in N PROVE Canonical(h)[f] = Canonical(k)[f]
  <2>1. CASE f \in {"payload", "sink_id", "boundary_id"}
    <3>1. h[f] = k[f]
      BY <1>2, <1>3, <2>1
    <3>2. f \in TextFields
      BY <2>1 DEF TextFields
    <3>3. Canonical(h)[f] = Nfc(h[f]) /\ Canonical(k)[f] = Nfc(k[f])
      BY <1>2, <3>2, CanonicalFields
    <3> QED BY <3>1, <3>3
  <2>2. CASE f \notin {"payload", "sink_id", "boundary_id"}
    <3>1. h[f] = Act[c][f] /\ k[f] = Act[d][f] /\ f \in DOMAIN Act[c] /\ f \in DOMAIN Act[d]
      BY <1>1, <1>2, <2>2
    <3>2. Canonical(h)[f] = Canonical(Act[c])[f] /\ Canonical(k)[f] = Canonical(Act[d])[f]
      BY <1>2, <3>1 DEF Canonical
    <3> QED BY <1>4, <3>2
  <2> QED BY <2>1, <2>2
<1>6. Canonical(h) = Canonical(k)
  <2> HIDE DEF N
  <2>1. /\ Canonical(h) = [f \in N |-> Canonical(h)[f]]
        /\ Canonical(k) = [f \in N |-> Canonical(k)[f]]
    BY <1>2 DEF Canonical
  <2> HIDE DEF Canonical
  <2> QED BY <1>5, <2>1
<1> QED BY <1>2, <1>3, <1>6 DEF h, k

\* Acts with one digest have canonically one capability.
LEMMA SameDigestSameCapability ==
  ASSUME NEW c \in Candidates, NEW d \in Candidates, CandidateDigest(c) = CandidateDigest(d),
         NEW tid, NEW now
  PROVE  Canonical(CapabilityCore(c, tid, now)) = Canonical(CapabilityCore(d, tid, now))
<1> DEFINE k == CapabilityCore(c, tid, now)
           l == CapabilityCore(d, tid, now)
           texts == {"sink_id", "boundary_id", "nonce"}
<1>1. DOMAIN k = CapabilityFieldNames /\ DOMAIN l = CapabilityFieldNames
  BY DEF CapabilityCore, CapabilityFieldNames
<1>2. texts \subseteq TextFields /\ "scope" \notin TextFields
  BY DEF TextFields
<1>3. \A f \in CapabilityFieldNames : f \notin texts /\ f # "scope" => f \notin SpecialFields
  BY DEF CapabilityFieldNames, SpecialFields, TextFields
<1>4. \A f \in texts : Nfc(k[f]) = Nfc(l[f])
  <2>1. \A f \in texts : k[f] = Act[c][f] /\ l[f] = Act[d][f]
    BY CoreFields
  <2> QED BY <1>2, <2>1, SameDigestSameFields
<1>5. \A f \in CapabilityFieldNames : f \notin texts /\ f # "scope" => k[f] = l[f]
  <2>1. EvidenceId(c, tid, now) = EvidenceId(d, tid, now)
    <3>1. Act[c].policy_epoch = Act[d].policy_epoch
      BY SameDigestSameFields
    <3>2. DescriptorDigest(c, Act[c].sink_id, Act[c].boundary_id) =
            DescriptorDigest(d, Act[d].sink_id, Act[d].boundary_id)
      BY SameDigestSameDescriptor
    <3> QED BY <3>1, <3>2 DEF EvidenceId, EvidenceCore
  <2>2. k.evidence_id = EvidenceId(c, tid, now) /\ l.evidence_id = EvidenceId(d, tid, now)
    BY DEF CapabilityCore
  <2>3. /\ Act[c].policy_epoch = Act[d].policy_epoch /\ Act[c].issued_at = Act[d].issued_at
        /\ Act[c].freshness = Act[d].freshness
    BY SameDigestSameFields
  <2>4. /\ k.authority_id = l.authority_id /\ k.candidate_digest = l.candidate_digest
        /\ k.descriptor_digest = l.descriptor_digest /\ k.policy_epoch = l.policy_epoch
        /\ k.transition_id = l.transition_id /\ k.issued_at = l.issued_at
        /\ k.expires_at = l.expires_at /\ k.key_id = l.key_id
    BY <2>3, CoreFields, SameDigestSameDescriptor
  <2> HIDE DEF k, l
  <2> QED BY <2>1, <2>2, <2>4 DEF CapabilityFieldNames
<1>6. Canonical(k)["scope"] = Canonical(l)["scope"]
  <2>1. k.scope = Act[c].scope /\ l.scope = Act[d].scope
    BY CoreFields
  <2>2. /\ DOMAIN Act[c].scope = DOMAIN Act[d].scope
        /\ \A i \in DOMAIN Act[c].scope : Nfc(Act[c].scope[i]) = Nfc(Act[d].scope[i])
    BY SameDigestSameFields
  <2>3. "scope" \in CapabilityFieldNames
    BY DEF CapabilityFieldNames
  <2> HIDE DEF k, l
  <2>4. /\ Canonical(k)["scope"] = [i \in DOMAIN k.scope |-> Nfc(k.scope[i])]
        /\ Canonical(l)["scope"] = [i \in DOMAIN l.scope |-> Nfc(l.scope[i])]
    BY <1>1, <2>3, CanonicalFields
  <2> QED BY <2>1, <2>2, <2>4
<1> HIDE DEF k, l
<1>7. ASSUME NEW f \in CapabilityFieldNames PROVE Canonical(k)[f] = Canonical(l)[f]
  <2>1. CASE f \in texts
    <3>1. f \in TextFields /\ Nfc(k[f]) = Nfc(l[f])
      BY <1>2, <1>4, <2>1
    <3>2. Canonical(k)[f] = Nfc(k[f]) /\ Canonical(l)[f] = Nfc(l[f])
      BY <1>1, <3>1, CanonicalFields
    <3> QED BY <3>1, <3>2
  <2>2. CASE f = "scope"
    BY <1>6, <2>2
  <2>3. CASE f \notin texts /\ f # "scope"
    <3>1. f \notin SpecialFields /\ k[f] = l[f]
      BY <1>3, <1>5, <2>3
    <3>2. Canonical(k)[f] = k[f] /\ Canonical(l)[f] = l[f]
      BY <1>1, <3>1, CanonicalFields
    <3> QED BY <3>1, <3>2
  <2> QED BY <2>1, <2>2, <2>3
<1>8. Canonical(k) = Canonical(l)
  <2>1. /\ Canonical(k) = [f \in CapabilityFieldNames |-> Canonical(k)[f]]
        /\ Canonical(l) = [f \in CapabilityFieldNames |-> Canonical(l)[f]]
    BY <1>1 DEF Canonical
  <2> HIDE DEF Canonical
  <2> QED BY <1>7, <2>1
<1> QED BY <1>8 DEF k, l

\* The hashes of what is exported check, whichever spelling of the act comes with it.
LEMMA ExportIsHashed ==
  ASSUME NEW x, AnExport(x)
  PROVE  /\ EvidenceHashed(x.evidence)
         /\ CapabilityHashed(x.cap)
         /\ TransitionHashed(x.transition, CandidateDigest(x.cand))
<1> DEFINE c == x.cand
           d == CandidateDigest(c)
           now == x.cap.issued_at
           tid == TransitionId(c, Before(x), Cost(x))
           cap == x.cap
           ev == x.evidence
<1>1. /\ cap = Capability(c, tid, now) /\ ev = Evidence(c, tid, now)
      /\ x.transition = Transition(c, Before(x), Cost(x))
      /\ x.transition.transition_id = tid
  BY ExportFields, ExportedParts
<1>2. c \in Candidates /\ d \in Candidates /\ CandidateDigest(d) = CandidateDigest(c)
  BY Representative DEF AnExport
<1>3. EvidenceHashed(ev)
  <2> HIDE DEF c, now, tid, ev
  <2> QED BY <1>1, ExportedEvidence DEF EvidenceHashed
<1>4. CapabilityHashed(cap)
  <2> HIDE DEF c, d, now, tid, cap
  <2>1. /\ cap.capability_id = CapabilityId(c, tid, now)
        /\ Without(cap, {"capability_id", "signature"}) = CapabilityCore(c, tid, now)
    BY <1>1, ExportedCapability
  <2>2. cap.capability_id.evidence = EvidenceCore(c, tid, now)
    BY <2>1 DEF CapabilityId, EvidenceId
  <2>3. /\ EvidenceCore(c, tid, now).candidate_digest = d
        /\ EvidenceCore(c, tid, now).transition_id = tid
        /\ EvidenceCore(c, tid, now).committed_at = now
    BY CoreFields DEF d
  <2>4. Canonical(CapabilityCore(c, tid, now)) = Canonical(CapabilityCore(d, tid, now))
    BY <1>2, SameDigestSameCapability
  <2> HIDE DEF Canonical
  <2> QED BY <2>1, <2>2, <2>3, <2>4 DEF CapabilityHashed
<1>5. TransitionHashed(x.transition, d)
  <2> DEFINE t == x.transition
             u == Transition(d, Before(x), Cost(x))
  <2>1. tid.candidate = d /\ tid.before = Before(x) /\ tid.cost = Cost(x)
    BY TransitionIdFields
  <2>2. Canonical(t) = Canonical(u)
    <3> HIDE DEF c, d
    <3> QED BY <1>1, <1>2, SameDigestSameTransition
  <2>3. Canonical(Without(t, {"transition_id"})) = Canonical(Without(u, {"transition_id"}))
    <3> DEFINE p == Without(t, {"transition_id"})
               q == Without(u, {"transition_id"})
    <3> HIDE DEF t, u
    <3>1. /\ DOMAIN p = DOMAIN t \ {"transition_id"} /\ DOMAIN q = DOMAIN u \ {"transition_id"}
          /\ \A f \in DOMAIN p : p[f] = t[f]
          /\ \A f \in DOMAIN q : q[f] = u[f]
      BY DEF Without
    <3>2. DOMAIN t = DOMAIN u
      BY <2>2, CanonicallyEqual
    <3> HIDE DEF p, q
    <3>3. ASSUME NEW f \in DOMAIN p PROVE Canonical(p)[f] = Canonical(q)[f]
      <4>1. Canonical(p)[f] = Canonical(t)[f]
        BY <3>1 DEF Canonical
      <4>2. Canonical(q)[f] = Canonical(u)[f]
        BY <3>1, <3>2 DEF Canonical
      <4> QED BY <2>2, <4>1, <4>2
    <3>4. /\ Canonical(p) = [f \in DOMAIN p |-> Canonical(p)[f]]
          /\ Canonical(q) = [f \in DOMAIN q |-> Canonical(q)[f]]
      BY DEF Canonical
    <3>5. Canonical(p) = Canonical(q)
      <4> HIDE DEF Canonical
      <4> QED BY <3>1, <3>2, <3>3, <3>4
    <3> QED BY <3>5 DEF p, q
  <2>4. t.transition_id = tid
    BY <1>1
  <2> HIDE DEF t, tid, d, Canonical, Without
  <2> QED BY <2>1, <2>3, <2>4 DEF TransitionHashed, t
<1> QED BY <1>3, <1>4, <1>5

\* A case with the parts of one export, data all three languages can hash, and a
\* candidate its sink takes.
Taken(case, x) ==
  /\ AnExport(x) /\ case.cand \in Candidates
  /\ \A part \in Parts : case[part] = x[part]
  /\ Portable(case)
  /\ \E now \in Times : PresentedOk(case.ctx, case.cand, case.cap, NoProof, now)
  /\ EvidenceOk(case.ctx, case.cap, case.evidence)

LEMMA TakenParts ==
  ASSUME NEW case, NEW x, Taken(case, x)
  PROVE  /\ case.hcad = x.hcad /\ case.transition = x.transition
         /\ case.evidence = x.evidence /\ case.cap = x.cap
         /\ Hashable(case.hcad) /\ Hashable(case.transition)
         /\ Hashable(case.evidence) /\ Hashable(case.cap)
         /\ CandidateHashable(case.cand)
BY DEF Taken, Parts, Portable

\* What the sink has compared.
LEMMA TakenIsCompared ==
  ASSUME NEW case, NEW x, Taken(case, x),
         NEW a, a = Act[case.cand], NEW cap, cap = case.cap, NEW ctx, ctx = case.ctx,
         NEW ev, ev = case.evidence
  PROVE  /\ a.status = "NON_EFFECTIVE" /\ a.effect_class = ctx.effect_class
         /\ cap.sink_id = ctx.sink_id /\ cap.boundary_id = ctx.boundary_id
         /\ cap.policy_epoch = ctx.policy_epoch
         /\ cap.scope = a.scope /\ ScopeSet(cap.scope) \subseteq ctx.supported_scopes
         /\ cap.nonce = a.nonce /\ cap.expires_at <= a.issued_at + a.freshness
         /\ cap.signature = Sign(ctx.key, Unsigned(cap))
         /\ cap.candidate_digest = CandidateDigest(case.cand)
         /\ cap.descriptor_digest = DescriptorDigest(case.cand, ctx.sink_id, ctx.boundary_id)
         /\ ev.signature = Sign(ctx.key, Unsigned(ev)) /\ ev.decision = "ALLOW"
         /\ ev.authority_id = cap.authority_id
         /\ ev.candidate_digest = cap.candidate_digest
         /\ ev.descriptor_digest = cap.descriptor_digest
         /\ ev.transition_id = cap.transition_id
<1>1. PICK now \in Times : PresentedOk(ctx, case.cand, cap, NoProof, now)
  BY DEF Taken
<1>2. EvidenceOk(ctx, cap, ev)
  BY DEF Taken
<1>3. CapabilityVerifies(ctx, cap)
  BY <1>1 DEF PresentedOk
<1>4. /\ cap.signature = Sign(ctx.key, Unsigned(cap))
      /\ ev.signature = Sign(ctx.key, Unsigned(ev)) /\ ev.decision = "ALLOW"
      /\ ev.authority_id = cap.authority_id
      /\ ev.candidate_digest = cap.candidate_digest
      /\ ev.descriptor_digest = cap.descriptor_digest
      /\ ev.transition_id = cap.transition_id
  BY <1>2, <1>3 DEF CapabilityVerifies, EvidenceOk, Verify
<1>5. /\ a.status = "NON_EFFECTIVE" /\ a.effect_class = ctx.effect_class
      /\ cap.sink_id = ctx.sink_id /\ cap.boundary_id = ctx.boundary_id
      /\ cap.policy_epoch = ctx.policy_epoch
      /\ cap.scope = a.scope /\ ScopeSet(cap.scope) \subseteq ctx.supported_scopes
      /\ cap.nonce = a.nonce /\ cap.expires_at <= a.issued_at + a.freshness
      /\ cap.candidate_digest = CandidateDigest(case.cand)
      /\ cap.descriptor_digest = DescriptorDigest(case.cand, ctx.sink_id, ctx.boundary_id)
  BY <1>1 DEF PresentedOk
<1> QED BY <1>4, <1>5

\* What the export adds: its transition, its hashes, and one expiry.
LEMMA TakenIsHashed ==
  ASSUME NEW case, NEW x, Taken(case, x),
         NEW t, t = case.transition, NEW g, g = case.cand, NEW ctx, ctx = case.ctx
  PROVE  /\ CandidateDigest(x.cand) = CandidateDigest(g)
         /\ t.after_version = t.before_version + 1
         /\ t.after_version - t.before_version = 1
         /\ t.quota_after = t.quota_before - 1
         /\ t.quota_after - t.quota_before = -1
         /\ t.budget_after < t.budget_before
         /\ t.transition_id = case.cap.transition_id
         /\ TransitionHashed(t, CandidateDigest(g))
         /\ EvidenceHashed(case.evidence) /\ CapabilityHashed(case.cap)
         /\ case.hcad.payload = PayloadDigest(g)
         /\ HcadHash(case.hcad) = HcadHash(Hcad(g, ctx.sink_id, ctx.boundary_id))
         /\ ~Outlives(case.cap, Act[g])
<1> DEFINE c == x.cand
           cap == case.cap
<1>1. AnExport(x) /\ c \in Candidates /\ g \in Candidates
  BY DEF Taken, AnExport
<1>2. /\ case.hcad = x.hcad /\ t = x.transition /\ case.evidence = x.evidence /\ cap = x.cap
  BY TakenParts
<1>3. /\ x.cap.candidate_digest = CandidateDigest(c)
      /\ x.cap.sink_id = Act[c].sink_id /\ x.cap.boundary_id = Act[c].boundary_id
      /\ x.cap.transition_id = x.transition.transition_id
      /\ x.cap.expires_at =
           Earlier(Act[c].issued_at + Act[c].freshness, x.cap.issued_at + CapabilityTtl)
  BY <1>1, ExportSays
<1>4. /\ cap.candidate_digest = CandidateDigest(g)
      /\ cap.sink_id = ctx.sink_id /\ cap.boundary_id = ctx.boundary_id
      /\ cap.expires_at <= Act[g].issued_at + Act[g].freshness
  BY TakenIsCompared
<1>5. CandidateDigest(c) = CandidateDigest(g)
  <2> HIDE DEF c, cap
  <2> QED BY <1>2, <1>3, <1>4
<1>6. /\ EvidenceHashed(case.evidence) /\ CapabilityHashed(cap)
      /\ TransitionHashed(t, CandidateDigest(g))
  <2>1. /\ EvidenceHashed(x.evidence) /\ CapabilityHashed(x.cap)
        /\ TransitionHashed(x.transition, CandidateDigest(c))
    BY <1>1, ExportIsHashed
  <2> HIDE DEF c, cap
  <2> QED BY <1>2, <1>5, <2>1
<1>7. /\ t.after_version = t.before_version + 1
      /\ t.after_version - t.before_version = 1
      /\ t.quota_after = t.quota_before - 1
      /\ t.quota_after - t.quota_before = -1
      /\ t.budget_after < t.budget_before
  <2> DEFINE before == Before(x)
             cost == Cost(x)
  <2>1. t = Transition(c, before, cost)
    BY <1>1, <1>2, ExportFields
  <2>2. /\ before \in [version : Nat, quota : Nat, budget : Nat] /\ cost \in Int /\ cost > 0
    BY <1>1 DEF AnExport
  <2> HIDE DEF before, cost, c
  <2>3. /\ t.before_version = before.version /\ t.after_version = before.version + 1
        /\ t.quota_before = before.quota /\ t.quota_after = before.quota - 1
        /\ t.budget_before = before.budget /\ t.budget_after = before.budget - cost
    BY <2>1, TransitionFields
  <2> QED BY <2>2, <2>3
<1>8. /\ case.hcad.payload = PayloadDigest(g)
      /\ HcadHash(case.hcad) = HcadHash(Hcad(g, ctx.sink_id, ctx.boundary_id))
  <2>1. x.hcad = Hcad(c, x.ctx.sink_id, x.ctx.boundary_id)
        /\ x.ctx.sink_id = Act[c].sink_id /\ x.ctx.boundary_id = Act[c].boundary_id
    BY <1>1, ExportFields DEF AnExport
  <2> HIDE DEF c, cap
  <2>2. case.hcad = Hcad(c, ctx.sink_id, ctx.boundary_id)
    BY <1>2, <1>3, <1>4, <2>1
  <2>3. /\ PayloadDigest(c) = PayloadDigest(g)
        /\ Hcad(c, ctx.sink_id, ctx.boundary_id).payload = PayloadDigest(c)
        /\ Canonical(Hcad(c, ctx.sink_id, ctx.boundary_id)) =
             Canonical(Hcad(g, ctx.sink_id, ctx.boundary_id))
    BY <1>1, <1>5, SameDigestSameHcad
  <2> HIDE DEF Canonical, Hcad
  <2> QED BY <2>2, <2>3 DEF HcadHash
<1>9. ~Outlives(cap, Act[g])
  <2>1. /\ Act[c].issued_at \in Int /\ Act[c].freshness \in Int
        /\ Act[g].issued_at \in Int /\ Act[g].freshness \in Int
        /\ x.cap.issued_at \in Int /\ CapabilityTtl \in Int
    BY <1>1, CandidatesAreRecords, TtlIsANumber, TimesAreNumbers DEF AnExport
  <2>2. x.cap.expires_at \in Int
    BY <1>3, <2>1 DEF Earlier
  <2> HIDE DEF c
  <2> QED BY <1>2, <1>4, <2>1, <2>2 DEF Outlives
<1> QED BY <1>2, <1>3, <1>5, <1>6, <1>7, <1>8, <1>9

LEMMA GoFollowsSink ==
  ASSUME NEW case, NEW x, Taken(case, x)
  PROVE  GoAccepts(case)
<1> DEFINE a == Act[case.cand]
           cap == case.cap
           ctx == case.ctx
           ev == case.evidence
<1>1. /\ a.status = "NON_EFFECTIVE" /\ a.effect_class = ctx.effect_class
      /\ cap.sink_id = ctx.sink_id /\ cap.boundary_id = ctx.boundary_id
      /\ cap.policy_epoch = ctx.policy_epoch
      /\ cap.scope = a.scope /\ ScopeSet(cap.scope) \subseteq ctx.supported_scopes
      /\ cap.nonce = a.nonce /\ cap.expires_at <= a.issued_at + a.freshness
      /\ cap.signature = Sign(ctx.key, Unsigned(cap))
      /\ cap.candidate_digest = CandidateDigest(case.cand)
      /\ cap.descriptor_digest = DescriptorDigest(case.cand, ctx.sink_id, ctx.boundary_id)
      /\ ev.signature = Sign(ctx.key, Unsigned(ev)) /\ ev.decision = "ALLOW"
      /\ ev.authority_id = cap.authority_id
      /\ ev.candidate_digest = cap.candidate_digest
      /\ ev.descriptor_digest = cap.descriptor_digest
      /\ ev.transition_id = cap.transition_id
  BY TakenIsCompared
<1>2. GoBindsAct(case)
  BY <1>1, TakenParts, TakenIsHashed DEF GoBindsAct
<1>3. GoBindsTransition(case)
  BY <1>1, TakenParts, TakenIsHashed DEF GoBindsTransition
<1>4. GoAuthentic(case)
  BY <1>1, TakenParts, TakenIsHashed DEF GoAuthentic, Mac
<1>5. GoBindsSink(case)
  BY <1>1 DEF GoBindsSink
<1> QED BY <1>2, <1>3, <1>4, <1>5 DEF GoAccepts

LEMMA NodeFollowsSink ==
  ASSUME NEW case, NEW x, Taken(case, x)
  PROVE  NodeAccepts(case)
<1> DEFINE a == Act[case.cand]
           cap == case.cap
           ctx == case.ctx
           ev == case.evidence
<1>1. /\ a.status = "NON_EFFECTIVE" /\ a.effect_class = ctx.effect_class
      /\ cap.sink_id = ctx.sink_id /\ cap.boundary_id = ctx.boundary_id
      /\ cap.policy_epoch = ctx.policy_epoch
      /\ cap.scope = a.scope /\ ScopeSet(cap.scope) \subseteq ctx.supported_scopes
      /\ cap.nonce = a.nonce
      /\ cap.signature = Sign(ctx.key, Unsigned(cap))
      /\ cap.candidate_digest = CandidateDigest(case.cand)
      /\ cap.descriptor_digest = DescriptorDigest(case.cand, ctx.sink_id, ctx.boundary_id)
      /\ ev.signature = Sign(ctx.key, Unsigned(ev)) /\ ev.decision = "ALLOW"
      /\ ev.authority_id = cap.authority_id
      /\ ev.candidate_digest = cap.candidate_digest
      /\ ev.descriptor_digest = cap.descriptor_digest
      /\ ev.transition_id = cap.transition_id
  BY TakenIsCompared
<1>2. NodeBindsAct(case)
  BY <1>1, TakenParts, TakenIsHashed DEF NodeBindsAct
<1>3. NodeBindsTransition(case)
  BY <1>1, TakenParts, TakenIsHashed DEF NodeBindsTransition
<1>4. NodeAuthentic(case)
  BY <1>1, TakenParts, TakenIsHashed DEF NodeAuthentic, Mac
<1>5. NodeBindsSink(case)
  <2>1. ~Outlives(cap, a)
    BY TakenIsHashed
  <2> QED BY <1>1, <2>1 DEF NodeBindsSink
<1> QED BY <1>2, <1>3, <1>4, <1>5 DEF NodeAccepts

\* A case a sink would let take effect passes in Go and in Node, also when the
\* candidate comes in another spelling and the context is another sink's
\* (cmd/finalityverify/main.go, finality_verify.mjs).
THEOREM OfflineAlwaysFollowsSink == Spec => []OfflineFollowsSink
<1>1. PortableInv => OfflineFollowsSink
  <2> SUFFICES ASSUME PortableInv, NEW x \in exports, given # NoCase,
                      \A part \in Parts : given[part] = x[part], Portable(given),
                      \E now \in Times :
                        PresentedOk(given.ctx, given.cand, given.cap, NoProof, now),
                      EvidenceOk(given.ctx, given.cap, given.evidence)
               PROVE  GoAccepts(given) /\ NodeAccepts(given)
    BY DEF OfflineFollowsSink
  <2>1. AnExport(x) /\ given.cand \in Candidates
    BY DEF PortableInv, ExportsAreMade, GivenIsMixed
  <2>2. Taken(given, x)
    BY <2>1 DEF Taken
  <2> QED BY <2>2, GoFollowsSink, NodeFollowsSink
<1> QED BY <1>1, PortableInvAlways, PTL

================================================================================
