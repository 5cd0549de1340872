----------------------- MODULE FinalityCoreSafetyProofs -----------------------
(***************************************************************************)
(* The safety of FinalityCore, for every set of candidates, authorizers,   *)
(* sources, threads, sinks and stores, with any spelling of their nonces   *)
(* and any number of crashes. First the authority side: the protected state*)
(* stays sound although authorizations interleave and crashes reset it, and*)
(* every capability a client received since the last crash is backed. Then *)
(* what reaches the effector: authorised acts only, one per nonce, within  *)
(* the quota, each with its own receipt and, at a strict sink, with its    *)
(* presenter's proof.                                                      *)
(***************************************************************************)
EXTENDS FinalityCoreProofs

-----------------------------------------------------------------------------
(* The protected state inside the core *)

\* Every step of the core is a step of the protected state, leaves it alone, or is
\* a crash, which starts it afresh.
LEMMA StateSteps == TypeOK /\ [Next]_vars => [StateNext]_stateVars \/ (Crash /\ StateInit')
<1> SUFFICES ASSUME TypeOK, [Next]_vars PROVE [StateNext]_stateVars \/ (Crash /\ StateInit')
  OBVIOUS
<1>1. CASE UNCHANGED vars
  BY <1>1 DEF vars, protected, stateVars
<1>2. CASE \E a \in Authorizers, c \in Candidates, cost \in Costs : Authorize(a, c, cost)
  BY <1>2 DEF Authorize, protected, stateVars
<1>3. ASSUME NEW a \in Authorizers, AuthStep(a)
      PROVE  [StateNext]_stateVars
  <2>1. CASE Reserve(a)
    <3>1. auth[a].local.cand \in Candidates /\ auth[a].local.cost \in Costs
      BY <2>1, AuthLocals DEF Reserve, TypeOK
    <3> QED BY <2>1, <3>1 DEF Reserve, StateNext
  <2>2. CASE ReserveRefused(a) \/ CommitEvidence(a) \/ Issue(a)
    BY <2>2 DEF ReserveRefused, CommitEvidence, Issue, protected, stateVars
  <2> QED BY <1>3, <2>1, <2>2 DEF AuthStep
<1>4. CASE \E t \in Callers, s \in Sinks, c \in Candidates, cap \in Presentable,
              proof \in PresentableProofs : Effectuate(t, s, c, cap, proof)
  BY <1>4 DEF Effectuate, protected, stateVars
<1>5. CASE \E t \in Callers : CallStep(t)
  BY <1>5
  DEF CallStep, CheckEvidence, CheckTransition, Claim, ClaimTimesOut, CommitEffect,
      EffectFails, ReturnReceipt, protected, stateVars
<1>6. CASE \/ ClockMoves \/ EvidenceStoreToggles \/ DownstreamWillFail
           \/ \E key \in PresenterKeys, cap \in issued, c \in Candidates : Present(key, cap, c)
  BY <1>6
  DEF ClockMoves, EvidenceStoreToggles, DownstreamWillFail, Present, protected, stateVars
<1>7. CASE Crash
  BY <1>7 DEF Crash, StateInit
<1>8. CASE \E s \in Sources, quota, budget \in Grants : Reconfigure(s, quota, budget)
  BY <1>8 DEF Reconfigure, StateNext
<1> QED BY <1>1, <1>2, <1>3, <1>4, <1>5, <1>6, <1>7, <1>8 DEF Next

LEMMA StateInvStepInCore == TypeOK /\ StateInv /\ [Next]_vars => StateInv'
<1>1. StateInit' => StateInv'
  BY StateInvInit, PTL
<1> QED BY <1>1, StateSteps, StateInvStep

\* The invariant of the protected state, under crashes too.
THEOREM StateInvInCore == Spec => []StateInv
<1>1. Init => StateInv
  BY StateInvInit DEF Init
<1> QED BY <1>1, StateInvStepInCore, TypeCorrect, PTL DEF Spec

\* The history of a source is a chain in the whole core, whichever authorizers
\* race for the source, fail half-way or lose their process
\* (ProtectedAuthority.authorize, authority.py; transition_for_authorization,
\* state.py).
THEOREM LedgerIsAChainInCore == Spec => []LedgerIsAChain
<1>1. StateInv => LedgerIsAChain
  BY DEF StateInv
<1> QED BY <1>1, StateInvInCore, PTL

-----------------------------------------------------------------------------
(* Authorizations in progress *)

InFlight(a) == auth[a].pc \in {"reserved", "committed"}

NonceOf(a) == Act[auth[a].local.cand].nonce

EvidenceOf(a) == EvidenceId(auth[a].local.cand, auth[a].local.tid, auth[a].local.now)

\* The policy accepted what an authorizer is working on, at the time it sampled.
AcceptedInFlight ==
  \A a \in Authorizers :
    auth[a].pc \in {"validated", "reserved", "committed"} =>
      Validate(auth[a].local.cand, auth[a].local.now)

\* An authorizer past its reservation owns the nonce of its act: nobody else works
\* with that nonce, and no capability for it is in a client's hands yet.
ReservedInFlight ==
  /\ \A a \in Authorizers :
       InFlight(a) =>
         /\ NonceOf(a) \in DOMAIN nonces
         /\ nonces[NonceOf(a)] = auth[a].local.tid
  /\ \A a, b \in Authorizers : InFlight(a) /\ InFlight(b) /\ NonceOf(a) = NonceOf(b) => a = b
  /\ \A a \in Authorizers, cap \in live : InFlight(a) => cap.nonce # NonceOf(a)

\* Past the commit its evidence is in the store.
CommittedInFlight ==
  \A a \in Authorizers : auth[a].pc = "committed" => EvidenceOf(a) \in DOMAIN evidence

\* The evidence store files each record under the id of its transition, which the
\* protected state knows.
EvidenceIsFiled ==
  \A id \in DOMAIN evidence :
    /\ evidence[id].transition_id = id.transition_id
    /\ id.transition_id \in DOMAIN transitions

\* A capability says what the authority derived from a candidate the policy had
\* accepted.
IssuedAreDerived ==
  \A cap \in issued : \E c \in Candidates :
    /\ cap = Capability(c, cap.transition_id, cap.issued_at)
    /\ Validate(c, cap.issued_at)

\* Before the first crash nothing has been forgotten.
LiveBeforeCrashes == crashes = 0 => live = issued

\* Where nonces are spelled once a transition has at most one evidence record, and
\* an authorizer about to commit its evidence makes it the first one.
OneEvidencePerTransition ==
  NoncesAreSpelledOnce =>
    /\ \A d, e \in DOMAIN evidence : d.transition_id = e.transition_id => d = e
    /\ \A a \in Authorizers, e \in DOMAIN evidence :
         auth[a].pc = "reserved" => e.transition_id # auth[a].local.tid
    /\ \A a, b \in Authorizers :
         InFlight(a) /\ InFlight(b) /\ auth[a].local.tid = auth[b].local.tid => a = b

AuthorityInv ==
  /\ AcceptedInFlight /\ ReservedInFlight /\ CommittedInFlight
  /\ EvidenceIsFiled /\ IssuedAreDerived /\ LiveBeforeCrashes
  /\ CapabilitiesAreBacked /\ OneEvidencePerTransition

\* What the records derived from a candidate say.
LEMMA EvidenceFields ==
  ASSUME NEW c, NEW tid, NEW now
  PROVE  /\ EvidenceId(c, tid, now).transition_id = tid
         /\ EvidenceId(c, tid, now).committed_at = now
         /\ EvidenceId(c, tid, now).candidate_digest = CandidateDigest(c)
         /\ Evidence(c, tid, now).transition_id = tid
BY DEF EvidenceId, EvidenceCore, Evidence, Signed, WithId

LEMMA CapabilityFields ==
  ASSUME NEW c, NEW tid, NEW now
  PROVE  /\ Capability(c, tid, now).transition_id = tid
         /\ Capability(c, tid, now).issued_at = now
         /\ Capability(c, tid, now).nonce = Act[c].nonce
         /\ Capability(c, tid, now).candidate_digest = CandidateDigest(c)
         /\ Capability(c, tid, now).evidence_id = EvidenceId(c, tid, now)
         /\ Capability(c, tid, now).capability_id = CapabilityId(c, tid, now)
BY DEF Capability, CapabilityCore, Signed, WithId

LEMMA AuthorityInvInit == Init => AuthorityInv
<1> SUFFICES ASSUME Init PROVE AuthorityInv
  OBVIOUS
<1>1. /\ \A a \in Authorizers : auth[a].pc = "ready"
      /\ DOMAIN evidence = {} /\ issued = {} /\ live = {}
  BY DEF Init, Empty
<1> QED
  BY <1>1 DEF AuthorityInv, AcceptedInFlight, ReservedInFlight, CommittedInFlight, InFlight,
              EvidenceIsFiled, IssuedAreDerived, LiveBeforeCrashes, CapabilitiesAreBacked,
              OneEvidencePerTransition

\* A step that touches nothing of this keeps it.
LEMMA QuietAuthorityStep ==
  ASSUME AuthorityInv,
         UNCHANGED <<auth, nonces, transitions, evidence, issued, live, crashes>>
  PROVE  AuthorityInv'
<1>1. AcceptedInFlight' /\ ReservedInFlight' /\ CommittedInFlight'
  BY DEF AuthorityInv, AcceptedInFlight, ReservedInFlight, CommittedInFlight, InFlight,
         NonceOf, EvidenceOf
<1>2. EvidenceIsFiled' /\ IssuedAreDerived' /\ LiveBeforeCrashes' /\ CapabilitiesAreBacked'
  BY DEF AuthorityInv, EvidenceIsFiled, IssuedAreDerived, LiveBeforeCrashes,
         CapabilitiesAreBacked
<1>3. OneEvidencePerTransition'
  BY DEF AuthorityInv, OneEvidencePerTransition, InFlight
<1> QED BY <1>1, <1>2, <1>3 DEF AuthorityInv

\* An authorizer that moves leaves the others where they are.
LEMMA OtherAuthorizersStay ==
  ASSUME AuthTypeOK, NEW a \in Authorizers, NEW pc, NEW local, AuthGoes(a, pc, local)
  PROVE  /\ auth'[a] = [pc |-> pc, local |-> local]
         /\ auth'[a].pc = pc /\ auth'[a].local = local
         /\ \A b \in Authorizers \ {a} : auth'[b] = auth[b]
  BY DEF AuthTypeOK, AuthGoes

\* An authorizer that starts or gives up, and does nothing else.
LEMMA QuietAuthorizerStep ==
  ASSUME AuthTypeOK, AuthorityInv, NEW a \in Authorizers, NEW pc, NEW local,
         AuthGoes(a, pc, local), pc \notin {"reserved", "committed"},
         pc = "validated" => Validate(local.cand, local.now),
         UNCHANGED <<nonces, transitions, evidence, issued, live, crashes>>
  PROVE  AuthorityInv'
<1>1. /\ auth'[a].pc = pc /\ auth'[a].local = local
      /\ \A b \in Authorizers \ {a} : auth'[b] = auth[b]
  BY OtherAuthorizersStay
<1>2. \A b \in Authorizers :
        InFlight(b)' => b # a /\ InFlight(b) /\ NonceOf(b)' = NonceOf(b) /\ auth'[b] = auth[b]
  BY <1>1 DEF InFlight, NonceOf
<1>3. AcceptedInFlight'
  BY <1>1 DEF AuthorityInv, AcceptedInFlight
<1>4. ReservedInFlight'
  BY <1>2 DEF AuthorityInv, ReservedInFlight
<1>5. CommittedInFlight'
  BY <1>1 DEF AuthorityInv, CommittedInFlight, EvidenceOf
<1>6. EvidenceIsFiled' /\ IssuedAreDerived' /\ LiveBeforeCrashes' /\ CapabilitiesAreBacked'
  BY DEF AuthorityInv, EvidenceIsFiled, IssuedAreDerived, LiveBeforeCrashes,
         CapabilitiesAreBacked
<1>7. OneEvidencePerTransition'
  BY <1>1, <1>2 DEF AuthorityInv, OneEvidencePerTransition
<1> QED BY <1>3, <1>4, <1>5, <1>6, <1>7 DEF AuthorityInv

\* A reservation takes a nonce nobody has, and where nonces are spelled once its
\* transition is new.
LEMMA ReserveKeepsAuthority ==
  ASSUME TypeOK, StateInv, AuthorityInv, NEW a \in Authorizers, Reserve(a)
  PROVE  AuthorityInv'
<1> DEFINE l   == auth[a].local
           tid == NewId(l.cand, l.cost)
           n0  == Act[l.cand].nonce
<1>1. /\ auth[a].pc = "validated" /\ l.cand \in Candidates /\ l.cost \in Costs
      /\ TransitionForAuthorization(l.cand, l.cost)
  BY AuthLocals DEF Reserve, TypeOK
<1>2. /\ n0 \notin DOMAIN nonces
      /\ DOMAIN nonces' = DOMAIN nonces \cup {n0} /\ nonces'[n0] = tid
      /\ \A n \in DOMAIN nonces : nonces'[n] = nonces[n]
      /\ DOMAIN transitions' = DOMAIN transitions \cup {tid}
  BY <1>1, IndexesGrow
<1>3. NoncesAreSpelledOnce => tid \notin DOMAIN transitions
  BY <1>1, NewIdIsNew DEF StateInv
<1>4. NextTransition(l.cand, l.cost).transition_id = tid
  BY TransitionFields DEF NextTransition, NewId
<1> DEFINE new == [cand |-> l.cand, now |-> l.now, tid |-> tid]
<1>5. /\ AuthGoes(a, "reserved", new)
      /\ UNCHANGED <<evidence, issued, live, crashes>>
  BY <1>4 DEF Reserve, clients, external
<1>6. /\ auth'[a].pc = "reserved" /\ auth'[a].local = new
      /\ \A b \in Authorizers \ {a} : auth'[b] = auth[b]
  <2> HIDE DEF new
  <2>1. AuthTypeOK
    BY DEF TypeOK
  <2> QED BY <1>5, <2>1, OtherAuthorizersStay
<1>7. /\ InFlight(a)' /\ NonceOf(a)' = n0 /\ auth'[a].local.tid = tid
      /\ auth'[a].local.cand = l.cand /\ auth'[a].local.now = l.now
      /\ \A b \in Authorizers \ {a} :
           /\ InFlight(b)' = InFlight(b) /\ NonceOf(b)' = NonceOf(b)
           /\ EvidenceOf(b)' = EvidenceOf(b) /\ auth'[b] = auth[b]
  BY <1>6 DEF InFlight, NonceOf, EvidenceOf
<1>8. Validate(l.cand, l.now)
  BY <1>1 DEF AuthorityInv, AcceptedInFlight
<1> HIDE DEF tid, l, n0, new
<1>9. \A b \in Authorizers : InFlight(b) => auth[b].local.tid \in DOMAIN transitions
  BY DEF AuthorityInv, ReservedInFlight, StateInv, StateTypeOK
<1>10. AcceptedInFlight'
  BY <1>7, <1>8 DEF AuthorityInv, AcceptedInFlight
<1>11. ReservedInFlight'
  <2>1. \A b \in Authorizers : InFlight(b)' =>
          NonceOf(b)' \in DOMAIN nonces' /\ nonces'[NonceOf(b)'] = auth'[b].local.tid
    BY <1>2, <1>7 DEF AuthorityInv, ReservedInFlight
  <2>2. \A b, c \in Authorizers :
          InFlight(b)' /\ InFlight(c)' /\ NonceOf(b)' = NonceOf(c)' => b = c
    BY <1>2, <1>7 DEF AuthorityInv, ReservedInFlight
  <2>3. \A b \in Authorizers, cap \in live' : InFlight(b)' => cap.nonce # NonceOf(b)'
    BY <1>2, <1>5, <1>7 DEF AuthorityInv, ReservedInFlight, CapabilitiesAreBacked
  <2> QED BY <2>1, <2>2, <2>3 DEF ReservedInFlight
<1>12. CommittedInFlight'
  BY <1>5, <1>6, <1>7 DEF AuthorityInv, CommittedInFlight
<1>13. EvidenceIsFiled' /\ IssuedAreDerived' /\ LiveBeforeCrashes'
  BY <1>2, <1>5 DEF AuthorityInv, EvidenceIsFiled, IssuedAreDerived, LiveBeforeCrashes
<1>14. CapabilitiesAreBacked'
  BY <1>2, <1>5 DEF AuthorityInv, CapabilitiesAreBacked
<1>15. OneEvidencePerTransition'
  <2> SUFFICES ASSUME NoncesAreSpelledOnce
               PROVE  /\ \A d, e \in DOMAIN evidence : d.transition_id = e.transition_id => d = e
                      /\ \A b \in Authorizers, e \in DOMAIN evidence :
                           auth'[b].pc = "reserved" => e.transition_id # auth'[b].local.tid
                      /\ \A b, c \in Authorizers :
                           /\ InFlight(b)' /\ InFlight(c)'
                           /\ auth'[b].local.tid = auth'[c].local.tid
                           => b = c
    BY <1>5 DEF OneEvidencePerTransition
  <2>1. \A e \in DOMAIN evidence : e.transition_id # tid
    BY <1>3 DEF AuthorityInv, EvidenceIsFiled
  <2> QED BY <2>1, <1>3, <1>6, <1>7, <1>9 DEF AuthorityInv, OneEvidencePerTransition
<1> QED BY <1>10, <1>11, <1>12, <1>13, <1>14, <1>15 DEF AuthorityInv

\* Evidence is committed under an id nobody used, for a reservation its authorizer
\* owns.
LEMMA CommitKeepsAuthority ==
  ASSUME TypeOK, StateInv, AuthorityInv, NEW a \in Authorizers, CommitEvidence(a)
  PROVE  AuthorityInv'
<1> DEFINE l  == auth[a].local
           id == EvidenceOf(a)
           ev == Evidence(l.cand, l.tid, l.now)
<1>1. /\ auth[a].pc = "reserved" /\ InFlight(a)
      /\ UNCHANGED <<nonces, transitions, issued, live, crashes>>
  BY DEF CommitEvidence, InFlight, clients, external
<1>2. CASE failCommits \/ id \in DOMAIN evidence
  <2>1. AuthGoes(a, "raised", NoCall) /\ UNCHANGED evidence
    BY <1>2 DEF CommitEvidence, EvidenceOf
  <2> QED BY <1>1, <2>1, QuietAuthorizerStep DEF TypeOK
<1>3. CASE ~(failCommits \/ id \in DOMAIN evidence)
  <2>1. /\ id \notin DOMAIN evidence /\ evidence' = Put(evidence, id, ev)
        /\ AuthGoes(a, "committed", l)
    BY <1>3 DEF CommitEvidence, EvidenceOf
  <2>2. id.transition_id = l.tid /\ ev.transition_id = l.tid
    BY EvidenceFields DEF EvidenceOf
  <2> HIDE DEF id, ev, l
  <2>3. /\ DOMAIN evidence' = DOMAIN evidence \cup {id} /\ evidence'[id] = ev
        /\ \A e \in DOMAIN evidence : evidence'[e] = evidence[e]
    BY <2>1 DEF Put
  <2>4. /\ auth'[a].pc = "committed" /\ auth'[a].local = l
        /\ \A b \in Authorizers \ {a} : auth'[b] = auth[b]
    BY <2>1, OtherAuthorizersStay DEF TypeOK
  <2>5. l = auth[a].local /\ id = EvidenceOf(a)
    BY DEF l, id
  <2>6. \A b \in Authorizers :
          /\ auth'[b].local = auth[b].local /\ InFlight(b)' = InFlight(b)
          /\ NonceOf(b)' = NonceOf(b) /\ EvidenceOf(b)' = EvidenceOf(b)
          /\ b # a => auth'[b].pc = auth[b].pc
    BY <1>1, <2>4, <2>5 DEF InFlight, NonceOf, EvidenceOf
  <2>7. AcceptedInFlight'
    BY <1>1, <2>4, <2>6 DEF AuthorityInv, AcceptedInFlight
  <2>8. ReservedInFlight'
    BY <1>1, <2>6 DEF AuthorityInv, ReservedInFlight
  <2>9. CommittedInFlight'
    BY <2>3, <2>5, <2>6 DEF AuthorityInv, CommittedInFlight
  <2>10. l.tid \in DOMAIN transitions
    BY <1>1, <2>5 DEF AuthorityInv, ReservedInFlight, StateInv, StateTypeOK
  <2>11. EvidenceIsFiled'
    BY <1>1, <2>2, <2>3, <2>10 DEF AuthorityInv, EvidenceIsFiled
  <2>12. IssuedAreDerived' /\ LiveBeforeCrashes'
    BY <1>1 DEF AuthorityInv, IssuedAreDerived, LiveBeforeCrashes
  <2>13. CapabilitiesAreBacked'
    BY <1>1, <2>3 DEF AuthorityInv, CapabilitiesAreBacked
  <2>14. OneEvidencePerTransition'
    <3> SUFFICES ASSUME NoncesAreSpelledOnce
                 PROVE  /\ \A d, e \in DOMAIN evidence' :
                             d.transition_id = e.transition_id => d = e
                        /\ \A b \in Authorizers, e \in DOMAIN evidence' :
                             auth'[b].pc = "reserved" => e.transition_id # auth'[b].local.tid
                        /\ \A b, c \in Authorizers :
                             /\ InFlight(b)' /\ InFlight(c)'
                             /\ auth'[b].local.tid = auth'[c].local.tid
                             => b = c
      BY DEF OneEvidencePerTransition
    <3>1. \A e \in DOMAIN evidence : e.transition_id # l.tid
      BY <1>1, <2>5 DEF AuthorityInv, OneEvidencePerTransition
    <3>2. \A d, e \in DOMAIN evidence' : d.transition_id = e.transition_id => d = e
      BY <3>1, <2>2, <2>3 DEF AuthorityInv, OneEvidencePerTransition
    <3>3. \A b, c \in Authorizers :
            InFlight(b)' /\ InFlight(c)' /\ auth'[b].local.tid = auth'[c].local.tid => b = c
      BY <2>6 DEF AuthorityInv, OneEvidencePerTransition
    <3>4. ASSUME NEW b \in Authorizers, NEW e \in DOMAIN evidence', auth'[b].pc = "reserved"
          PROVE  e.transition_id # auth'[b].local.tid
      <4>1. b # a /\ auth[b].pc = "reserved" /\ InFlight(b) /\ auth'[b].local = auth[b].local
        BY <3>4, <2>4, <2>6 DEF InFlight
      <4>2. CASE e = id
        BY <4>1, <4>2, <1>1, <2>2, <2>5 DEF AuthorityInv, OneEvidencePerTransition
      <4>3. CASE e \in DOMAIN evidence
        BY <4>1, <4>3 DEF AuthorityInv, OneEvidencePerTransition
      <4> QED BY <4>2, <4>3, <2>3
    <3> QED BY <3>2, <3>3, <3>4
  <2> QED BY <2>7, <2>8, <2>9, <2>11, <2>12, <2>13, <2>14 DEF AuthorityInv
<1> QED BY <1>2, <1>3

\* A capability is issued for a reservation that has its evidence and that no other
\* capability was issued for.
LEMMA IssueKeepsAuthority ==
  ASSUME TypeOK, StateInv, AuthorityInv, NEW a \in Authorizers, Issue(a)
  PROVE  AuthorityInv'
<1> DEFINE l   == auth[a].local
           cap == Capability(l.cand, l.tid, l.now)
<1>1. /\ auth[a].pc = "committed" /\ InFlight(a) /\ l.cand \in Candidates
      /\ issued' = issued \cup {cap} /\ live' = live \cup {cap}
      /\ AuthGoes(a, "returned", NoCall)
      /\ UNCHANGED <<nonces, transitions, evidence, crashes>>
  BY AuthLocals DEF Issue, InFlight, TypeOK, protected, external
<1>2. /\ cap.transition_id = l.tid /\ cap.issued_at = l.now
      /\ cap.nonce = NonceOf(a) /\ cap.evidence_id = EvidenceOf(a)
      /\ EvidenceOf(a).transition_id = l.tid
  BY CapabilityFields, EvidenceFields DEF NonceOf, EvidenceOf
<1>3. Validate(l.cand, l.now) /\ cap = Capability(l.cand, cap.transition_id, cap.issued_at)
  BY <1>1, <1>2 DEF AuthorityInv, AcceptedInFlight
<1> HIDE DEF cap, l
<1>4. /\ auth'[a].pc = "returned"
      /\ \A b \in Authorizers \ {a} : auth'[b] = auth[b]
  BY <1>1, OtherAuthorizersStay DEF TypeOK
<1>5. \A b \in Authorizers :
        InFlight(b)' => b # a /\ InFlight(b) /\ NonceOf(b)' = NonceOf(b) /\ auth'[b] = auth[b]
  BY <1>4 DEF InFlight, NonceOf
<1>6. /\ NonceOf(a) \in DOMAIN nonces /\ nonces[NonceOf(a)] = l.tid
      /\ EvidenceOf(a) \in DOMAIN evidence
  BY <1>1 DEF AuthorityInv, ReservedInFlight, CommittedInFlight, l
<1>7. evidence[EvidenceOf(a)].transition_id = l.tid
  BY <1>2, <1>6 DEF AuthorityInv, EvidenceIsFiled
<1>8. \A b \in live : b.nonce # cap.nonce
  BY <1>1, <1>2 DEF AuthorityInv, ReservedInFlight
<1>9. AcceptedInFlight'
  BY <1>4 DEF AuthorityInv, AcceptedInFlight
<1>10. ReservedInFlight'
  <2>1. \A b \in Authorizers : InFlight(b)' =>
          NonceOf(b)' \in DOMAIN nonces' /\ nonces'[NonceOf(b)'] = auth'[b].local.tid
    BY <1>1, <1>5 DEF AuthorityInv, ReservedInFlight
  <2>2. \A b, c \in Authorizers :
          InFlight(b)' /\ InFlight(c)' /\ NonceOf(b)' = NonceOf(c)' => b = c
    BY <1>5 DEF AuthorityInv, ReservedInFlight
  <2>3. \A b \in Authorizers, k \in live' : InFlight(b)' => k.nonce # NonceOf(b)'
    BY <1>1, <1>2, <1>5 DEF AuthorityInv, ReservedInFlight
  <2> QED BY <2>1, <2>2, <2>3 DEF ReservedInFlight
<1>11. CommittedInFlight'
  BY <1>1, <1>4 DEF AuthorityInv, CommittedInFlight, EvidenceOf
<1>12. EvidenceIsFiled' /\ LiveBeforeCrashes'
  BY <1>1 DEF AuthorityInv, EvidenceIsFiled, LiveBeforeCrashes
<1>13. IssuedAreDerived'
  BY <1>1, <1>2, <1>3 DEF AuthorityInv, IssuedAreDerived
<1>14. CapabilitiesAreBacked'
  BY <1>1, <1>2, <1>6, <1>7, <1>8 DEF AuthorityInv, CapabilitiesAreBacked
<1>15. OneEvidencePerTransition'
  BY <1>1, <1>4, <1>5 DEF AuthorityInv, OneEvidencePerTransition
<1> QED BY <1>9, <1>10, <1>11, <1>12, <1>13, <1>14, <1>15 DEF AuthorityInv

\* A crash leaves clients with capabilities that are no longer backed, and nothing
\* else.
LEMMA CrashKeepsAuthority ==
  ASSUME TypeOK, AuthorityInv, Crash
  PROVE  AuthorityInv'
<1>1. /\ \A a \in Authorizers : auth'[a].pc = "ready"
      /\ DOMAIN evidence' = {} /\ live' = {} /\ issued' = issued
  BY DEF Crash, Empty
<1>2. crashes' # 0
  BY CrashBound DEF Crash, TypeOK, WorldTypeOK
<1>3. AcceptedInFlight' /\ ReservedInFlight' /\ CommittedInFlight'
  BY <1>1 DEF AcceptedInFlight, ReservedInFlight, CommittedInFlight, InFlight
<1>4. EvidenceIsFiled' /\ IssuedAreDerived' /\ LiveBeforeCrashes' /\ CapabilitiesAreBacked'
  BY <1>1, <1>2 DEF AuthorityInv, EvidenceIsFiled, IssuedAreDerived, LiveBeforeCrashes,
                    CapabilitiesAreBacked
<1>5. OneEvidencePerTransition'
  BY <1>1 DEF OneEvidencePerTransition, InFlight
<1> QED BY <1>3, <1>4, <1>5 DEF AuthorityInv

LEMMA AuthorityInvStep == TypeOK /\ StateInv /\ AuthorityInv /\ [Next]_vars => AuthorityInv'
<1> SUFFICES ASSUME TypeOK, StateInv, AuthorityInv, [Next]_vars PROVE AuthorityInv'
  OBVIOUS
<1> USE DEF external, protected, clients
<1>1. CASE UNCHANGED vars
  BY <1>1, QuietAuthorityStep DEF vars
<1>2. ASSUME NEW a \in Authorizers, NEW c \in Candidates, NEW cost \in Costs,
             Authorize(a, c, cost)
      PROVE  AuthorityInv'
  <2> DEFINE new == [cand |-> c, cost |-> cost, now |-> clock]
  <2>1. UNCHANGED <<nonces, transitions, evidence, issued, live, crashes>>
    BY <1>2 DEF Authorize
  <2>2. CASE Validate(c, clock)
    <3>1. AuthGoes(a, "validated", new) /\ Validate(new.cand, new.now)
      BY <1>2, <2>2 DEF Authorize, PutToPolicy
    <3> HIDE DEF new
    <3> QED BY <2>1, <3>1, QuietAuthorizerStep DEF TypeOK
  <2>3. CASE ~Validate(c, clock)
    <3>1. AuthGoes(a, "raised", NoCall)
      BY <1>2, <2>3 DEF Authorize, PutToPolicy
    <3> QED BY <2>1, <3>1, QuietAuthorizerStep DEF TypeOK
  <2> QED BY <2>2, <2>3
<1>3. ASSUME NEW a \in Authorizers, AuthStep(a)
      PROVE  AuthorityInv'
  <2>1. CASE ReserveRefused(a)
    BY <2>1, QuietAuthorizerStep DEF ReserveRefused, TypeOK
  <2> QED BY <1>3, <2>1, ReserveKeepsAuthority, CommitKeepsAuthority, IssueKeepsAuthority
          DEF AuthStep
<1>4. CASE \E t \in Callers, s \in Sinks, c \in Candidates, cap \in Presentable,
              proof \in PresentableProofs : Effectuate(t, s, c, cap, proof)
  BY <1>4, QuietAuthorityStep DEF Effectuate
<1>5. CASE \E t \in Callers : CallStep(t)
  BY <1>5, QuietAuthorityStep
  DEF CallStep, CheckEvidence, CheckTransition, Claim, ClaimTimesOut, CommitEffect,
      EffectFails, ReturnReceipt
<1>6. CASE \/ ClockMoves \/ EvidenceStoreToggles \/ DownstreamWillFail
           \/ \E key \in PresenterKeys, cap \in issued, c \in Candidates : Present(key, cap, c)
  BY <1>6, QuietAuthorityStep
  DEF ClockMoves, EvidenceStoreToggles, DownstreamWillFail, Present
<1>7. CASE Crash
  BY <1>7, CrashKeepsAuthority
<1>8. CASE \E s \in Sources, quota, budget \in Grants : Reconfigure(s, quota, budget)
  BY <1>8, QuietAuthorityStep DEF Reconfigure, ConfigureSource
<1> QED BY <1>1, <1>2, <1>3, <1>4, <1>5, <1>6, <1>7, <1>8 DEF Next

\* The invariant of the authority side holds of every reachable state.
THEOREM AuthorityInvAlways == Spec => []AuthorityInv
  BY TypeCorrect, StateInvInCore, AuthorityInvInit, AuthorityInvStep, PTL DEF Spec

\* A capability a client received since the last crash is backed by committed
\* evidence and by the reservation of its nonce, and no two of them share a
\* reservation, whichever authorizers race and whichever commits fail
\* (ProtectedAuthority.authorize, authority.py).
THEOREM IssuedMeansBacked == Spec => []CapabilitiesAreBacked
<1>1. AuthorityInv => CapabilitiesAreBacked
  BY DEF AuthorityInv
<1> QED BY <1>1, AuthorityInvAlways, PTL

-----------------------------------------------------------------------------
(* The effects so far *)

\* Effects are only ever added, at the end, and belong to the run they happen in.
LEMMA EffectsGrow ==
  ASSUME TypeOK, [Next]_vars
  PROVE  /\ DOMAIN effects \subseteq DOMAIN effects'
         /\ \A i \in DOMAIN effects : effects'[i] = effects[i]
         /\ \A i \in DOMAIN effects' : i \in DOMAIN effects \/ effects'[i].run = crashes'
<1>1. CASE effects' = effects
  BY <1>1
<1>2. ASSUME NEW t \in Callers, CommitEffect(t)
      PROVE  /\ DOMAIN effects \subseteq DOMAIN effects'
             /\ \A i \in DOMAIN effects : effects'[i] = effects[i]
             /\ \A i \in DOMAIN effects' : i \in DOMAIN effects \/ effects'[i].run = crashes'
  <2> DEFINE e == NextEffect(call[t].local)
  <2>1. effects' = Append(effects, e) /\ e.run = crashes' /\ effects \in Seq({effects[i] : i \in DOMAIN effects})
    BY <1>2 DEF CommitEffect, NextEffect, external, TypeOK, HistoryTypeOK
  <2> HIDE DEF e
  <2> QED BY <2>1, AppendProps
<1>3. effects' = effects \/ \E t \in Callers : CommitEffect(t)
  BY DEF Next, vars, sinkSide, Authorize, AuthStep, Reserve, ReserveRefused, CommitEvidence,
         Issue, Effectuate, CallStep, CheckEvidence, CheckTransition, Claim, ClaimTimesOut,
         EffectFails, ReturnReceipt, ClockMoves, EvidenceStoreToggles, DownstreamWillFail,
         Present, Reconfigure, Crash
<1> QED BY <1>1, <1>2, <1>3

-----------------------------------------------------------------------------
(* What calls and effects hold *)

\* The transitions that verify, each with the acts it verifies for.
Verified ==
  {p \in (DOMAIN transitions) \X Candidates : VerifyTransition(p[1], p[2])}

\* The capability a call works with was issued as it is, for its act and sink, and
\* had not expired when the call sampled the clock; at a strict sink the presenter
\* the act names had made a proof for it close to that time.
Held(l) ==
  /\ l.cand \in Candidates
  /\ l.cap \in issued
  /\ l.cap.candidate_digest = CandidateDigest(l.cand)
  /\ l.cap.nonce = Act[l.cand].nonce
  /\ l.cap.sink_id = Ctx[l.sink].sink_id
  /\ l.now <= l.cap.expires_at
  /\ Ctx[l.sink].require_proof =>
       \E p \in proofs :
         /\ NamesPresenter(l.cand, p.signature.by)
         /\ p.capability_id = l.cap.capability_id
         /\ Distance(l.now, p.presented_at) <= Ctx[l.sink].presentation_freshness

\* Its evidence is in the store.
Evidenced(l) == l.cap.evidence_id \in DOMAIN evidence

\* Where nonces are spelled once, its transition verifies, and goes on to.
Reserved(l) == NoncesAreSpelledOnce => <<l.cap.transition_id, l.cand>> \in Verified

CallsHold ==
  \A t \in Callers :
    /\ call[t].pc \in {"presented", "evidenced", "verified", "claimed"} => Held(call[t].local)
    /\ call[t].pc \in {"evidenced", "verified", "claimed"} => Evidenced(call[t].local)
    /\ call[t].pc \in {"verified", "claimed"} => Reserved(call[t].local)

\* An effect keeps what its call held; what is not durable, until the next crash.
EffectsHold ==
  \A i \in DOMAIN effects :
    /\ effects[i].candidate_digest = CandidateDigest(effects[i].call.cand)
    /\ Held(effects[i].call)
    /\ effects[i].run = crashes => Evidenced(effects[i].call) /\ Reserved(effects[i].call)

CustodyInv == CallsHold /\ EffectsHold

\* Between two crashes evidence and capabilities are never withdrawn and, where
\* nonces are spelled once, neither are reservations.
LEMMA SharedGrows ==
  ASSUME TypeOK, StateInv, [Next]_vars, UNCHANGED crashes
  PROVE  /\ issued \subseteq issued' /\ proofs \subseteq proofs'
         /\ DOMAIN evidence \subseteq DOMAIN evidence'
         /\ NoncesAreSpelledOnce => Verified \subseteq Verified'
<1>1. ~Crash
  BY CrashBound DEF Crash, TypeOK, WorldTypeOK
<1>2. issued \subseteq issued' /\ proofs \subseteq proofs'
  BY <1>1
  DEF Next, vars, clients, Authorize, AuthStep, Reserve, ReserveRefused, CommitEvidence,
      Issue, Effectuate, CallStep, CheckEvidence, CheckTransition, Claim, ClaimTimesOut,
      CommitEffect, EffectFails, ReturnReceipt, ClockMoves, EvidenceStoreToggles,
      DownstreamWillFail, Present, Reconfigure
<1>3. DOMAIN evidence \subseteq DOMAIN evidence'
  <2>1. UNCHANGED evidence \/ \E a \in Authorizers : CommitEvidence(a)
    BY <1>1
    DEF Next, vars, protected, Authorize, AuthStep, Reserve, ReserveRefused, Issue,
        Effectuate, CallStep, CheckEvidence, CheckTransition, Claim, ClaimTimesOut,
        CommitEffect, EffectFails, ReturnReceipt, ClockMoves, EvidenceStoreToggles,
        DownstreamWillFail, Present, Reconfigure
  <2>2. ASSUME NEW a \in Authorizers, CommitEvidence(a)
        PROVE  DOMAIN evidence \subseteq DOMAIN evidence'
    <3> DEFINE id == EvidenceId(auth[a].local.cand, auth[a].local.tid, auth[a].local.now)
               ev == Evidence(auth[a].local.cand, auth[a].local.tid, auth[a].local.now)
    <3>1. UNCHANGED evidence \/ evidence' = Put(evidence, id, ev)
      BY <2>2 DEF CommitEvidence
    <3> HIDE DEF id, ev
    <3> QED BY <3>1 DEF Put
  <2> QED BY <2>1, <2>2
<1>4. ASSUME NoncesAreSpelledOnce, NEW p \in Verified
      PROVE  p \in Verified'
  <2> DEFINE tid == p[1]
             c   == p[2]
  <2>1. [StateNext]_stateVars
    BY <1>1, StateSteps
  <2>2. /\ tid \in DOMAIN transitions /\ c \in Candidates /\ p = <<tid, c>>
        /\ VerifyTransition(tid, c)
    BY DEF Verified
  <2>3. Act[c].nonce = transitions[tid].nonce
    BY <2>2 DEF VerifyTransition
  <2>4. \A d \in Candidates :
          CandidateDigest(d) = tid.candidate => Act[d].nonce = Act[c].nonce
    <3>1. PICK e \in Candidates : transitions[tid] = Transition(e, tid.before, tid.cost)
      BY <2>2 DEF StateInv, TransitionsAreDerived
    <3>2. /\ transitions[tid].transition_id = TransitionId(e, tid.before, tid.cost)
          /\ transitions[tid].nonce = Act[e].nonce
      BY <3>1, TransitionFields
    <3>3. tid.candidate = CandidateDigest(e)
      <4>1. tid = TransitionId(e, tid.before, tid.cost)
        BY <2>2, <3>2 DEF StateInv, StateTypeOK
      <4> QED BY <4>1, TransitionIdFields
    <3> HIDE DEF tid, c
    <3> QED BY <1>4, <2>2, <2>3, <3>2, <3>3 DEF NoncesAreSpelledOnce
  <2>5. VerifyTransition(tid, c)'
    <3> HIDE DEF tid, c
    <3> QED BY <2>1, <2>2, <2>4, VerificationSurvives
  <2>6. tid \in DOMAIN transitions'
    BY <2>5 DEF VerifyTransition
  <2> QED BY <2>2, <2>5, <2>6 DEF Verified
<1> QED BY <1>2, <1>3, <1>4

-----------------------------------------------------------------------------
(* Custody *)

LEMMA CustodyInit == Init => CustodyInv
BY DEF Init, CustodyInv, CallsHold, EffectsHold

\* What a call holds it goes on holding until a crash.
LEMMA HoldingLasts ==
  ASSUME TypeOK, StateInv, [Next]_vars, UNCHANGED crashes
  PROVE  \A l : /\ Held(l) => Held(l)'
                /\ Evidenced(l) => Evidenced(l)'
                /\ Reserved(l) => Reserved(l)'
BY SharedGrows DEF Held, Evidenced, Reserved

\* A step without effect that takes no call any further, except perhaps one, which
\* it leaves with all that its new place asks for.
LEMMA CustodyKept ==
  ASSUME TypeOK, StateInv, CustodyInv, [Next]_vars, UNCHANGED <<crashes, effects>>,
         \A u \in Callers :
           \/ call'[u] = call[u]
           \/ call'[u].pc \notin {"presented", "evidenced", "verified", "claimed"}
           \/ /\ call'[u].pc = "claimed" /\ call[u].pc = "verified"
              /\ call'[u].local = call[u].local
           \/ /\ call'[u].pc = "presented" /\ Held(call'[u].local)
           \/ /\ call'[u].pc = "evidenced" /\ call[u].pc = "presented"
              /\ call'[u].local = call[u].local /\ Evidenced(call[u].local)
           \/ /\ call'[u].pc = "verified" /\ call[u].pc = "evidenced"
              /\ call'[u].local = call[u].local /\ Reserved(call[u].local)
  PROVE  CustodyInv'
<1>1. \A l : /\ Held(l) => Held(l)'
             /\ Evidenced(l) => Evidenced(l)'
             /\ Reserved(l) => Reserved(l)'
  BY HoldingLasts
<1>2. CallsHold'
  <2> SUFFICES ASSUME NEW u \in Callers, NEW l, l = call'[u].local
               PROVE  /\ call'[u].pc \in {"presented", "evidenced", "verified", "claimed"}
                           => Held(l)'
                      /\ call'[u].pc \in {"evidenced", "verified", "claimed"} => Evidenced(l)'
                      /\ call'[u].pc \in {"verified", "claimed"} => Reserved(l)'
    BY DEF CallsHold, Held, Evidenced, Reserved
  <2>1. \/ call'[u] = call[u]
        \/ call'[u].pc \notin {"presented", "evidenced", "verified", "claimed"}
        \/ /\ call'[u].pc = "claimed" /\ call[u].pc = "verified" /\ l = call[u].local
        \/ /\ call'[u].pc = "presented" /\ Held(l)
        \/ /\ call'[u].pc = "evidenced" /\ call[u].pc = "presented"
           /\ l = call[u].local /\ Evidenced(l)
        \/ /\ call'[u].pc = "verified" /\ call[u].pc = "evidenced"
           /\ l = call[u].local /\ Reserved(l)
    OBVIOUS
  <2> QED BY <1>1, <2>1 DEF CustodyInv, CallsHold
<1>3. EffectsHold'
  <2> SUFFICES ASSUME NEW i \in DOMAIN effects
               PROVE  /\ effects[i].candidate_digest = CandidateDigest(effects[i].call.cand)
                      /\ Held(effects[i].call)'
                      /\ effects[i].run = crashes =>
                           Evidenced(effects[i].call)' /\ Reserved(effects[i].call)'
    BY DEF EffectsHold, Held, Evidenced, Reserved
  <2> QED BY <1>1 DEF CustodyInv, EffectsHold
<1> QED BY <1>2, <1>3 DEF CustodyInv

\* The signature covers the expiry: what a sink accepts is a capability as it was
\* issued.
LEMMA AcceptedIsIssued ==
  ASSUME IssuedAreDerived, NEW cap \in Presentable, NEW ctx, CapabilityVerifies(ctx, cap)
  PROVE  cap \in issued
<1> SUFFICES ASSUME NEW orig \in issued,
                    cap = [orig EXCEPT !.expires_at = orig.expires_at + Extension]
             PROVE  cap \in issued
  BY DEF Presentable
<1>1. PICK c \in Candidates : orig = Capability(c, orig.transition_id, orig.issued_at)
  BY DEF IssuedAreDerived
<1> DEFINE core == WithId(CapabilityCore(c, orig.transition_id, orig.issued_at), "capability_id",
                          CapabilityId(c, orig.transition_id, orig.issued_at))
<1>2. orig = Signed(AuthorityKey, core)
  BY <1>1 DEF Capability
<1>3. "expires_at" \in DOMAIN core /\ "signature" \notin DOMAIN core
  BY DEF WithId, CapabilityCore
<1> HIDE DEF core
<1>4. /\ DOMAIN orig = DOMAIN core \cup {"signature"}
      /\ orig.signature = Sign(AuthorityKey, core)
      /\ \A f \in DOMAIN core : orig[f] = core[f]
      /\ orig = [f \in DOMAIN orig |-> orig[f]]
  BY <1>2, <1>3 DEF Signed
<1>5. /\ DOMAIN cap = DOMAIN orig /\ cap.signature = orig.signature
      /\ \A f \in DOMAIN orig : f # "expires_at" => cap[f] = orig[f]
      /\ cap = [f \in DOMAIN cap |-> cap[f]]
  BY <1>3, <1>4
<1>6. Canonical(Unsigned(cap)) = Canonical(core)
  BY <1>4, <1>5 DEF CapabilityVerifies, Verify, Sign
<1>7. Canonical(core)["expires_at"] = core["expires_at"]
  BY <1>3 DEF Canonical, TextFields
<1>8. Canonical(Unsigned(cap))["expires_at"] = cap["expires_at"]
  <2>1. /\ "expires_at" \in DOMAIN Unsigned(cap)
        /\ Unsigned(cap)["expires_at"] = cap["expires_at"]
    BY <1>3, <1>4, <1>5 DEF Unsigned
  <2> HIDE DEF Unsigned
  <2> QED BY <2>1 DEF Canonical, TextFields
<1>9. cap["expires_at"] = orig["expires_at"]
  BY <1>3, <1>4, <1>6, <1>7, <1>8
<1>10. cap = orig
  BY <1>4, <1>5, <1>9
<1> QED BY <1>10

\* Presenters make their proofs with Presenter.prove.
ProofsAreMade ==
  \A p \in proofs :
    \E key \in PresenterKeys, cap \in issued, c \in Candidates, at \in Times :
      p = Prove(key, cap, c, at)

LEMMA ProofsAreMadeInit == Init => ProofsAreMade
BY DEF Init, ProofsAreMade

LEMMA ProofsAreMadeStep == TypeOK /\ ProofsAreMade /\ [Next]_vars => ProofsAreMade'
<1> SUFFICES ASSUME TypeOK, ProofsAreMade, [Next]_vars PROVE ProofsAreMade'
  OBVIOUS
<1>1. issued \subseteq issued'
  BY DEF Next, vars, clients, Authorize, AuthStep, Reserve, ReserveRefused,
         CommitEvidence, Issue, Effectuate, CallStep, CheckEvidence, CheckTransition,
         Claim, ClaimTimesOut, CommitEffect, EffectFails, ReturnReceipt, ClockMoves,
         EvidenceStoreToggles, DownstreamWillFail, Present, Reconfigure, Crash
<1>2. CASE UNCHANGED proofs
  BY <1>1, <1>2 DEF ProofsAreMade
<1>3. CASE \E key \in PresenterKeys, cap \in issued, c \in Candidates : Present(key, cap, c)
  BY <1>1, <1>3 DEF ProofsAreMade, Present, TypeOK, WorldTypeOK
<1> QED
  BY <1>2, <1>3
  DEF Next, vars, clients, Authorize, AuthStep, Reserve, ReserveRefused, CommitEvidence,
      Issue, Effectuate, CallStep, CheckEvidence, CheckTransition, Claim, ClaimTimesOut,
      CommitEffect, EffectFails, ReturnReceipt, ClockMoves, EvidenceStoreToggles,
      DownstreamWillFail, Reconfigure, Crash

\* A presentation proof in anybody's hands was made by the holder of its key
\* (Presenter.prove, pop.py).
THEOREM ProofsAlwaysMade == Spec => []ProofsAreMade
  BY ProofsAreMadeInit, ProofsAreMadeStep, TypeCorrect, PTL DEF Spec

\* A proof that passes was made by the holder of the key it names: relabelling a
\* proof does not make it another presenter's.
LEMMA AcceptedProofIsMade ==
  ASSUME ProofsAreMade, NEW proof \in PresentableProofs, NEW ctx, ctx.require_proof,
         NEW c, NEW cap, NEW now, PresentationOk(ctx, c, cap, proof, now)
  PROVE  \E p \in proofs :
           /\ NamesPresenter(c, p.signature.by)
           /\ p.capability_id = cap.capability_id
           /\ Distance(now, p.presented_at) <= ctx.presentation_freshness
<1>1. /\ proof # NoProof
      /\ NamesPresenter(c, proof.presenter_key_id)
      /\ proof.capability_id = cap.capability_id
      /\ Distance(now, proof.presented_at) <= ctx.presentation_freshness
      /\ proof.signature.by = proof.presenter_key_id
  BY DEF PresentationOk, ProofVerifies, Verify, Sign
<1>2. PICK p \in proofs :
        \/ proof = p
        \/ \E key \in PresenterKeys : proof = [p EXCEPT !.presenter_key_id = key]
  BY <1>1 DEF PresentableProofs
<1>3. {"signature", "capability_id", "presented_at", "presenter_key_id"} \subseteq DOMAIN p
  <2>1. PICK key, k, d, at : p = Prove(key, k, d, at)
    BY DEF ProofsAreMade
  <2>2. DOMAIN Prove(key, k, d, at) =
          {"capability_id", "candidate_digest", "sink_id", "boundary_id", "nonce",
           "presented_at", "presenter_key_id"} \cup {"signature"}
    BY DEF Prove, Signed
  <2> QED BY <2>1, <2>2
<1>4. /\ p.signature = proof.signature /\ p.capability_id = proof.capability_id
      /\ p.presented_at = proof.presented_at
  BY <1>2, <1>3
<1> QED BY <1>1, <1>4

\* What a call that passed the checks of the presented arguments holds.
LEMMA EffectuateKeepsCustody ==
  ASSUME TypeOK, StateInv, AuthorityInv, ProofsAreMade, CustodyInv, [Next]_vars,
         NEW t \in Callers, NEW s \in Sinks, NEW c \in Candidates, NEW cap \in Presentable,
         NEW proof \in PresentableProofs, Effectuate(t, s, c, cap, proof)
  PROVE  CustodyInv'
<1> DEFINE new == [sink |-> s, cand |-> c, cap |-> cap, now |-> clock]
<1>1. UNCHANGED <<crashes, effects>>
  BY DEF Effectuate, external, sinkSide
<1>2. CASE PresentedOk(Ctx[s], c, cap, proof, clock)
  <2>1. CallGoes(t, "presented", new)
    BY <1>2 DEF Effectuate
  <2>2. cap \in issued
    BY <1>2, AcceptedIsIssued DEF PresentedOk, AuthorityInv
  <2>3. Ctx[s].require_proof =>
          \E p \in proofs :
            /\ NamesPresenter(c, p.signature.by)
            /\ p.capability_id = cap.capability_id
            /\ Distance(clock, p.presented_at) <= Ctx[s].presentation_freshness
    BY <1>2, AcceptedProofIsMade DEF PresentedOk
  <2>4. Held(new)
    BY <1>2, <2>2, <2>3 DEF PresentedOk, Held
  <2> HIDE DEF new
  <2>5. /\ call'[t].pc = "presented" /\ call'[t].local = new
        /\ \A u \in Callers \ {t} : call'[u] = call[u]
    BY <2>1, OthersStay DEF TypeOK
  <2> QED BY <1>1, <2>4, <2>5, CustodyKept
<1>3. CASE ~PresentedOk(Ctx[s], c, cap, proof, clock)
  <2>1. CallGoes(t, "raised", NoCall)
    BY <1>3 DEF Effectuate
  <2>2. /\ call'[t].pc = "raised"
        /\ \A u \in Callers \ {t} : call'[u] = call[u]
    BY <2>1, OthersStay DEF TypeOK
  <2> QED BY <1>1, <2>2, CustodyKept
<1> QED BY <1>2, <1>3

\* The other steps of a call before its effect, and a failed effect.
LEMMA CallStepKeepsCustody ==
  ASSUME TypeOK, StateInv, AuthorityInv, CustodyInv, [Next]_vars,
         NEW t \in Callers,
         \/ CheckEvidence(t) \/ CheckTransition(t) \/ Claim(t) \/ ClaimTimesOut(t)
         \/ EffectFails(t) \/ ReturnReceipt(t)
  PROVE  CustodyInv'
<1> DEFINE l == call[t].local
<1>1. UNCHANGED <<crashes, effects>>
  BY DEF CheckEvidence, CheckTransition, Claim, ClaimTimesOut, EffectFails, ReturnReceipt,
         external, sinkSide
<1>2. \/ CallGoes(t, "raised", NoCall)
      \/ CallGoes(t, "returned", NoCall)
      \/ CallGoes(t, "evidenced", l) /\ call[t].pc = "presented" /\ Evidenced(l)
      \/ CallGoes(t, "verified", l) /\ call[t].pc = "evidenced" /\ Reserved(l)
      \/ CallGoes(t, "claimed", l) /\ call[t].pc = "verified"
  <2>1. CASE CheckEvidence(t)
    BY <2>1 DEF CheckEvidence, Evidenced
  <2>2. CASE CheckTransition(t)
    <3>1. CASE ~VerifyTransition(l.cap.transition_id, l.cand)
      BY <2>2, <3>1 DEF CheckTransition
    <3>2. CASE VerifyTransition(l.cap.transition_id, l.cand)
      <4>1. l.cand \in Candidates
        BY <2>2, CallLocals DEF CheckTransition, TypeOK
      <4>2. l.cap.transition_id \in DOMAIN transitions
        BY <3>2 DEF VerifyTransition
      <4>3. Reserved(l)
        BY <3>2, <4>1, <4>2 DEF Reserved, Verified
      <4>4. CallGoes(t, "verified", l) /\ call[t].pc = "evidenced"
        BY <2>2, <3>2 DEF CheckTransition
      <4> QED BY <4>3, <4>4
    <3> QED BY <3>1, <3>2
  <2>3. CASE Claim(t)
    BY <2>3 DEF Claim
  <2>4. CASE ClaimTimesOut(t) \/ EffectFails(t) \/ ReturnReceipt(t)
    BY <2>4 DEF ClaimTimesOut, EffectFails, ReturnReceipt
  <2> QED BY <2>1, <2>2, <2>3, <2>4
<1> HIDE DEF l
<1>3. PICK pc, local :
        /\ CallGoes(t, pc, local)
        /\ \/ pc \in {"raised", "returned"}
           \/ pc = "evidenced" /\ local = l /\ call[t].pc = "presented" /\ Evidenced(l)
           \/ pc = "verified" /\ local = l /\ call[t].pc = "evidenced" /\ Reserved(l)
           \/ pc = "claimed" /\ local = l /\ call[t].pc = "verified"
  BY <1>2
<1>4. /\ call'[t].pc = pc /\ call'[t].local = local
      /\ \A u \in Callers \ {t} : call'[u] = call[u]
  <2>1. CallTypeOK /\ CallGoes(t, pc, local)
    BY <1>3 DEF TypeOK
  <2> QED BY <2>1, OthersStay
<1>5. l = call[t].local
  BY DEF l
<1> QED BY <1>1, <1>3, <1>4, <1>5, CustodyKept

\* An effect is made of what its call holds.
LEMMA CommitEffectKeepsCustody ==
  ASSUME TypeOK, StateInv, CustodyInv, [Next]_vars, NEW t \in Callers, CommitEffect(t)
  PROVE  CustodyInv'
<1> DEFINE l == call[t].local
           e == NextEffect(l)
<1>1. /\ call[t].pc = "claimed" /\ effects' = Append(effects, e)
      /\ CallGoes(t, "effected", [call |-> l, ordinal |-> e.ordinal])
      /\ UNCHANGED crashes
  BY DEF CommitEffect, external
<1>2. e.call = l /\ e.candidate_digest = CandidateDigest(l.cand)
  BY DEF NextEffect
<1>3. Held(l) /\ Evidenced(l) /\ Reserved(l)
  BY <1>1 DEF CustodyInv, CallsHold
<1>4. \A m : /\ Held(m) => Held(m)'
             /\ Evidenced(m) => Evidenced(m)'
             /\ Reserved(m) => Reserved(m)'
  BY <1>1, HoldingLasts
<1>5. /\ DOMAIN effects' = 1 .. Len(effects) + 1
      /\ \A i \in DOMAIN effects' :
           effects'[i] = e \/ (i \in DOMAIN effects /\ effects'[i] = effects[i])
  <2>1. effects \in Seq({effects[i] : i \in DOMAIN effects})
    BY DEF TypeOK, HistoryTypeOK
  <2> HIDE DEF e
  <2> QED BY <1>1, <2>1, AppendProps
<1>6. /\ call'[t].pc = "effected"
      /\ \A u \in Callers \ {t} : call'[u] = call[u]
  <2> DEFINE new == [call |-> l, ordinal |-> e.ordinal]
  <2>1. CallTypeOK /\ CallGoes(t, "effected", new)
    BY <1>1 DEF TypeOK
  <2> HIDE DEF new
  <2> QED BY <2>1, OthersStay
<1> HIDE DEF e, l
<1>7. CallsHold'
  <2> SUFFICES ASSUME NEW u \in Callers, NEW m, m = call'[u].local
               PROVE  /\ call'[u].pc \in {"presented", "evidenced", "verified", "claimed"}
                           => Held(m)'
                      /\ call'[u].pc \in {"evidenced", "verified", "claimed"} => Evidenced(m)'
                      /\ call'[u].pc \in {"verified", "claimed"} => Reserved(m)'
    BY DEF CallsHold, Held, Evidenced, Reserved
  <2> QED BY <1>4, <1>6 DEF CustodyInv, CallsHold
<1>8. EffectsHold'
  <2> SUFFICES ASSUME NEW i \in DOMAIN effects', NEW m, m = effects'[i].call
               PROVE  /\ effects'[i].candidate_digest = CandidateDigest(m.cand)
                      /\ Held(m)'
                      /\ effects'[i].run = crashes => Evidenced(m)' /\ Reserved(m)'
    BY <1>1 DEF EffectsHold, Held, Evidenced, Reserved
  <2>1. CASE effects'[i] = e
    BY <2>1, <1>2, <1>3, <1>4
  <2>2. CASE i \in DOMAIN effects /\ effects'[i] = effects[i]
    BY <2>2, <1>4 DEF CustodyInv, EffectsHold
  <2> QED BY <1>5, <2>1, <2>2
<1> QED BY <1>7, <1>8 DEF CustodyInv

\* A crash ends every call and begins a run without effects.
LEMMA CrashKeepsCustody ==
  ASSUME TypeOK, CustodyInv, Crash
  PROVE  CustodyInv'
<1>1. /\ \A u \in Callers : call'[u].pc = "ready"
      /\ UNCHANGED <<issued, proofs, effects>>
  BY DEF Crash
<1>2. \A i \in DOMAIN effects : effects[i].run # crashes'
  BY CrashBound DEF Crash, TypeOK, WorldTypeOK, HistoryTypeOK
<1>3. CallsHold'
  BY <1>1 DEF CallsHold
<1>4. EffectsHold'
  BY <1>1, <1>2 DEF CustodyInv, EffectsHold, Held
<1> QED BY <1>3, <1>4 DEF CustodyInv

LEMMA CustodyStep ==
  /\ TypeOK /\ StateInv /\ AuthorityInv /\ ProofsAreMade /\ CustodyInv
  /\ [Next]_vars
  => CustodyInv'
<1> SUFFICES ASSUME TypeOK, StateInv, AuthorityInv, ProofsAreMade, CustodyInv, [Next]_vars
             PROVE  CustodyInv'
  OBVIOUS
<1> USE DEF external, sinkSide
<1>1. CASE UNCHANGED vars
  BY <1>1, CustodyKept DEF vars
<1>2. CASE \E a \in Authorizers, c \in Candidates, cost \in Costs : Authorize(a, c, cost)
  BY <1>2, CustodyKept DEF Authorize
<1>3. CASE \E a \in Authorizers : AuthStep(a)
  BY <1>3, CustodyKept DEF AuthStep, Reserve, ReserveRefused, CommitEvidence, Issue
<1>4. CASE \E t \in Callers, s \in Sinks, c \in Candidates, cap \in Presentable,
              proof \in PresentableProofs : Effectuate(t, s, c, cap, proof)
  BY <1>4, EffectuateKeepsCustody
<1>5. CASE \E t \in Callers : CallStep(t)
  BY <1>5, CallStepKeepsCustody, CommitEffectKeepsCustody DEF CallStep
<1>6. CASE \/ ClockMoves \/ EvidenceStoreToggles \/ DownstreamWillFail
           \/ \E key \in PresenterKeys, cap \in issued, c \in Candidates : Present(key, cap, c)
  BY <1>6, CustodyKept DEF ClockMoves, EvidenceStoreToggles, DownstreamWillFail, Present
<1>7. CASE Crash
  BY <1>7, CrashKeepsCustody
<1>8. CASE \E s \in Sources, quota, budget \in Grants : Reconfigure(s, quota, budget)
  BY <1>8, CustodyKept DEF Reconfigure
<1> QED BY <1>1, <1>2, <1>3, <1>4, <1>5, <1>6, <1>7, <1>8 DEF Next

\* What a call has checked it still holds, and an effect has held all of it
\* (FinalitySink.verify and effectuate, sink.py).
THEOREM CustodyAlways == Spec => []CustodyInv
  BY TypeCorrect, StateInvInCore, AuthorityInvAlways, ProofsAlwaysMade, CustodyInit,
     CustodyStep, PTL DEF Spec

\* An effect has held an issued capability, and that was made for an accepted act.
LEMMA EffectsAreAuthorised ==
  AuthorityInv /\ CustodyInv => OnlyAuthorisedActsTakeEffect
<1> SUFFICES ASSUME AuthorityInv, CustodyInv, NEW i \in DOMAIN effects
             PROVE  LET l == effects[i].call IN
                    /\ l.cap \in issued
                    /\ l.cap.candidate_digest = effects[i].candidate_digest
                    /\ l.cap.nonce = Act[l.cand].nonce
                    /\ l.cap.sink_id = Ctx[l.sink].sink_id
                    /\ l.now <= l.cap.expires_at
                    /\ \E c \in Candidates :
                         /\ CandidateDigest(c) = CandidateDigest(l.cand)
                         /\ Validate(c, l.cap.issued_at)
  BY DEF OnlyAuthorisedActsTakeEffect
<1> DEFINE l == effects[i].call
<1>1. Held(l) /\ effects[i].candidate_digest = CandidateDigest(l.cand)
  BY DEF CustodyInv, EffectsHold
<1>2. PICK c \in Candidates :
        /\ l.cap = Capability(c, l.cap.transition_id, l.cap.issued_at)
        /\ Validate(c, l.cap.issued_at)
  BY <1>1 DEF AuthorityInv, IssuedAreDerived, Held
<1>3. CandidateDigest(c) = CandidateDigest(l.cand)
  BY <1>1, <1>2, CapabilityFields DEF Held
<1> QED BY <1>1, <1>2, <1>3 DEF Held

\* Whatever takes effect is an act the policy accepted when its capability was
\* issued, presented unaltered, at the intended sink and unexpired at the time the
\* call sampled, whichever calls interleave and whatever a client does to the
\* capability (FinalitySink.verify, sink.py; authorize, authority.py).
THEOREM OnlyAuthorisedActs == Spec => []OnlyAuthorisedActsTakeEffect
  BY EffectsAreAuthorised, AuthorityInvAlways, CustodyAlways, PTL

\* An effect at a strict sink has held a proof.
LEMMA PresentersArePresent == CustodyInv => StrictSinksNeedThePresenter
  BY DEF CustodyInv, EffectsHold, Held, StrictSinksNeedThePresenter, EffectId

\* At a sink of the strict profile nothing takes effect unless the presenter the act
\* itself names has made a proof for that very capability, close to the time the
\* sink sampled (FinalitySink.verify, sink.py; PresenterVerifierRegistry.verify, pop.py).
THEOREM StrictSinksAreStrict == Spec => []StrictSinksNeedThePresenter
  BY PresentersArePresent, CustodyAlways, PTL

-----------------------------------------------------------------------------
(* One effect per nonce *)

\* The identity of a capability is fixed by the act's digest, the transition and the
\* time of issue.
LEMMA SameEvidenceSameId ==
  ASSUME NEW c \in Candidates, NEW d \in Candidates, NEW tid, NEW sid, NEW now, NEW then,
         EvidenceId(c, tid, now) = EvidenceId(d, sid, then)
  PROVE  CapabilityId(c, tid, now) = CapabilityId(d, sid, then)
<1>1. CandidateDigest(c) = CandidateDigest(d) /\ now = then
  BY EvidenceFields
<1>2. Act[c].issued_at = Act[d].issued_at /\ Act[c].freshness = Act[d].freshness
  BY <1>1, SameDigestSameAct
<1>3. CapabilityCore(c, tid, now).expires_at = CapabilityCore(d, sid, then).expires_at
  BY <1>1, <1>2 DEF CapabilityCore
<1> QED BY <1>3 DEF CapabilityId

\* Two effects of this run with one nonce come from one capability: before any
\* crash because capabilities are backed, after one because evidence is unique.
LEMMA SameNonceSameCapability ==
  ASSUME AuthorityInv, CustodyInv, NEW i \in DOMAIN effects, NEW j \in DOMAIN effects,
         effects[i].run = crashes, effects[j].run = crashes,
         Act[effects[i].call.cand].nonce = Act[effects[j].call.cand].nonce,
         effects[i].run = 0 \/ NoncesAreSpelledOnce
  PROVE  EffectId(effects[i]) = EffectId(effects[j])
<1> DEFINE l == effects[i].call
           m == effects[j].call
<1>1. /\ Held(l) /\ Evidenced(l) /\ Reserved(l)
      /\ Held(m) /\ Evidenced(m) /\ Reserved(m)
  BY DEF CustodyInv, EffectsHold
<1>2. CASE effects[i].run = 0
  <2>1. l.cap \in live /\ m.cap \in live
    BY <1>1, <1>2 DEF AuthorityInv, LiveBeforeCrashes, Held
  <2>2. l.cap.nonce = m.cap.nonce
    BY <1>1 DEF Held
  <2>3. l.cap = m.cap
    BY <2>1, <2>2 DEF AuthorityInv, CapabilitiesAreBacked
  <2> QED BY <2>3 DEF EffectId
<1>3. CASE NoncesAreSpelledOnce
  <2>1. /\ VerifyTransition(l.cap.transition_id, l.cand)
        /\ VerifyTransition(m.cap.transition_id, m.cand)
    BY <1>1, <1>3 DEF Reserved, Verified
  <2>2. l.cap.transition_id = m.cap.transition_id
    BY <2>1 DEF VerifyTransition
  <2>3. PICK c \in Candidates : l.cap = Capability(c, l.cap.transition_id, l.cap.issued_at)
    BY <1>1 DEF AuthorityInv, IssuedAreDerived, Held
  <2>4. PICK d \in Candidates : m.cap = Capability(d, m.cap.transition_id, m.cap.issued_at)
    BY <1>1 DEF AuthorityInv, IssuedAreDerived, Held
  <2>5. /\ l.cap.evidence_id = EvidenceId(c, l.cap.transition_id, l.cap.issued_at)
        /\ l.cap.capability_id = CapabilityId(c, l.cap.transition_id, l.cap.issued_at)
        /\ m.cap.evidence_id = EvidenceId(d, m.cap.transition_id, m.cap.issued_at)
        /\ m.cap.capability_id = CapabilityId(d, m.cap.transition_id, m.cap.issued_at)
    BY <2>3, <2>4, CapabilityFields
  <2>6. l.cap.evidence_id = m.cap.evidence_id
    <3>1. /\ l.cap.evidence_id.transition_id = l.cap.transition_id
          /\ m.cap.evidence_id.transition_id = m.cap.transition_id
      BY <2>5, EvidenceFields
    <3> QED BY <1>1, <1>3, <2>2, <3>1
            DEF AuthorityInv, OneEvidencePerTransition, Evidenced
  <2>7. l.cap.capability_id = m.cap.capability_id
    <3> DEFINE tid == l.cap.transition_id
               now == l.cap.issued_at
               sid == m.cap.transition_id
               then == m.cap.issued_at
    <3>1. EvidenceId(c, tid, now) = EvidenceId(d, sid, then)
      BY <2>5, <2>6
    <3> HIDE DEF tid, now, sid, then
    <3>2. CapabilityId(c, tid, now) = CapabilityId(d, sid, then)
      BY <3>1, SameEvidenceSameId
    <3> QED BY <2>5, <3>2 DEF tid, now, sid, then
  <2> QED BY <2>7 DEF EffectId
<1> QED BY <1>2, <1>3

\* The part of OneEffectPerNonce that the run in progress adds to.
OneEffectPerNonceNow ==
  \A i, j \in DOMAIN effects :
    /\ effects[i].run = 0 \/ NoncesAreSpelledOnce
    /\ effects[i].run = crashes /\ effects[j].run = crashes
    /\ EffectStore(effects[i]) = EffectStore(effects[j])
    /\ Act[effects[i].call.cand].nonce = Act[effects[j].call.cand].nonce
    => i = j

LEMMA OneNow == ClaimInv /\ AuthorityInv /\ CustodyInv => OneEffectPerNonceNow
<1> SUFFICES ASSUME ClaimInv, AuthorityInv, CustodyInv,
                    NEW i \in DOMAIN effects, NEW j \in DOMAIN effects,
                    effects[i].run = 0 \/ NoncesAreSpelledOnce,
                    effects[i].run = crashes, effects[j].run = crashes,
                    EffectStore(effects[i]) = EffectStore(effects[j]),
                    Act[effects[i].call.cand].nonce = Act[effects[j].call.cand].nonce
             PROVE  i = j
  BY DEF OneEffectPerNonceNow
<1>1. EffectId(effects[i]) = EffectId(effects[j])
  BY SameNonceSameCapability
<1> QED BY <1>1 DEF ClaimInv, AtMostOneEffect, Remembered

\* One effect per nonce is a matter of the current run: the effects of earlier ones stay.
LEMMA EarlierRunsStay ==
  TypeOK /\ OneEffectPerNonce /\ OneEffectPerNonceNow' /\ [Next]_vars => OneEffectPerNonce'
<1> SUFFICES ASSUME TypeOK, OneEffectPerNonce, OneEffectPerNonceNow', [Next]_vars,
                    NEW i \in DOMAIN effects', NEW j \in DOMAIN effects',
                    effects'[i].run = 0 \/ NoncesAreSpelledOnce,
                    effects'[i].run = effects'[j].run,
                    EffectStore(effects'[i]) = EffectStore(effects'[j]),
                    Act[effects'[i].call.cand].nonce = Act[effects'[j].call.cand].nonce
             PROVE  i = j
  BY DEF OneEffectPerNonce, NoncesAreSpelledOnce, EffectStore
<1>1. CASE effects'[i].run = crashes'
  BY <1>1 DEF OneEffectPerNonceNow, NoncesAreSpelledOnce, EffectStore
<1>2. CASE effects'[i].run # crashes'
  <2>1. /\ i \in DOMAIN effects /\ effects'[i] = effects[i]
        /\ j \in DOMAIN effects /\ effects'[j] = effects[j]
    BY <1>2, EffectsGrow
  <2> QED BY <2>1 DEF OneEffectPerNonce
<1> QED BY <1>1, <1>2

\* One nonce gives at most one effect per store and run: in the first run always, in
\* later ones where nonces are spelled once, whichever acts carry the nonce and
\* whatever races, fails or is reconfigured (FinalitySink.effectuate, sink.py;
\* transition_for_authorization, state.py).
THEOREM NoncesAreUsedOnce == Spec => []OneEffectPerNonce
<1>1. Init => OneEffectPerNonce
  BY DEF Init, OneEffectPerNonce
<1> QED
  BY <1>1, EarlierRunsStay, OneNow, TypeCorrect, ClaimInvAlways, AuthorityInvAlways,
     CustodyAlways, PTL DEF Spec

-----------------------------------------------------------------------------
(* The quota *)

\* Each effect is charged to a transition of its own in the history of its source.
LEMMA EffectsAreCharged ==
  StateInv /\ CustodyInv /\ OneEffectPerNonce => EffectsWithinQuota
<1> SUFFICES ASSUME StateInv, CustodyInv, OneEffectPerNonce, Grants = {},
                    NoncesAreSpelledOnce, NEW s \in Sources, NEW st \in Stores
             PROVE  Cardinality({i \in DOMAIN effects :
                                   /\ effects[i].run = crashes
                                   /\ EffectStore(effects[i]) = st
                                   /\ Act[effects[i].call.cand].source = s}) <= DefaultQuota
  BY DEF EffectsWithinQuota
<1> DEFINE here == {i \in DOMAIN effects :
                      /\ effects[i].run = crashes
                      /\ EffectStore(effects[i]) = st
                      /\ Act[effects[i].call.cand].source = s}
           history == TransitionsOf(s)
           charged == [i \in here |-> effects[i].call.cap.transition_id]
<1>1. ASSUME NEW i \in here
      PROVE  /\ charged[i] \in history
             /\ transitions[charged[i]].nonce = Act[effects[i].call.cand].nonce
  <2>1. VerifyTransition(effects[i].call.cap.transition_id, effects[i].call.cand)
    BY DEF CustodyInv, EffectsHold, Reserved, Verified
  <2> QED BY <2>1 DEF VerifyTransition, TransitionsOf
<1>2. ASSUME NEW i \in here, NEW j \in here, charged[i] = charged[j]
      PROVE  i = j
  <2>1. Act[effects[i].call.cand].nonce = Act[effects[j].call.cand].nonce
    BY <1>1, <1>2
  <2> QED BY <2>1 DEF OneEffectPerNonce
<1>3. DOMAIN charged = here /\ charged \in [here -> history]
  BY <1>1
<1> HIDE DEF here, history, charged
<1>4. IsFiniteSet(history) /\ Cardinality(history) = sources[s].version
  BY DEF StateInv, TransitionsAreFinite, LedgerIsAChain, history
<1>5. charged \in Injection(here, history)
  BY <1>2, <1>3 DEF Injection, IsInjective
<1>6. IsFiniteSet(here) /\ Cardinality(here) <= Cardinality(history)
  BY <1>4, <1>5, FS_Injection
<1>7. sources[s].version <= DefaultQuota
  <2>1. sources[s].version \in Nat /\ sources[s].quota \in Nat
    BY DEF StateInv, StateTypeOK
  <2>2. sources[s].version + sources[s].quota = DefaultQuota
    BY DEF StateInv, QuotaIsCounted
  <2> QED BY <2>1, <2>2
<1>8. Cardinality(here) \in Nat /\ Cardinality(history) \in Nat
  BY <1>4, <1>6, FS_CardinalityType
<1> QED BY <1>4, <1>6, <1>7, <1>8, DefaultsAreNumbers DEF here

\* Between two crashes no source that is never reconfigured has more effects at one
\* store than its quota admitted, where nonces are spelled once: each effect has a
\* transition of its own in the history of its source (FinalitySink.effectuate,
\* sink.py; transition_for_authorization, state.py).
THEOREM EffectsStayWithinQuota == Spec => []EffectsWithinQuota
  BY EffectsAreCharged, StateInvInCore, CustodyAlways, NoncesAreUsedOnce, PTL

-----------------------------------------------------------------------------
(* Receipts *)

ThisRun == {i \in DOMAIN effects : effects[i].run = crashes}

\* Within a run the ordinals of effects are below their number; they never repeat.
OrdinalsAreBounded ==
  /\ IsFiniteSet(ThisRun)
  /\ \A i \in ThisRun : effects[i].ordinal \in Nat /\ effects[i].ordinal < Cardinality(ThisRun)

OrdinalsAreUnique ==
  \A i, j \in DOMAIN effects :
    effects[i].run = effects[j].run /\ effects[i].ordinal = effects[j].ordinal => i = j

\* A call about to return its receipt has had the effect it knows the ordinal of, and
\* a receipt repeats what such a call knew.
EffectedCallsHaveEffects ==
  \A t \in Callers :
    call[t].pc = "effected" =>
      \E i \in DOMAIN effects :
        /\ effects[i].run = crashes
        /\ effects[i].ordinal = call[t].local.ordinal
        /\ effects[i].call = call[t].local.call

ReceiptsHaveEffects ==
  \A r \in receipts : \E i \in DOMAIN effects :
    /\ effects[i].run = r.run
    /\ <<effects[i].candidate_digest, effects[i].ordinal>> = r.effect_reference
    /\ EffectId(effects[i]) = r.capability_id
    /\ effects[i].candidate_digest = r.candidate_digest

ReceiptInv ==
  /\ OrdinalsAreBounded /\ OrdinalsAreUnique
  /\ EffectedCallsHaveEffects /\ ReceiptsHaveEffects

LEMMA ReceiptInvInit == Init => ReceiptInv
<1> SUFFICES ASSUME Init PROVE ReceiptInv
  OBVIOUS
<1>1. DOMAIN effects = {} /\ receipts = {} /\ \A t \in Callers : call[t].pc = "ready"
  BY DEF Init
<1>2. ThisRun = {}
  BY <1>1 DEF ThisRun
<1>3. OrdinalsAreBounded
  BY <1>2, FS_EmptySet DEF OrdinalsAreBounded
<1> QED
  BY <1>1, <1>3 DEF ReceiptInv, OrdinalsAreUnique, EffectedCallsHaveEffects,
                    ReceiptsHaveEffects

\* A step without effect, receipt or crash.
LEMMA QuietReceiptStep ==
  ASSUME ReceiptInv, UNCHANGED <<crashes, effects, receipts>>,
         \A u \in Callers : call'[u].pc = "effected" => call'[u] = call[u]
  PROVE  ReceiptInv'
<1>1. ThisRun' = ThisRun
  BY DEF ThisRun
<1>2. OrdinalsAreBounded' /\ OrdinalsAreUnique'
  BY <1>1 DEF ReceiptInv, OrdinalsAreBounded, OrdinalsAreUnique
<1>3. EffectedCallsHaveEffects' /\ ReceiptsHaveEffects'
  BY DEF ReceiptInv, EffectedCallsHaveEffects, ReceiptsHaveEffects, EffectId
<1> QED BY <1>2, <1>3 DEF ReceiptInv

\* An effect takes the ordinal after those of its run.
LEMMA CommitEffectKeepsReceipts ==
  ASSUME TypeOK, ReceiptInv, NEW t \in Callers, CommitEffect(t)
  PROVE  ReceiptInv'
<1> DEFINE l == call[t].local
           e == NextEffect(l)
           n == Len(effects) + 1
           size == Cardinality(ThisRun)
<1>1. /\ effects' = Append(effects, e)
      /\ CallGoes(t, "effected", [call |-> l, ordinal |-> e.ordinal])
      /\ UNCHANGED <<crashes, receipts>>
  BY DEF CommitEffect, external
<1>2. e.run = crashes /\ e.ordinal = size /\ e.call = l
  BY DEF NextEffect, ThisRun
<1>3. IsFiniteSet(ThisRun) /\ size \in Nat
  BY FS_CardinalityType DEF ReceiptInv, OrdinalsAreBounded
<1> DEFINE new == [call |-> l, ordinal |-> e.ordinal]
<1>4. new.call = l /\ new.ordinal = size
  BY <1>2
<1> HIDE DEF new
<1>5. /\ call'[t].pc = "effected" /\ call'[t].local = new
      /\ \A u \in Callers \ {t} : call'[u] = call[u]
  <2>1. CallTypeOK /\ CallGoes(t, "effected", new)
    BY <1>1 DEF TypeOK, new
  <2> QED BY <2>1, OthersStay
<1>6. /\ DOMAIN effects = 1 .. Len(effects) /\ Len(effects) \in Nat
      /\ DOMAIN effects' = 1 .. n /\ effects'[n] = e
      /\ \A i \in DOMAIN effects : effects'[i] = effects[i]
  <2>1. effects \in Seq({effects[i] : i \in DOMAIN effects})
    BY DEF TypeOK, HistoryTypeOK
  <2> HIDE DEF e
  <2> QED BY <1>1, <2>1, AppendProps
<1> HIDE DEF e, l
<1>7. /\ DOMAIN effects' = DOMAIN effects \cup {n} /\ n \notin DOMAIN effects
  BY <1>6
<1> HIDE DEF n, size
<1>8. ThisRun' = ThisRun \cup {n} /\ n \notin ThisRun
  BY <1>1, <1>2, <1>6, <1>7 DEF ThisRun
<1>9. IsFiniteSet(ThisRun') /\ Cardinality(ThisRun') = size + 1
  BY <1>3, <1>8, FS_AddElement DEF size
<1>10. \A i \in ThisRun : effects[i].ordinal \in Nat /\ effects[i].ordinal < size
  BY DEF ReceiptInv, OrdinalsAreBounded, size
<1>11. OrdinalsAreBounded'
  <2> SUFFICES ASSUME NEW i \in ThisRun'
               PROVE  effects'[i].ordinal \in Nat /\ effects'[i].ordinal < size + 1
    BY <1>9 DEF OrdinalsAreBounded
  <2>1. CASE i = n
    BY <2>1, <1>2, <1>3, <1>6
  <2>2. CASE i \in ThisRun
    <3>1. effects'[i] = effects[i]
      BY <2>2, <1>6 DEF ThisRun
    <3> QED BY <2>2, <3>1, <1>3, <1>10
  <2> QED BY <2>1, <2>2, <1>8
<1>12. OrdinalsAreUnique'
  <2>1. \A i \in DOMAIN effects : effects[i].run = e.run => effects[i].ordinal # e.ordinal
    BY <1>2, <1>3, <1>10 DEF ThisRun
  <2> QED BY <2>1, <1>6, <1>7 DEF ReceiptInv, OrdinalsAreUnique
<1>13. EffectedCallsHaveEffects'
  BY <1>1, <1>2, <1>4, <1>5, <1>6, <1>7 DEF ReceiptInv, EffectedCallsHaveEffects
<1>14. ReceiptsHaveEffects'
  BY <1>1, <1>6, <1>7 DEF ReceiptInv, ReceiptsHaveEffects, EffectId
<1> QED BY <1>11, <1>12, <1>13, <1>14 DEF ReceiptInv

\* A receipt is made of what its call knows of its effect.
LEMMA ReturnReceiptKeepsReceipts ==
  ASSUME TypeOK, CustodyInv, ReceiptInv, NEW t \in Callers, ReturnReceipt(t)
  PROVE  ReceiptInv'
<1> DEFINE l == call[t].local
           r == Receipt(l.call, l.ordinal)
<1>1. /\ call[t].pc = "effected" /\ UNCHANGED <<crashes, effects>>
      /\ CallGoes(t, "returned", NoCall) \/ CallGoes(t, "raised", NoCall)
      /\ receipts' = receipts \/ receipts' = receipts \cup {r}
  BY DEF ReturnReceipt, external
<1>2. \A u \in Callers : call'[u].pc = "effected" => call'[u] = call[u]
  <2>1. CallTypeOK
    BY DEF TypeOK
  <2>2. PICK pc : pc # "effected" /\ CallGoes(t, pc, NoCall)
    BY <1>1
  <2>3. /\ call'[t].pc = pc
        /\ \A u \in Callers \ {t} : call'[u] = call[u]
    BY <2>1, <2>2, OthersStay
  <2> QED BY <2>2, <2>3
<1>3. PICK i \in DOMAIN effects :
        effects[i].run = crashes /\ effects[i].ordinal = l.ordinal /\ effects[i].call = l.call
  BY <1>1 DEF ReceiptInv, EffectedCallsHaveEffects
<1>4. effects[i].candidate_digest = CandidateDigest(l.call.cand)
  BY <1>3 DEF CustodyInv, EffectsHold
<1>5. /\ r.run = effects[i].run
      /\ r.effect_reference = <<effects[i].candidate_digest, effects[i].ordinal>>
      /\ r.capability_id = EffectId(effects[i])
      /\ r.candidate_digest = effects[i].candidate_digest
  BY <1>3, <1>4 DEF Receipt, EffectId
<1> HIDE DEF r, l
<1>6. ReceiptsHaveEffects'
  BY <1>1, <1>5 DEF ReceiptInv, ReceiptsHaveEffects, EffectId
<1>7. OrdinalsAreBounded' /\ OrdinalsAreUnique' /\ EffectedCallsHaveEffects'
  BY <1>1, <1>2 DEF ReceiptInv, OrdinalsAreBounded, OrdinalsAreUnique, ThisRun,
                    EffectedCallsHaveEffects
<1> QED BY <1>6, <1>7 DEF ReceiptInv

\* A crash begins a run without effects; receipts lead to effects of their own run.
LEMMA CrashKeepsReceipts ==
  ASSUME TypeOK, ReceiptInv, Crash
  PROVE  ReceiptInv'
<1>1. /\ \A u \in Callers : call'[u].pc = "ready"
      /\ UNCHANGED <<receipts, effects>>
  BY DEF Crash
<1>2. \A i \in DOMAIN effects : effects[i].run # crashes'
  BY CrashBound DEF Crash, TypeOK, WorldTypeOK, HistoryTypeOK
<1>3. ThisRun' = {}
  BY <1>1, <1>2 DEF ThisRun
<1>4. OrdinalsAreBounded'
  BY <1>3, FS_EmptySet DEF OrdinalsAreBounded
<1>5. OrdinalsAreUnique' /\ ReceiptsHaveEffects' /\ EffectedCallsHaveEffects'
  BY <1>1 DEF ReceiptInv, OrdinalsAreUnique, ReceiptsHaveEffects, EffectedCallsHaveEffects,
              EffectId
<1> QED BY <1>4, <1>5 DEF ReceiptInv

LEMMA ReceiptInvStep == TypeOK /\ CustodyInv /\ ReceiptInv /\ [Next]_vars => ReceiptInv'
<1> SUFFICES ASSUME TypeOK, CustodyInv, ReceiptInv, [Next]_vars PROVE ReceiptInv'
  OBVIOUS
<1> USE DEF external, sinkSide
<1>1. CASE UNCHANGED vars
  BY <1>1, QuietReceiptStep DEF vars
<1>2. CASE \E a \in Authorizers, c \in Candidates, cost \in Costs : Authorize(a, c, cost)
  BY <1>2, QuietReceiptStep DEF Authorize
<1>3. CASE \E a \in Authorizers : AuthStep(a)
  BY <1>3, QuietReceiptStep DEF AuthStep, Reserve, ReserveRefused, CommitEvidence, Issue
<1>4. ASSUME NEW t \in Callers, NEW pc, NEW local, pc # "effected", CallGoes(t, pc, local),
             UNCHANGED <<crashes, effects, receipts>>
      PROVE  ReceiptInv'
  <2>1. \A u \in Callers : call'[u].pc = "effected" => call'[u] = call[u]
    BY <1>4, OthersStay DEF TypeOK
  <2> QED BY <1>4, <2>1, QuietReceiptStep
<1>5. CASE \E t \in Callers, s \in Sinks, c \in Candidates, cap \in Presentable,
              proof \in PresentableProofs : Effectuate(t, s, c, cap, proof)
  <2>1. PICK t \in Callers, s \in Sinks, c \in Candidates, cap \in Presentable,
             proof \in PresentableProofs : Effectuate(t, s, c, cap, proof)
    BY <1>5
  <2>2. /\ \/ CallGoes(t, "presented", [sink |-> s, cand |-> c, cap |-> cap, now |-> clock])
           \/ CallGoes(t, "raised", NoCall)
        /\ UNCHANGED <<crashes, effects, receipts>>
    BY <2>1 DEF Effectuate
  <2> QED BY <2>2, <1>4
<1>6. ASSUME NEW t \in Callers, CallStep(t)
      PROVE  ReceiptInv'
  <2>1. CASE \/ CheckEvidence(t) \/ CheckTransition(t) \/ Claim(t) \/ ClaimTimesOut(t)
             \/ EffectFails(t)
    <3>1. /\ \/ CallGoes(t, "evidenced", call[t].local)
             \/ CallGoes(t, "verified", call[t].local)
             \/ CallGoes(t, "claimed", call[t].local)
             \/ CallGoes(t, "raised", NoCall)
          /\ UNCHANGED <<crashes, effects, receipts>>
      BY <2>1 DEF CheckEvidence, CheckTransition, Claim, ClaimTimesOut, EffectFails
    <3> QED BY <3>1, <1>4
  <2> QED BY <1>6, <2>1, CommitEffectKeepsReceipts, ReturnReceiptKeepsReceipts DEF CallStep
<1>7. CASE \/ ClockMoves \/ EvidenceStoreToggles \/ DownstreamWillFail
           \/ \E key \in PresenterKeys, cap \in issued, c \in Candidates : Present(key, cap, c)
  BY <1>7, QuietReceiptStep
  DEF ClockMoves, EvidenceStoreToggles, DownstreamWillFail, Present
<1>8. CASE Crash
  BY <1>8, CrashKeepsReceipts
<1>9. CASE \E s \in Sources, quota, budget \in Grants : Reconfigure(s, quota, budget)
  BY <1>9, QuietReceiptStep DEF Reconfigure
<1> QED BY <1>1, <1>2, <1>3, <1>5, <1>6, <1>7, <1>8, <1>9 DEF Next

\* A call that returns its receipt has had the effect the receipt will name
\* (effectuate, sink.py).
THEOREM ReceiptInvAlways == Spec => []ReceiptInv
  BY TypeCorrect, CustodyAlways, ReceiptInvInit, ReceiptInvStep, PTL DEF Spec

\* Ordinals tell the effects of a run apart, so a reference leads to one effect.
LEMMA ReferencesAreUnique ==
  ReceiptInv => ReceiptsNameTheirEffect
<1> SUFFICES ASSUME ReceiptInv, NEW r \in receipts
             PROVE  LET referenced == {i \in DOMAIN effects :
                          /\ effects[i].run = r.run
                          /\ <<effects[i].candidate_digest, effects[i].ordinal>>
                               = r.effect_reference}
                    IN /\ Cardinality(referenced) = 1
                       /\ \A i \in referenced :
                            /\ EffectId(effects[i]) = r.capability_id
                            /\ effects[i].candidate_digest = r.candidate_digest
  BY DEF ReceiptsNameTheirEffect
<1> DEFINE referenced == {i \in DOMAIN effects :
                            /\ effects[i].run = r.run
                            /\ <<effects[i].candidate_digest, effects[i].ordinal>>
                                 = r.effect_reference}
<1>1. PICK i \in DOMAIN effects :
        /\ effects[i].run = r.run
        /\ <<effects[i].candidate_digest, effects[i].ordinal>> = r.effect_reference
        /\ EffectId(effects[i]) = r.capability_id
        /\ effects[i].candidate_digest = r.candidate_digest
  BY DEF ReceiptInv, ReceiptsHaveEffects
<1>2. \A j \in referenced : j = i
  BY <1>1 DEF ReceiptInv, OrdinalsAreUnique
<1>3. referenced = {i}
  BY <1>1, <1>2
<1>4. Cardinality(referenced) = 1
  BY <1>3, FS_Singleton
<1> QED BY <1>1, <1>3, <1>4

\* A receipt's reference leads to exactly one effect, that of the capability and act
\* it names, although other effects happen between an effect and its receipt and
\* ordinals start again after a crash (GuardedEffector, effectors.py; effectuate,
\* sink.py).
THEOREM ReceiptsAreTrue == Spec => []ReceiptsNameTheirEffect
  BY ReferencesAreUnique, ReceiptInvAlways, PTL

=============================================================================
