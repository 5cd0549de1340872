------------------------ MODULE ProtectedStateProofs ------------------------
(***************************************************************************)
(* Theorems about ProtectedState for every set of candidates, sources,     *)
(* costs and grants and every normalisation, and the lemmas about digests  *)
(* and transitions that the theorems about FinalityCore also use.          *)
(***************************************************************************)
EXTENDS ProtectedState, FiniteSetTheorems, TLAPS

-----------------------------------------------------------------------------
(* Digests *)

\* Two candidates share a digest exactly when they share a canonical form.
LEMMA DigestIdentifies ==
  ASSUME NEW c \in Candidates, NEW d \in Candidates
  PROVE  CandidateDigest(c) = CandidateDigest(d) <=> Canonical(Act[c]) = Canonical(Act[d])
<1> DEFINE rep(x) == CHOOSE e \in Candidates : Canonical(Act[e]) = Canonical(Act[x])
<1>1. /\ CandidateDigest(c) = rep(c) /\ Canonical(Act[rep(c)]) = Canonical(Act[c])
      /\ CandidateDigest(d) = rep(d) /\ Canonical(Act[rep(d)]) = Canonical(Act[d])
  BY DEF CandidateDigest, Digests
<1>2. ASSUME Canonical(Act[c]) = Canonical(Act[d]) PROVE rep(c) = rep(d)
  BY <1>2
<1> QED BY <1>1, <1>2

\* What candidates with one digest have in common, as far as it matters here:
\* the nonce up to its spelling, and the numbers exactly.
LEMMA SameDigestSameAct ==
  ASSUME NEW c \in Candidates, NEW d \in Candidates,
         CandidateDigest(c) = CandidateDigest(d)
  PROVE  /\ Nfc(Act[c].nonce) = Nfc(Act[d].nonce)
         /\ Act[c].issued_at = Act[d].issued_at
         /\ Act[c].freshness = Act[d].freshness
<1>1. Canonical(Act[c]) = Canonical(Act[d])
  BY DigestIdentifies
<1>2. ASSUME NEW e \in Candidates
      PROVE  /\ Canonical(Act[e])["nonce"] = Nfc(Act[e].nonce)
             /\ Canonical(Act[e])["issued_at"] = Act[e].issued_at
             /\ Canonical(Act[e])["freshness"] = Act[e].freshness
  BY CandidatesAreRecords DEF Canonical, TextFields, OtherFields
<1> QED BY <1>1, <1>2

-----------------------------------------------------------------------------
(* One transition *)

\* What the record of a transition says.
LEMMA TransitionFields ==
  ASSUME NEW c, NEW before, NEW cost
  PROVE  /\ Transition(c, before, cost).transition_id = TransitionId(c, before, cost)
         /\ Transition(c, before, cost).nonce = Act[c].nonce
         /\ Transition(c, before, cost).source = Act[c].source
         /\ Transition(c, before, cost).policy_epoch = Act[c].policy_epoch
         /\ Transition(c, before, cost).before_version = before.version
         /\ Transition(c, before, cost).after_version = before.version + 1
         /\ Transition(c, before, cost).quota_before = before.quota
         /\ Transition(c, before, cost).quota_after = before.quota - 1
         /\ Transition(c, before, cost).budget_before = before.budget
         /\ Transition(c, before, cost).budget_after = before.budget - cost
BY DEF Transition

LEMMA TransitionIdFields ==
  ASSUME NEW c, NEW before, NEW cost
  PROVE  /\ TransitionId(c, before, cost).candidate = CandidateDigest(c)
         /\ TransitionId(c, before, cost).before = before
         /\ TransitionId(c, before, cost).cost = cost
BY DEF TransitionId

\* The source an accepted authorization of c is charged to: one unit of quota and
\* the cost are taken from it.
LEMMA SourceIsCharged ==
  ASSUME StateTypeOK, NEW c \in Candidates, NEW cost \in Costs,
         TransitionForAuthorization(c, cost)
  PROVE  /\ Act[c].source \in Sources /\ cost \in Int /\ cost > 0
         /\ sources[Act[c].source].version \in Nat
         /\ sources[Act[c].source].quota \in Nat /\ sources[Act[c].source].quota >= 1
         /\ sources[Act[c].source].budget \in Nat
         /\ sources[Act[c].source].budget >= cost
         /\ sources' = [sources EXCEPT ![Act[c].source] =
                          [version |-> sources[Act[c].source].version + 1,
                           quota |-> sources[Act[c].source].quota - 1,
                           budget |-> sources[Act[c].source].budget - cost]]
<1> DEFINE s   == Act[c].source
           t   == NextTransition(c, cost)
<1>1. /\ s \in Sources /\ cost \in Int
      /\ sources \in [Sources -> [version : Nat, quota : Nat, budget : Nat]]
  BY SourcesOfCandidates, CostsAreNumbers DEF StateTypeOK
<1>2. /\ sources[s].version \in Nat /\ sources[s].quota \in Nat /\ sources[s].budget \in Nat
  BY <1>1
<1>3. cost > 0 /\ sources[s].quota >= 1 /\ sources[s].budget >= cost
  BY <1>1, <1>2 DEF TransitionForAuthorization, Refused
<1>4. /\ t.source = s
      /\ t.after_version = sources[s].version + 1
      /\ t.quota_after = sources[s].quota - 1
      /\ t.budget_after = sources[s].budget - cost
  BY TransitionFields DEF NextTransition
<1>5. sources' = [sources EXCEPT ![s] = [version |-> sources[s].version + 1,
                                         quota |-> sources[s].quota - 1,
                                         budget |-> sources[s].budget - cost]]
  BY <1>4 DEF TransitionForAuthorization
<1> QED BY <1>1, <1>2, <1>3, <1>5

\* The id of the transition that an authorization of c makes now.
NewId(c, cost) == TransitionId(c, sources[Act[c].source], cost)

\* The nonce of an accepted authorization of c was free and leads to the new
\* transition, and the rest of the indexes stays, except that the new record
\* replaces one with its id.
LEMMA IndexesGrow ==
  ASSUME NEW c \in Candidates, NEW cost, TransitionForAuthorization(c, cost)
  PROVE  /\ Act[c].nonce \notin DOMAIN nonces
         /\ DOMAIN nonces' = DOMAIN nonces \cup {Act[c].nonce}
         /\ nonces'[Act[c].nonce] = NewId(c, cost)
         /\ \A n \in DOMAIN nonces : nonces'[n] = nonces[n]
         /\ DOMAIN transitions' = DOMAIN transitions \cup {NewId(c, cost)}
         /\ transitions'[NewId(c, cost)] = Transition(c, sources[Act[c].source], cost)
         /\ transitions'[NewId(c, cost)].transition_id = NewId(c, cost)
         /\ transitions'[NewId(c, cost)].nonce = Act[c].nonce
         /\ transitions'[NewId(c, cost)].source = Act[c].source
         /\ \A k \in DOMAIN transitions :
              k # NewId(c, cost) => transitions'[k] = transitions[k]
<1> DEFINE t   == NextTransition(c, cost)
           tid == NewId(c, cost)
           n   == Act[c].nonce
<1>1. n \notin DOMAIN nonces
  BY DEF TransitionForAuthorization, Refused
<1>2. t = Transition(c, sources[Act[c].source], cost)
  BY DEF NextTransition
<1>3. /\ t.transition_id = tid /\ t.nonce = n /\ t.source = Act[c].source
  BY <1>2, TransitionFields DEF NewId
<1>4. nonces' = Put(nonces, n, tid) /\ transitions' = Put(transitions, tid, t)
  BY <1>3 DEF TransitionForAuthorization
<1> HIDE DEF t, tid, n
<1>5. /\ DOMAIN nonces' = DOMAIN nonces \cup {n} /\ nonces'[n] = tid
      /\ \A x \in DOMAIN nonces : nonces'[x] = nonces[x]
  BY <1>1, <1>4 DEF Put
<1>6. /\ DOMAIN transitions' = DOMAIN transitions \cup {tid} /\ transitions'[tid] = t
      /\ \A k \in DOMAIN transitions : k # tid => transitions'[k] = transitions[k]
  BY <1>4 DEF Put
<1> QED BY <1>1, <1>2, <1>3, <1>5, <1>6 DEF tid, n

-----------------------------------------------------------------------------
(* The inductive invariant *)

\* Every record is the transition of some candidate from the source state and
\* with the cost its id names: what a record that is replaced has in common with
\* its replacement.
TransitionsAreDerived ==
  \A tid \in DOMAIN transitions :
    \E d \in Candidates : transitions[tid] = Transition(d, tid.before, tid.cost)

\* Sources that are never reconfigured count up what they count down.
QuotaIsCounted ==
  Grants = {} =>
    \A s \in Sources : sources[s].version + sources[s].quota = DefaultQuota

TransitionsAreFinite ==
  Grants = {} => \A s \in Sources : IsFiniteSet(TransitionsOf(s))

StateInv ==
  /\ StateTypeOK
  /\ TransitionsAreDerived
  /\ ReservationsAndTransitionsAgree
  /\ QuotaIsCounted
  /\ TransitionsAreFinite
  /\ LedgerIsAChain

LEMMA StateInvInit == StateInit => StateInv
<1> SUFFICES ASSUME StateInit PROVE StateInv
  OBVIOUS
<1>1. /\ sources = [s \in Sources |-> DefaultSource]
      /\ DOMAIN nonces = {} /\ DOMAIN transitions = {}
  BY DEF StateInit, Empty
<1>2. StateTypeOK
  BY <1>1, DefaultsAreNumbers DEF StateTypeOK, DefaultSource
<1>3. TransitionsAreDerived /\ ReservationsAndTransitionsAgree
  BY <1>1 DEF TransitionsAreDerived, ReservationsAndTransitionsAgree
<1>4. QuotaIsCounted
  BY <1>1, DefaultsAreNumbers DEF QuotaIsCounted, DefaultSource
<1>5. \A s \in Sources : TransitionsOf(s) = {} /\ sources[s].version = 0
  BY <1>1 DEF TransitionsOf, DefaultSource
<1>6. TransitionsAreFinite
  BY <1>5, FS_EmptySet DEF TransitionsAreFinite
<1>7. LedgerIsAChain
  <2> SUFFICES ASSUME NEW s \in Sources
               PROVE  /\ Cardinality(TransitionsOf(s)) = sources[s].version
                      /\ {transitions[tid].after_version : tid \in TransitionsOf(s)}
                           = 1 .. sources[s].version
    BY <1>5 DEF LedgerIsAChain
  <2>1. Cardinality(TransitionsOf(s)) = 0
    BY <1>5, FS_EmptySet
  <2>2. 1 .. 0 = {}
    OBVIOUS
  <2> QED BY <1>5, <2>1, <2>2
<1> QED BY <1>2, <1>3, <1>4, <1>6, <1>7 DEF StateInv

\* An authorization overdraws neither quota nor budget.
LEMMA TransitionKeepsStateType ==
  ASSUME StateTypeOK, NEW c \in Candidates, NEW cost \in Costs,
         TransitionForAuthorization(c, cost)
  PROVE  StateTypeOK'
<1> DEFINE tid == NewId(c, cost)
<1>1. sources' \in [Sources -> [version : Nat, quota : Nat, budget : Nat]]
  <2> DEFINE s == Act[c].source
             r == [version |-> sources[s].version + 1, quota |-> sources[s].quota - 1,
                   budget |-> sources[s].budget - cost]
  <2>1. s \in Sources /\ sources' = [sources EXCEPT ![s] = r]
    BY SourceIsCharged
  <2>2. r \in [version : Nat, quota : Nat, budget : Nat]
    <3>1. /\ cost \in Int /\ cost > 0
          /\ sources[s].version \in Nat
          /\ sources[s].quota \in Nat /\ sources[s].quota >= 1
          /\ sources[s].budget \in Nat /\ sources[s].budget >= cost
      BY SourceIsCharged
    <3> HIDE DEF s
    <3>2. /\ sources[s].version + 1 \in Nat /\ sources[s].quota - 1 \in Nat
          /\ sources[s].budget - cost \in Nat
      BY <3>1
    <3> QED BY <3>2
  <2> HIDE DEF s, r
  <2> QED BY <2>1, <2>2 DEF StateTypeOK
<1>2. /\ DOMAIN nonces' = DOMAIN nonces \cup {Act[c].nonce}
      /\ nonces'[Act[c].nonce] = tid
      /\ \A n \in DOMAIN nonces : nonces'[n] = nonces[n]
      /\ DOMAIN transitions' = DOMAIN transitions \cup {tid}
      /\ transitions'[tid].transition_id = tid
      /\ \A k \in DOMAIN transitions : k # tid => transitions'[k] = transitions[k]
  BY IndexesGrow
<1> HIDE DEF tid
<1>3. \A n \in DOMAIN nonces' : nonces'[n] \in DOMAIN transitions'
  BY <1>2 DEF StateTypeOK
<1>4. \A k \in DOMAIN transitions' : transitions'[k].transition_id = k
  BY <1>2 DEF StateTypeOK
<1> QED BY <1>1, <1>3, <1>4 DEF StateTypeOK

LEMMA TransitionKeepsDerived ==
  ASSUME StateTypeOK, TransitionsAreDerived, NEW c \in Candidates, NEW cost \in Costs,
         TransitionForAuthorization(c, cost)
  PROVE  TransitionsAreDerived'
<1> DEFINE tid == NewId(c, cost)
<1>1. /\ DOMAIN transitions' = DOMAIN transitions \cup {tid}
      /\ transitions'[tid] = Transition(c, sources[Act[c].source], cost)
      /\ \A k \in DOMAIN transitions : k # tid => transitions'[k] = transitions[k]
  BY IndexesGrow
<1>2. transitions'[tid] = Transition(c, tid.before, tid.cost)
  BY <1>1, TransitionIdFields DEF NewId
<1> HIDE DEF tid
<1> QED BY <1>1, <1>2 DEF TransitionsAreDerived

\* The transition with the new transition's id, if there is one, is of an act
\* with the same digest: its nonce is another spelling of the same nonce.
LEMMA ReplacedRecord ==
  ASSUME StateTypeOK, TransitionsAreDerived, NEW c \in Candidates, NEW cost,
         NEW before, TransitionId(c, before, cost) \in DOMAIN transitions
  PROVE  \E d \in Candidates :
           /\ CandidateDigest(d) = CandidateDigest(c)
           /\ Nfc(Act[d].nonce) = Nfc(Act[c].nonce)
           /\ transitions[TransitionId(c, before, cost)].nonce = Act[d].nonce
<1> DEFINE tid == TransitionId(c, before, cost)
<1>1. PICK d \in Candidates : transitions[tid] = Transition(d, tid.before, tid.cost)
  BY DEF TransitionsAreDerived
<1>2. /\ transitions[tid].transition_id = TransitionId(d, tid.before, tid.cost)
      /\ transitions[tid].nonce = Act[d].nonce
  BY <1>1, TransitionFields
<1>3. transitions[tid].transition_id = tid
  BY DEF StateTypeOK
<1>4. CandidateDigest(d) = CandidateDigest(c)
  <2>1. TransitionId(d, tid.before, tid.cost).candidate = CandidateDigest(d)
    BY TransitionIdFields
  <2>2. tid.candidate = CandidateDigest(c)
    BY TransitionIdFields
  <2> HIDE DEF tid
  <2> QED BY <1>2, <1>3, <2>1, <2>2
<1> QED BY <1>2, <1>4, SameDigestSameAct

LEMMA TransitionKeepsAgreement ==
  ASSUME StateTypeOK, TransitionsAreDerived, ReservationsAndTransitionsAgree,
         NEW c \in Candidates, NEW cost \in Costs, TransitionForAuthorization(c, cost)
  PROVE  ReservationsAndTransitionsAgree'
<1> DEFINE tid == NewId(c, cost)
           n0  == Act[c].nonce
<1>1. /\ n0 \notin DOMAIN nonces
      /\ DOMAIN nonces' = DOMAIN nonces \cup {n0} /\ nonces'[n0] = tid
      /\ \A n \in DOMAIN nonces : nonces'[n] = nonces[n]
      /\ DOMAIN transitions' = DOMAIN transitions \cup {tid}
      /\ \A k \in DOMAIN transitions : k # tid => transitions'[k] = transitions[k]
  BY IndexesGrow
<1>2. transitions'[tid].nonce = n0
  BY IndexesGrow
<1>3. tid \in DOMAIN transitions => Nfc(transitions[tid].nonce) = Nfc(n0)
  BY ReplacedRecord DEF NewId
<1> HIDE DEF tid, n0
<1>4. ASSUME NEW n \in DOMAIN nonces'
      PROVE  Nfc(transitions'[nonces'[n]].nonce) = Nfc(n)
  <2>1. CASE n = n0
    BY <2>1, <1>1, <1>2
  <2>2. CASE n \in DOMAIN nonces /\ nonces[n] # tid
    <3>1. nonces[n] \in DOMAIN transitions
      BY <2>2 DEF StateTypeOK
    <3> QED BY <2>2, <3>1, <1>1 DEF ReservationsAndTransitionsAgree
  <2>3. CASE n \in DOMAIN nonces /\ nonces[n] = tid
    <3>1. tid \in DOMAIN transitions
      BY <2>3 DEF StateTypeOK
    <3>2. Nfc(transitions[tid].nonce) = Nfc(n)
      BY <2>3 DEF ReservationsAndTransitionsAgree
    <3>3. nonces'[n] = tid
      BY <2>3, <1>1
    <3>4. transitions'[nonces'[n]].nonce = n0
      BY <1>2, <3>3
    <3> QED BY <3>1, <3>2, <3>4, <1>3
  <2> QED BY <2>1, <2>2, <2>3, <1>1
<1>5. ASSUME NEW k \in DOMAIN transitions'
      PROVE  /\ transitions'[k].nonce \in DOMAIN nonces'
             /\ nonces'[transitions'[k].nonce] = k
  <2>1. CASE k = tid
    BY <2>1, <1>1, <1>2
  <2>2. CASE k # tid /\ k \in DOMAIN transitions
    BY <2>2, <1>1 DEF ReservationsAndTransitionsAgree
  <2> QED BY <2>1, <2>2, <1>1
<1> QED BY <1>4, <1>5 DEF ReservationsAndTransitionsAgree

\* A unit of quota becomes a version.
LEMMA TransitionKeepsCount ==
  ASSUME StateTypeOK, QuotaIsCounted, NEW c \in Candidates, NEW cost \in Costs,
         TransitionForAuthorization(c, cost)
  PROVE  QuotaIsCounted'
<1> SUFFICES ASSUME Grants = {}, NEW x \in Sources
             PROVE  sources'[x].version + sources'[x].quota = DefaultQuota
  BY DEF QuotaIsCounted
<1> DEFINE s == Act[c].source
           r == [version |-> sources[s].version + 1, quota |-> sources[s].quota - 1,
                 budget |-> sources[s].budget - cost]
<1>1. /\ s \in Sources /\ sources' = [sources EXCEPT ![s] = r]
      /\ sources[s].version \in Nat /\ sources[s].quota \in Nat
      /\ DOMAIN sources = Sources
  BY SourceIsCharged DEF StateTypeOK
<1>2. r.version = sources[s].version + 1 /\ r.quota = sources[s].quota - 1
  OBVIOUS
<1>3. sources[x].version + sources[x].quota = DefaultQuota
  BY DEF QuotaIsCounted
<1> HIDE DEF r, s
<1>4. CASE x = s
  BY <1>1, <1>2, <1>3, <1>4
<1>5. CASE x # s
  BY <1>1, <1>3, <1>5
<1> QED BY <1>4, <1>5

\* Where nonces are spelled once, no record is ever replaced.
LEMMA NewIdIsNew ==
  ASSUME StateTypeOK, TransitionsAreDerived, ReservationsAndTransitionsAgree,
         NoncesAreSpelledOnce, NEW c \in Candidates, NEW cost,
         TransitionForAuthorization(c, cost)
  PROVE  NewId(c, cost) \notin DOMAIN transitions
<1> SUFFICES ASSUME NewId(c, cost) \in DOMAIN transitions PROVE FALSE
  OBVIOUS
<1>1. PICK d \in Candidates :
        /\ CandidateDigest(d) = CandidateDigest(c)
        /\ transitions[NewId(c, cost)].nonce = Act[d].nonce
  BY ReplacedRecord DEF NewId
<1>2. transitions[NewId(c, cost)].nonce = Act[c].nonce
  BY <1>1 DEF NoncesAreSpelledOnce
<1>3. transitions[NewId(c, cost)].nonce \in DOMAIN nonces
  BY DEF ReservationsAndTransitionsAgree
<1> QED BY <1>2, <1>3, IndexesGrow

\* The transitions of a source after an accepted authorization of c.
LEMMA TransitionsOfAfter ==
  ASSUME NEW c \in Candidates, NEW cost, TransitionForAuthorization(c, cost),
         NewId(c, cost) \notin DOMAIN transitions, NEW s
  PROVE  TransitionsOf(s)' = IF s = Act[c].source
                             THEN TransitionsOf(s) \cup {NewId(c, cost)}
                             ELSE TransitionsOf(s)
<1> DEFINE tid == NewId(c, cost)
<1>1. /\ DOMAIN transitions' = DOMAIN transitions \cup {tid}
      /\ transitions'[tid].source = Act[c].source
      /\ \A k \in DOMAIN transitions : transitions'[k] = transitions[k]
  BY IndexesGrow
<1>2. tid \notin DOMAIN transitions
  OBVIOUS
<1> HIDE DEF tid
<1>3. ASSUME NEW k
      PROVE  k \in TransitionsOf(s)' <=> k \in TransitionsOf(s) \/ (k = tid /\ s = Act[c].source)
  BY <1>1, <1>2 DEF TransitionsOf
<1> QED BY <1>3 DEF tid

LEMMA TransitionKeepsFinite ==
  ASSUME StateTypeOK, TransitionsAreFinite, NEW c \in Candidates, NEW cost,
         TransitionForAuthorization(c, cost)
  PROVE  TransitionsAreFinite'
<1> SUFFICES ASSUME Grants = {}, NEW s \in Sources
             PROVE  IsFiniteSet(TransitionsOf(s)')
  BY DEF TransitionsAreFinite
<1> DEFINE tid == NewId(c, cost)
           old == TransitionsOf(s)
<1>1. TransitionsOf(s)' \subseteq old \cup {tid}
  <2>1. /\ DOMAIN transitions' = DOMAIN transitions \cup {tid}
        /\ \A k \in DOMAIN transitions : k # tid => transitions'[k] = transitions[k]
    BY IndexesGrow
  <2> HIDE DEF tid
  <2> QED BY <2>1 DEF TransitionsOf
<1>2. IsFiniteSet(old)
  BY DEF TransitionsAreFinite
<1> HIDE DEF tid, old
<1>3. IsFiniteSet(old \cup {tid})
  BY <1>2, FS_AddElement
<1> QED BY <1>1, <1>3, FS_Subset

\* The chain of the source that is charged grows by one link: what the last
\* link left, which was what the source had, is what the new link starts from.
LEMMA TransitionKeepsChain ==
  ASSUME StateInv, NEW c \in Candidates, NEW cost \in Costs,
         TransitionForAuthorization(c, cost)
  PROVE  LedgerIsAChain'
<1> DEFINE tid == NewId(c, cost)
           src == Act[c].source
           r   == [version |-> sources[src].version + 1, quota |-> sources[src].quota - 1,
                   budget |-> sources[src].budget - cost]
           Left(t) == [version |-> t.after_version, quota |-> t.quota_after,
                       budget |-> t.budget_after]
           Start(t) == [version |-> t.before_version, quota |-> t.quota_before,
                        budget |-> t.budget_before]
<1> SUFFICES ASSUME Grants = {}, NoncesAreSpelledOnce, NEW s \in Sources
             PROVE  /\ Cardinality(TransitionsOf(s)') = sources'[s].version
                    /\ {transitions'[k].after_version : k \in TransitionsOf(s)'}
                         = 1 .. sources'[s].version
                    /\ \A k \in TransitionsOf(s)' :
                         \/ Left(transitions'[k]) = sources'[s]
                         \/ \E next \in TransitionsOf(s)' :
                              Left(transitions'[k]) = Start(transitions'[next])
  BY DEF LedgerIsAChain
<1>1. /\ tid \notin DOMAIN transitions
      /\ \A k \in DOMAIN transitions : transitions'[k] = transitions[k]
  <2>1. tid \notin DOMAIN transitions
    BY NewIdIsNew DEF StateInv
  <2>2. \A k \in DOMAIN transitions : k # tid => transitions'[k] = transitions[k]
    BY IndexesGrow
  <2> HIDE DEF tid
  <2> QED BY <2>1, <2>2
<1>2. TransitionsOf(s)' = IF s = src THEN TransitionsOf(s) \cup {tid} ELSE TransitionsOf(s)
  BY <1>1, TransitionsOfAfter
<1>3. /\ Cardinality(TransitionsOf(s)) = sources[s].version
      /\ {transitions[k].after_version : k \in TransitionsOf(s)} = 1 .. sources[s].version
      /\ \A k \in TransitionsOf(s) :
           \/ Left(transitions[k]) = sources[s]
           \/ \E next \in TransitionsOf(s) : Left(transitions[k]) = Start(transitions[next])
  BY DEF StateInv, LedgerIsAChain
<1>4. /\ IsFiniteSet(TransitionsOf(s)) /\ TransitionsOf(s) \subseteq DOMAIN transitions
      /\ sources[s].version \in Nat
  BY DEF StateInv, TransitionsAreFinite, TransitionsOf, StateTypeOK
<1>5. /\ src \in Sources /\ sources' = [sources EXCEPT ![src] = r]
      /\ DOMAIN sources = Sources
  BY SourceIsCharged DEF StateInv, StateTypeOK
<1>6. /\ transitions'[tid].after_version = sources[src].version + 1
      /\ Left(transitions'[tid]) = r
      /\ Start(transitions'[tid]) = [version |-> sources[src].version,
                                     quota |-> sources[src].quota,
                                     budget |-> sources[src].budget]
  <2>1. transitions'[tid] = Transition(c, sources[src], cost)
    BY IndexesGrow
  <2> QED BY <2>1, TransitionFields
<1>7. Start(transitions'[tid]) = sources[src]
  <2>1. sources[src] \in [version : Nat, quota : Nat, budget : Nat]
    BY <1>5 DEF StateInv, StateTypeOK
  <2> QED BY <2>1, <1>6
<1>8. r.version = sources[src].version + 1
  OBVIOUS
<1> HIDE DEF tid, src, r, Left, Start
<1>9. CASE s # src
  <2>1. sources'[s] = sources[s] /\ TransitionsOf(s)' = TransitionsOf(s)
    BY <1>2, <1>5, <1>9
  <2>2. \A k \in TransitionsOf(s) : transitions'[k] = transitions[k]
    BY <1>1, <1>4
  <2>3. {transitions'[k].after_version : k \in TransitionsOf(s)}
          = {transitions[k].after_version : k \in TransitionsOf(s)}
    BY <2>2
  <2> QED BY <2>1, <2>2, <2>3, <1>3
<1>10. CASE s = src
  <2>1. sources'[s] = r /\ TransitionsOf(s)' = TransitionsOf(s) \cup {tid}
    BY <1>2, <1>5, <1>10
  <2>2. \A k \in TransitionsOf(s) : transitions'[k] = transitions[k] /\ k # tid
    BY <1>1, <1>4
  <2>3. Cardinality(TransitionsOf(s)') = sources'[s].version
    <3>1. Cardinality(TransitionsOf(s) \cup {tid}) = Cardinality(TransitionsOf(s)) + 1
      BY <1>4, <2>2, FS_AddElement
    <3> QED BY <3>1, <2>1, <1>3, <1>8, <1>10
  <2>4. {transitions'[k].after_version : k \in TransitionsOf(s)'} = 1 .. sources'[s].version
    <3>1. {transitions'[k].after_version : k \in TransitionsOf(s)'}
            = {transitions[k].after_version : k \in TransitionsOf(s)}
              \cup {transitions'[tid].after_version}
      BY <2>1, <2>2
    <3>2. \A v \in Nat : 1 .. v + 1 = (1 .. v) \cup {v + 1}
      OBVIOUS
    <3> QED BY <3>1, <3>2, <2>1, <1>3, <1>4, <1>6, <1>8, <1>10
  <2>5. ASSUME NEW k \in TransitionsOf(s)'
        PROVE  \/ Left(transitions'[k]) = sources'[s]
               \/ \E next \in TransitionsOf(s)' :
                    Left(transitions'[k]) = Start(transitions'[next])
    <3>1. CASE k = tid
      BY <3>1, <2>1, <1>6
    <3>2. CASE k \in TransitionsOf(s) /\ Left(transitions[k]) = sources[s]
      <4>1. Left(transitions'[k]) = Start(transitions'[tid])
        BY <3>2, <2>2, <1>7, <1>10
      <4> QED BY <4>1, <2>1
    <3>3. CASE k \in TransitionsOf(s)
               /\ \E next \in TransitionsOf(s) : Left(transitions[k]) = Start(transitions[next])
      BY <3>3, <2>1, <2>2
    <3> QED BY <3>1, <3>2, <3>3, <2>1, <1>3
  <2> QED BY <2>3, <2>4, <2>5
<1> QED BY <1>9, <1>10

\* Reconfiguring a source touches neither index.
LEMMA ConfigureKeepsInv ==
  ASSUME StateInv, NEW s \in Sources, NEW quota \in Grants, NEW budget \in Grants,
         ConfigureSource(s, quota, budget)
  PROVE  StateInv'
<1>1. /\ sources' = [sources EXCEPT ![s] = [version |-> 0, quota |-> quota, budget |-> budget]]
      /\ UNCHANGED <<nonces, transitions>>
  BY DEF ConfigureSource
<1>2. StateTypeOK'
  BY <1>1, GrantsAreNumbers DEF StateInv, StateTypeOK
<1>3. TransitionsAreDerived' /\ ReservationsAndTransitionsAgree'
  BY <1>1 DEF StateInv, TransitionsAreDerived, ReservationsAndTransitionsAgree
<1>4. Grants # {}
  OBVIOUS
<1> QED
  BY <1>2, <1>3, <1>4 DEF StateInv, QuotaIsCounted, TransitionsAreFinite, LedgerIsAChain

LEMMA StateInvStep == StateInv /\ [StateNext]_stateVars => StateInv'
<1> SUFFICES ASSUME StateInv, [StateNext]_stateVars PROVE StateInv'
  OBVIOUS
<1>1. CASE \E c \in Candidates, cost \in Costs : TransitionForAuthorization(c, cost)
  <2>1. PICK c \in Candidates, cost \in Costs : TransitionForAuthorization(c, cost)
    BY <1>1
  <2>2. StateTypeOK' /\ TransitionsAreDerived'
    BY <2>1, TransitionKeepsStateType, TransitionKeepsDerived DEF StateInv
  <2>3. ReservationsAndTransitionsAgree'
    BY <2>1, TransitionKeepsAgreement DEF StateInv
  <2>4. QuotaIsCounted' /\ TransitionsAreFinite'
    BY <2>1, TransitionKeepsCount, TransitionKeepsFinite DEF StateInv
  <2>5. LedgerIsAChain'
    BY <2>1, TransitionKeepsChain
  <2> QED BY <2>2, <2>3, <2>4, <2>5 DEF StateInv
<1>2. CASE \E s \in Sources, quota \in Grants, budget \in Grants :
             ConfigureSource(s, quota, budget)
  BY <1>2, ConfigureKeepsInv
<1>3. CASE UNCHANGED stateVars
  BY <1>3 DEF stateVars, StateInv, StateTypeOK, TransitionsAreDerived,
              ReservationsAndTransitionsAgree, QuotaIsCounted, TransitionsAreFinite,
              LedgerIsAChain, TransitionsOf
<1> QED BY <1>1, <1>2, <1>3 DEF StateNext

\* Reservations, transitions and sources agree after any steps of the protected state
\* (transition_for_authorization and configure_source, state.py).
THEOREM StateInvAlways == StateSpec => []StateInv
  BY StateInvInit, StateInvStep, PTL DEF StateSpec

\* No interleaving of authorizations and reconfigurations, with whatever costs,
\* overdraws a source, and the indexes stay well-formed (state.py).
THEOREM StateTypeCorrect == StateSpec => []StateTypeOK
<1>1. StateInv => StateTypeOK
  BY DEF StateInv
<1> QED BY <1>1, StateInvAlways, PTL

\* The nonce index and the transitions lead to each other, whatever acts share a
\* nonce and however they spell it (transition_for_authorization, state.py).
THEOREM IndexesAgree == StateSpec => []ReservationsAndTransitionsAgree
<1>1. StateInv => ReservationsAndTransitionsAgree
  BY DEF StateInv
<1> QED BY <1>1, StateInvAlways, PTL

\* The history of a source that is never reconfigured is a chain without gap or
\* fork, whatever authorizations race for it (transition_for_authorization,
\* state.py).
THEOREM LedgerIsAlwaysAChain == StateSpec => []LedgerIsAChain
<1>1. StateInv => LedgerIsAChain
  BY DEF StateInv
<1> QED BY <1>1, StateInvAlways, PTL

-----------------------------------------------------------------------------
(* Verification is stable *)

\* A step of the protected state takes a verified transition back only by putting
\* another spelling of the same nonce in its place.
LEMMA VerificationSurvives ==
  ASSUME StateInv, NEW c \in Candidates, NEW tid \in DOMAIN transitions,
         VerifyTransition(tid, c), [StateNext]_stateVars, ~VerifyTransition(tid, c)'
  PROVE  \E d \in Candidates :
           /\ CandidateDigest(d) = tid.candidate
           /\ Act[d].nonce # Act[c].nonce /\ Nfc(Act[d].nonce) = Nfc(Act[c].nonce)
           /\ VerifyTransition(tid, d)'
<1>1. ~ \E s \in Sources, quota \in Grants, budget \in Grants :
          ConfigureSource(s, quota, budget)
  BY DEF ConfigureSource, VerifyTransition
<1>2. PICK d \in Candidates, cost \in Costs : TransitionForAuthorization(d, cost)
  BY <1>1 DEF StateNext, stateVars, VerifyTransition
<1> DEFINE new == NewId(d, cost)
           src == Act[d].source
<1>3. /\ Act[d].nonce \notin DOMAIN nonces
      /\ DOMAIN nonces' = DOMAIN nonces \cup {Act[d].nonce} /\ nonces'[Act[d].nonce] = new
      /\ \A n \in DOMAIN nonces : nonces'[n] = nonces[n]
      /\ DOMAIN transitions' = DOMAIN transitions \cup {new}
      /\ transitions'[new] = Transition(d, sources[src], cost)
      /\ \A k \in DOMAIN transitions : k # new => transitions'[k] = transitions[k]
  BY <1>2, IndexesGrow
<1>4. new.candidate = CandidateDigest(d)
  BY TransitionIdFields DEF NewId
<1>5. /\ Act[c].nonce \in DOMAIN nonces /\ nonces[Act[c].nonce] = tid
      /\ transitions[tid].nonce = Act[c].nonce
  BY DEF VerifyTransition
<1>6. tid = new
  <2> HIDE DEF new, src
  <2> SUFFICES ASSUME tid # new PROVE FALSE
    OBVIOUS
  <2>1. transitions'[tid] = transitions[tid]
    BY <1>3
  <2>2. nonces'[Act[c].nonce] = nonces[Act[c].nonce] /\ Act[c].nonce \in DOMAIN nonces'
    BY <1>3, <1>5
  <2> QED BY <2>1, <2>2, <1>3 DEF VerifyTransition
<1>7. Act[d].nonce # Act[c].nonce
  BY <1>3, <1>5
<1>8. Nfc(Act[d].nonce) = Nfc(Act[c].nonce)
  <2>1. Nfc(transitions[tid].nonce) = Nfc(Act[d].nonce)
    BY <1>6, ReplacedRecord DEF StateInv, NewId
  <2> QED BY <2>1, <1>5
<1>9. VerifyTransition(tid, d)'
  <2>1. /\ sources[src].version \in Int /\ sources[src].quota \in Int
        /\ sources[src].budget \in Int /\ cost \in Int /\ cost > 0
    <3>1. StateTypeOK
      BY DEF StateInv
    <3>2. /\ cost \in Int /\ cost > 0
          /\ sources[Act[d].source].version \in Nat /\ sources[Act[d].source].quota \in Nat
          /\ sources[Act[d].source].budget \in Nat
      BY <1>2, <3>1, SourceIsCharged
    <3> QED BY <3>2
  <2>2. /\ transitions'[tid].nonce = Act[d].nonce /\ transitions'[tid].source = src
        /\ transitions'[tid].policy_epoch = Act[d].policy_epoch
        /\ transitions'[tid].after_version = transitions'[tid].before_version + 1
        /\ transitions'[tid].quota_after = transitions'[tid].quota_before - 1
        /\ transitions'[tid].budget_before = sources[src].budget
        /\ transitions'[tid].budget_after = sources[src].budget - cost
    BY <1>3, <1>6, TransitionFields
  <2> HIDE DEF new
  <2>3. transitions'[tid].budget_after < transitions'[tid].budget_before
    BY <2>1, <2>2
  <2> QED BY <1>3, <1>6, <2>2, <2>3 DEF VerifyTransition
<1> QED BY <1>4, <1>6, <1>7, <1>8, <1>9

\* A transition that verifies goes on verifying, save for the one replacement
\* (verify_transition, state.py).
THEOREM VerificationIsAlwaysStable == StateSpec => VerificationIsStable
<1>1. StateInv /\ [StateNext]_stateVars =>
        [\A c \in Candidates : \A tid \in DOMAIN transitions :
           VerifyTransition(tid, c) =>
             \/ VerifyTransition(tid, c)'
             \/ \E d \in Candidates :
                  /\ CandidateDigest(d) = tid.candidate
                  /\ Act[d].nonce # Act[c].nonce /\ Nfc(Act[d].nonce) = Nfc(Act[c].nonce)
                  /\ VerifyTransition(tid, d)']_stateVars
  BY VerificationSurvives
<1> QED BY <1>1, StateInvAlways, PTL DEF StateSpec, VerificationIsStable
=============================================================================
