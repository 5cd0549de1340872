-------------------- MODULE FinalityCoreRefinementProofs --------------------
(***************************************************************************)
(* FinalityCore with durable stores implements ExecutionFinality, for any  *)
(* number of candidates, threads, sinks and crashes.                       *)
(***************************************************************************)
EXTENDS FinalityCoreRefinement, FinalityCoreProofs

-----------------------------------------------------------------------------
(* Calls in progress hold issued identities *)

\* A call that has not claimed yet holds a capability with an issued identity:
\* what a client may alter of a capability is not its id.
HeldIdsAreIssued ==
  \A t \in Callers :
    call[t].pc \in {"presented", "evidenced", "verified"} => IdOf(t) \in Authorised

IssuedHaveIds == \A cap \in issued : "capability_id" \in DOMAIN cap

IdInv == HeldIdsAreIssued /\ IssuedHaveIds

LEMMA CapabilitiesHaveIds ==
  ASSUME NEW c, NEW tid, NEW now
  PROVE  "capability_id" \in DOMAIN Capability(c, tid, now)
BY DEF Capability, Signed, WithId

LEMMA PresentableIdsAreIssued ==
  ASSUME IssuedHaveIds, NEW cap \in Presentable
  PROVE  cap.capability_id \in Authorised
BY DEF IssuedHaveIds, Presentable, Authorised

\* A step that issues nothing new and brings no call to a new place before its
\* claim keeps the invariant.
LEMMA QuietIdStep ==
  ASSUME IdInv, UNCHANGED issued,
         \A u \in Callers :
           call'[u].pc \in {"presented", "evidenced", "verified"} =>
             /\ call[u].pc \in {"presented", "evidenced", "verified"}
             /\ call'[u].local = call[u].local
  PROVE  IdInv'
BY DEF IdInv, HeldIdsAreIssued, IssuedHaveIds, IdOf, Authorised

LEMMA IdInvInit == Init => IdInv
BY DEF Init, IdInv, HeldIdsAreIssued, IssuedHaveIds

LEMMA IdInvIssue ==
  ASSUME IdInv, NEW a \in Authorizers, Issue(a)
  PROVE  IdInv'
<1> DEFINE cap == Capability(auth[a].local.cand, auth[a].local.tid, auth[a].local.now)
<1>1. issued' = issued \cup {cap} /\ call' = call
  BY DEF Issue
<1>2. "capability_id" \in DOMAIN cap
  BY CapabilitiesHaveIds
<1> HIDE DEF cap
<1> QED BY <1>1, <1>2 DEF IdInv, HeldIdsAreIssued, IssuedHaveIds, IdOf, Authorised

LEMMA IdInvEffectuate ==
  ASSUME TypeOK, IdInv, NEW t \in Callers, NEW s \in Sinks, NEW c \in Candidates,
         NEW cap \in Presentable, NEW proof, Effectuate(t, s, c, cap, proof)
  PROVE  IdInv'
<1>1. issued' = issued
  BY DEF Effectuate, clients
<1>2. CASE CallGoes(t, "presented", [sink |-> s, cand |-> c, cap |-> cap, now |-> clock])
  <2>1. /\ call'[t] = [pc |-> "presented",
                       local |-> [sink |-> s, cand |-> c, cap |-> cap, now |-> clock]]
        /\ \A u \in Callers \ {t} : call'[u] = call[u]
    BY <1>2, OthersStay DEF TypeOK
  <2>2. cap.capability_id \in Authorised
    BY PresentableIdsAreIssued DEF IdInv
  <2> QED
    BY <1>1, <2>1, <2>2 DEF IdInv, HeldIdsAreIssued, IssuedHaveIds, IdOf, Authorised
<1>3. CASE CallGoes(t, "raised", NoCall)
  <2>1. /\ call'[t] = [pc |-> "raised", local |-> NoCall]
        /\ \A u \in Callers \ {t} : call'[u] = call[u]
    BY <1>3, OthersStay DEF TypeOK
  <2> QED BY <1>1, <2>1, QuietIdStep
<1> QED BY <1>2, <1>3 DEF Effectuate

LEMMA IdInvCallStep ==
  ASSUME TypeOK, IdInv, NEW t \in Callers, CallStep(t)
  PROVE  IdInv'
<1>1. issued' = issued
  BY DEF CallStep, CheckEvidence, CheckTransition, Claim, ClaimTimesOut, CommitEffect,
         EffectFails, ReturnReceipt, clients
<1>2. PICK pc, local :
        /\ CallGoes(t, pc, local)
        /\ pc \in {"presented", "evidenced", "verified"} =>
             /\ call[t].pc \in {"presented", "evidenced", "verified"}
             /\ local = call[t].local
  <2>1. CASE CheckEvidence(t)
    BY <2>1 DEF CheckEvidence
  <2>2. CASE CheckTransition(t)
    BY <2>2 DEF CheckTransition
  <2>3. CASE Claim(t)
    BY <2>3 DEF Claim
  <2>4. CASE ClaimTimesOut(t)
    BY <2>4 DEF ClaimTimesOut
  <2>5. CASE CommitEffect(t)
    BY <2>5 DEF CommitEffect
  <2>6. CASE EffectFails(t)
    BY <2>6 DEF EffectFails
  <2>7. CASE ReturnReceipt(t)
    BY <2>7 DEF ReturnReceipt
  <2> QED BY <2>1, <2>2, <2>3, <2>4, <2>5, <2>6, <2>7 DEF CallStep
<1>3. /\ call'[t] = [pc |-> pc, local |-> local]
      /\ \A u \in Callers \ {t} : call'[u] = call[u]
  BY <1>2, OthersStay DEF TypeOK
<1> QED BY <1>1, <1>2, <1>3, QuietIdStep

LEMMA IdInvStep == TypeOK /\ IdInv /\ [Next]_vars => IdInv'
<1> SUFFICES ASSUME TypeOK, IdInv, [Next]_vars PROVE IdInv'
  OBVIOUS
<1>1. CASE UNCHANGED vars
  BY <1>1, QuietIdStep DEF vars, clients
<1>2. CASE \E a \in Authorizers, c \in Candidates, cost \in Costs : Authorize(a, c, cost)
  BY <1>2, QuietIdStep DEF Authorize, clients
<1>3. ASSUME NEW a \in Authorizers, AuthStep(a)
      PROVE  IdInv'
  <2>1. CASE Reserve(a) \/ ReserveRefused(a) \/ CommitEvidence(a)
    BY <2>1, QuietIdStep DEF Reserve, ReserveRefused, CommitEvidence, clients
  <2> QED BY <1>3, <2>1, IdInvIssue DEF AuthStep
<1>4. CASE \E t \in Callers, s \in Sinks, c \in Candidates, cap \in Presentable,
              proof \in PresentableProofs : Effectuate(t, s, c, cap, proof)
  BY <1>4, IdInvEffectuate
<1>5. CASE \E t \in Callers : CallStep(t)
  BY <1>5, IdInvCallStep
<1>6. CASE \/ ClockMoves \/ EvidenceStoreToggles \/ DownstreamWillFail
           \/ \E key \in PresenterKeys, cap \in issued, c \in Candidates : Present(key, cap, c)
  BY <1>6, QuietIdStep
  DEF ClockMoves, EvidenceStoreToggles, DownstreamWillFail, Present, clients
<1>7. CASE Crash
  <2>1. issued' = issued /\ \A u \in Callers : call'[u].pc = "ready"
    BY <1>7 DEF Crash
  <2> QED BY <2>1, QuietIdStep
<1>8. CASE \E s \in Sources, quota, budget \in Grants : Reconfigure(s, quota, budget)
  BY <1>8, QuietIdStep DEF Reconfigure, clients
<1> QED BY <1>1, <1>2, <1>3, <1>4, <1>5, <1>6, <1>7, <1>8 DEF Next

LEMMA IdInvAlways == Spec => []IdInv
  BY TypeCorrect, IdInvInit, IdInvStep, PTL DEF Spec
-----------------------------------------------------------------------------
(* Steps map to steps *)

AbstractStep == [Abstract!AbstractNext]_(Abstract!abstractVars)

\* Nothing the abstract specification sees changes.
LEMMA InvisibleStep ==
  ASSUME UNCHANGED <<issued, claims, effects, failures>>
  PROVE  AbstractStep
BY DEF AbstractStep, Abstract!abstractVars, Authorised, Consumed, Effective, Failed,
       EffectStore, EffectId

LEMMA IssueSimulates ==
  ASSUME NEW a \in Authorizers, Issue(a)
  PROVE  AbstractStep
<1> DEFINE cap == Capability(auth[a].local.cand, auth[a].local.tid, auth[a].local.now)
           id == cap.capability_id
<1>1. /\ issued' = issued \cup {cap}
      /\ UNCHANGED <<claims, effects, failures>>
  BY DEF Issue, sinkSide
<1> HIDE DEF cap
<1>2. Authorised' = Authorised \cup {id}
  BY <1>1 DEF Authorised
<1>3. Consumed' = Consumed /\ Effective' = Effective /\ Failed' = Failed
  BY <1>1 DEF Consumed, Effective, Failed, EffectStore, EffectId
<1> HIDE DEF id
<1>4. CASE id \in Authorised
  BY <1>2, <1>3, <1>4 DEF AbstractStep, Abstract!abstractVars
<1>5. CASE id \notin Authorised
  <2>1. Abstract!AuthoriseAct
    BY <1>2, <1>3, <1>5 DEF Abstract!AuthoriseAct
  <2> QED BY <2>1 DEF AbstractStep, Abstract!AbstractNext
<1> QED BY <1>4, <1>5

LEMMA ClaimSimulates ==
  ASSUME TypeOK, IdInv, NEW t \in Callers, Claim(t)
  PROVE  AbstractStep
<1> DEFINE st == StoreOf(t)
           id == IdOf(t)
<1>1. CASE id \in claims[st]
  BY <1>1, InvisibleStep DEF Claim, AlreadyClaimed, clients
<1>2. CASE id \notin claims[st]
  <2>1. /\ call[t].pc = "verified"
        /\ claims' = [claims EXCEPT ![st] = @ \cup {id}]
        /\ UNCHANGED <<issued, effects, failures>>
    BY <1>2 DEF Claim, AlreadyClaimed, clients
  <2>2. st \in Stores /\ DOMAIN claims = Stores
    BY <2>1, CallLocals, SinksHaveStores DEF StoreOf, TypeOK, WorldTypeOK
  <2>3. id \in Authorised
    BY <2>1 DEF IdInv, HeldIdsAreIssued
  <2> HIDE DEF st, id
  <2>4. /\ claims'[st] = claims[st] \cup {id}
        /\ \A x \in Stores : x # st => claims'[x] = claims[x]
    BY <2>1, <2>2
  <2>5. Consumed' = Consumed \cup {<<st, id>>} /\ <<st, id>> \notin Consumed
    <3>1. \A x, y : <<x, y>> \in Consumed <=> x \in Stores /\ y \in claims[x]
      BY DEF Consumed
    <3>2. \A p \in Consumed : \E x, y : p = <<x, y>>
      BY DEF Consumed
    <3>3. \A x, y : <<x, y>> \in Consumed' <=> x \in Stores /\ y \in claims'[x]
      BY DEF Consumed
    <3>4. \A p \in Consumed' : \E x, y : p = <<x, y>>
      BY DEF Consumed
    <3>5. \A x, y : <<x, y>> \in Consumed' <=> <<x, y>> \in Consumed \cup {<<st, id>>}
      BY <3>1, <3>3, <2>2, <2>4
    <3> QED BY <3>1, <3>2, <3>4, <3>5, <1>2 DEF st, id
  <2>6. Authorised' = Authorised /\ Effective' = Effective /\ Failed' = Failed
    BY <2>1 DEF Authorised, Effective, Failed, EffectStore, EffectId
  <2>7. Abstract!Consume
    BY <2>2, <2>3, <2>5, <2>6 DEF Abstract!Consume
  <2> QED BY <2>7 DEF AbstractStep, Abstract!AbstractNext
<1> QED BY <1>1, <1>2

\* With durable stores, a call between its claim and its effect holds a pair
\* that is consumed and has neither happened nor failed.
LEMMA ClaimedPairIsOpen ==
  ASSUME TypeOK, ClaimInv, Durable = Stores, NEW t \in Callers, call[t].pc = "claimed"
  PROVE  <<StoreOf(t), IdOf(t)>> \in Consumed \ (Abstract!Happened \cup Failed)
<1>1. StoreOf(t) \in Stores
  BY CallLocals, SinksHaveStores DEF StoreOf, TypeOK
<1>2. <<StoreOf(t), IdOf(t)>> \in Consumed
  BY <1>1 DEF Consumed, ClaimInv, ClaimsInFlightAreOpen
<1>3. <<StoreOf(t), IdOf(t)>> \notin Abstract!Happened
  BY <1>1 DEF Abstract!Happened, Effective, ClaimInv, ClaimsInFlightAreOpen, Remembered
<1>4. <<StoreOf(t), IdOf(t)>> \notin Failed
  BY <1>1 DEF Failed, ClaimInv, ClaimsInFlightAreOpen, Remembered
<1> QED BY <1>2, <1>3, <1>4

LEMMA FunctionIsSequence ==
  ASSUME NEW n \in Nat, NEW f, f = [i \in 1 .. n |-> f[i]]
  PROVE  f \in Seq({f[i] : i \in 1 .. n}) /\ Len(f) = n
<1> DEFINE S == {f[i] : i \in 1 .. n}
<1>1. \A i \in 1 .. n : f[i] \in S
  OBVIOUS
<1> HIDE DEF S
<1>2. f \in [1 .. n -> S]
  BY <1>1
<1>3. f \in Seq(S) /\ Len(f) = n
  BY <1>2
<1> QED BY <1>3 DEF S

LEMMA AppendIsFunction ==
  ASSUME NEW S, NEW q \in Seq(S), NEW e
  PROVE  Append(q, e) = [i \in 1 .. Len(q) + 1 |-> IF i = Len(q) + 1 THEN e ELSE q[i]]
<1> DEFINE g == [i \in 1 .. Len(q) + 1 |-> IF i = Len(q) + 1 THEN e ELSE q[i]]
           h == Append(q, e)
<1>1. /\ DOMAIN h = 1 .. Len(q) + 1 /\ h = [i \in DOMAIN h |-> h[i]]
      /\ h[Len(q) + 1] = e
      /\ \A i \in 1 .. Len(q) : h[i] = q[i]
  <2> DEFINE R == {h[i] : i \in DOMAIN h}
  <2>1. h \in Seq(R) /\ DOMAIN h = 1 .. Len(q) + 1 /\ h[Len(q) + 1] = e
    BY AppendProps
  <2>2. \A i \in DOMAIN q : h[i] = q[i]
    BY AppendProps
  <2>3. DOMAIN q = 1 .. Len(q)
    OBVIOUS
  <2> HIDE DEF h, R
  <2>4. h \in [1 .. Len(h) -> R]
    BY <2>1
  <2>5. h = [i \in DOMAIN h |-> h[i]]
    BY <2>4
  <2> QED BY <2>1, <2>2, <2>3, <2>5
<1>2. \A i \in 1 .. Len(q) + 1 : h[i] = g[i]
  BY <1>1
<1> HIDE DEF h
<1> QED BY <1>1, <1>2 DEF h

LEMMA CommitEffectSimulates ==
  ASSUME TypeOK, ClaimInv, Durable = Stores, NEW t \in Callers, CommitEffect(t)
  PROVE  AbstractStep
<1> DEFINE e == NextEffect(call[t].local)
           p == <<StoreOf(t), IdOf(t)>>
           n == Len(effects)
<1>1. /\ effects' = Append(effects, e)
      /\ UNCHANGED <<issued, claims, failures>>
  BY DEF CommitEffect, clients
<1>2. p \in Consumed \ (Abstract!Happened \cup Failed)
  BY ClaimedPairIsOpen DEF CommitEffect
<1>3. EffectStore(e) = StoreOf(t) /\ EffectId(e) = IdOf(t)
  BY DEF NextEffect, EffectStore, EffectId, StoreOf, IdOf
<1>4. /\ DOMAIN effects = 1 .. n /\ n \in Nat
      /\ DOMAIN effects' = 1 .. n + 1
      /\ effects'[n + 1] = e
      /\ \A i \in 1 .. n : effects'[i] = effects[i]
  <2> effects \in Seq({effects[i] : i \in DOMAIN effects})
    BY DEF TypeOK, HistoryTypeOK
  <2> HIDE DEF e
  <2> QED BY <1>1, AppendProps
<1> HIDE DEF e, n
<1>5. /\ Effective' = [i \in 1 .. n + 1 |-> <<EffectStore(effects'[i]), EffectId(effects'[i])>>]
      /\ Effective = [i \in 1 .. n |-> <<EffectStore(effects[i]), EffectId(effects[i])>>]
  BY <1>4 DEF Effective, EffectStore, EffectId
<1>6. Effective' = Append(Effective, p)
  <2>1. Effective \in Seq({Effective[i] : i \in 1 .. n}) /\ Len(Effective) = n
    <3>1. Effective = [i \in 1 .. n |-> Effective[i]]
      BY <1>5
    <3> QED BY <3>1, <1>4, FunctionIsSequence
  <2>2. \A i \in 1 .. n : Effective'[i] = Effective[i]
    BY <1>4, <1>5
  <2>3. Effective'[n + 1] = p
    BY <1>3, <1>4, <1>5
  <2>4. DOMAIN Effective' = 1 .. n + 1 /\ Effective' = [i \in 1 .. n + 1 |-> Effective'[i]]
    BY <1>5
  <2> HIDE DEF p
  <2>5. Append(Effective, p) = [i \in 1 .. n + 1 |-> IF i = n + 1 THEN p ELSE Effective[i]]
    BY <2>1, AppendIsFunction
  <2> QED BY <2>2, <2>3, <2>4, <2>5, <1>4
<1>7. Authorised' = Authorised /\ Consumed' = Consumed /\ Failed' = Failed
  BY <1>1 DEF Authorised, Consumed, Failed
<1>8. Abstract!TakeEffect
  BY <1>2, <1>6, <1>7 DEF Abstract!TakeEffect
<1> QED BY <1>8 DEF AbstractStep, Abstract!AbstractNext

LEMMA EffectFailsSimulates ==
  ASSUME TypeOK, ClaimInv, Durable = Stores, NEW t \in Callers, EffectFails(t)
  PROVE  AbstractStep
<1> DEFINE p == <<StoreOf(t), IdOf(t)>>
<1>1. /\ failures' = failures \cup {[store |-> StoreOf(t), id |-> IdOf(t), run |-> crashes]}
      /\ UNCHANGED <<issued, claims, effects>>
  BY DEF EffectFails, clients
<1>2. p \in Consumed \ (Abstract!Happened \cup Failed)
  BY ClaimedPairIsOpen DEF EffectFails
<1>3. Failed' = Failed \cup {p}
  <2> DEFINE g == [store |-> StoreOf(t), id |-> IdOf(t), run |-> crashes]
  <2>1. failures' = failures \cup {g} /\ p = <<g.store, g.id>>
    BY <1>1
  <2>2. Failed' = {<<f.store, f.id>> : f \in failures'}
    BY DEF Failed
  <2> HIDE DEF g, p
  <2> QED BY <2>1, <2>2 DEF Failed
<1>4. Authorised' = Authorised /\ Consumed' = Consumed /\ Effective' = Effective
  BY <1>1 DEF Authorised, Consumed, Effective, EffectStore, EffectId
<1>5. Abstract!Fail
  BY <1>2, <1>3, <1>4 DEF Abstract!Fail
<1> QED BY <1>5 DEF AbstractStep, Abstract!AbstractNext

\* A crash leaves a durable store as it is.
LEMMA CrashSimulates ==
  ASSUME TypeOK, Durable = Stores, Crash
  PROVE  AbstractStep
<1>1. claims' = [st \in Stores |-> claims[st]] /\ UNCHANGED <<issued, effects, failures>>
  BY DEF Crash, ClaimsAfterCrash
<1>2. Consumed' = Consumed
  BY <1>1 DEF Consumed
<1> QED
  BY <1>1, <1>2 DEF AbstractStep, Abstract!abstractVars, Authorised, Effective, Failed,
                    EffectStore, EffectId

LEMMA StepSimulates ==
  ASSUME TypeOK, ClaimInv, IdInv, Durable = Stores, [Next]_vars
  PROVE  AbstractStep
<1>1. CASE UNCHANGED vars
  BY <1>1, InvisibleStep DEF vars, clients, sinkSide
<1>2. CASE \E a \in Authorizers, c \in Candidates, cost \in Costs : Authorize(a, c, cost)
  BY <1>2, InvisibleStep DEF Authorize, clients, sinkSide
<1>3. ASSUME NEW a \in Authorizers, AuthStep(a)
      PROVE  AbstractStep
  <2>1. CASE Reserve(a) \/ ReserveRefused(a) \/ CommitEvidence(a)
    BY <2>1, InvisibleStep DEF Reserve, ReserveRefused, CommitEvidence, clients, sinkSide
  <2> QED BY <1>3, <2>1, IssueSimulates DEF AuthStep
<1>4. CASE \E t \in Callers, s \in Sinks, c \in Candidates, cap \in Presentable,
              proof \in PresentableProofs : Effectuate(t, s, c, cap, proof)
  BY <1>4, InvisibleStep DEF Effectuate, clients, sinkSide
<1>5. ASSUME NEW t \in Callers, CallStep(t)
      PROVE  AbstractStep
  <2>1. CASE CheckEvidence(t) \/ CheckTransition(t) \/ ClaimTimesOut(t) \/ ReturnReceipt(t)
    BY <2>1, InvisibleStep
    DEF CheckEvidence, CheckTransition, ClaimTimesOut, ReturnReceipt, clients, sinkSide
  <2> QED
    BY <1>5, <2>1, ClaimSimulates, CommitEffectSimulates, EffectFailsSimulates DEF CallStep
<1>6. CASE \/ ClockMoves \/ EvidenceStoreToggles \/ DownstreamWillFail
           \/ \E key \in PresenterKeys, cap \in issued, c \in Candidates : Present(key, cap, c)
  BY <1>6, InvisibleStep
  DEF ClockMoves, EvidenceStoreToggles, DownstreamWillFail, Present, clients, sinkSide
<1>7. CASE Crash
  BY <1>7, CrashSimulates
<1>8. CASE \E s \in Sources, quota, budget \in Grants : Reconfigure(s, quota, budget)
  BY <1>8, InvisibleStep DEF Reconfigure, clients, sinkSide
<1> QED BY <1>1, <1>2, <1>3, <1>4, <1>5, <1>6, <1>7, <1>8 DEF Next

LEMMA InitSimulates == Init => Abstract!AbstractInit
BY DEF Init, Abstract!AbstractInit, Authorised, Consumed, Effective, Failed

\* When every store is an SQLite database, whatever the authority, the sinks,
\* their clients and crashes do is the abstract life of acts: authority is
\* consumed only after it was issued, once, for good, and has at most one
\* outcome (authority.py, sink.py and state.py together).
THEOREM CoreRefines ==
  ASSUME Durable = Stores
  PROVE  Spec => ImplementsExecutionFinality
<1>1. TypeOK /\ ClaimInv /\ IdInv /\ [Next]_vars
        => [Abstract!AbstractNext]_(Abstract!abstractVars)
  BY StepSimulates DEF AbstractStep
<1> QED
  BY <1>1, InitSimulates, TypeCorrect, ClaimInvAlways, IdInvAlways, PTL
  DEF Spec, ImplementsExecutionFinality, Abstract!AbstractSpec
=============================================================================
