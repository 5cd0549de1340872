------------------------- MODULE FinalityCoreProofs -------------------------
(***************************************************************************)
(* Theorems about FinalityCore for every set of candidates, threads, sinks *)
(* and stores, every policy and every number of crashes.                   *)
(***************************************************************************)
EXTENDS FinalityCore, ProtectedStateProofs

-----------------------------------------------------------------------------
(* Type correctness *)

\* Appending keeps what a sequence has and adds one element at its end.
LEMMA AppendProps ==
  ASSUME NEW S, NEW q \in Seq(S), NEW e
  PROVE  /\ Append(q, e) \in Seq({Append(q, e)[i] : i \in DOMAIN Append(q, e)})
         /\ DOMAIN Append(q, e) = 1 .. Len(q) + 1
         /\ Append(q, e)[Len(q) + 1] = e
         /\ \A i \in DOMAIN q : Append(q, e)[i] = q[i]
         /\ \A i \in DOMAIN Append(q, e) :
              Append(q, e)[i] = e \/ (i \in DOMAIN q /\ Append(q, e)[i] = q[i])
  OBVIOUS

\* Initially every source has its defaults and no call runs.
LEMMA TypeInit == Init => TypeOK
<1> SUFFICES ASSUME Init PROVE TypeOK
  OBVIOUS
<1>1. StateTypeOK
  BY DefaultsAreNumbers DEF Init, StateInit, StateTypeOK, DefaultSource, Empty
<1>2. AuthTypeOK /\ CallTypeOK
  BY DEF Init, AuthTypeOK, CallTypeOK, AuthLocalOK, CallLocalOK, Free
<1>3. WorldTypeOK
  <2>1. clock \in Times
    BY ClockReadings DEF Init
  <2>2. crashes \in 0 .. MaxCrashes
    BY CrashBound DEF Init
  <2>3. failCommits \in BOOLEAN /\ failNext \in BOOLEAN
    BY DEF Init
  <2>4. DOMAIN claims = Stores
    BY DEF Init
  <2>5. live \subseteq issued
    BY DEF Init
  <2> QED BY <2>1, <2>2, <2>3, <2>4, <2>5 DEF WorldTypeOK
<1>4. HistoryTypeOK
  BY DEF Init, HistoryTypeOK
<1> QED
  BY <1>1, <1>2, <1>3, <1>4 DEF TypeOK

\* Moving one thread to a well-formed place keeps all of them well-formed.
LEMMA AuthGoesTyped ==
  ASSUME AuthTypeOK, NEW a \in Authorizers, NEW pc, NEW local,
         AuthGoes(a, pc, local), AuthLocalOK(pc, local)
  PROVE  AuthTypeOK'
  BY DEF AuthTypeOK, AuthGoes, AuthLocalOK

LEMMA CallGoesTyped ==
  ASSUME CallTypeOK, NEW t \in Callers, NEW pc, NEW local,
         CallGoes(t, pc, local), CallLocalOK(pc, local)
  PROVE  CallTypeOK'
  BY DEF CallTypeOK, CallGoes, CallLocalOK

\* A part of the type invariant is kept by a step that leaves its variables
\* alone.
LEMMA TypesOfUnchanged ==
  /\ StateTypeOK /\ UNCHANGED stateVars => StateTypeOK'
  /\ AuthTypeOK /\ UNCHANGED auth => AuthTypeOK'
  /\ CallTypeOK /\ UNCHANGED call => CallTypeOK'
  /\ WorldTypeOK /\ UNCHANGED <<external, failCommits, failNext, claims, issued, live>>
       => WorldTypeOK'
  /\ HistoryTypeOK /\ UNCHANGED <<crashes, effects, failures>> => HistoryTypeOK'
<1>1. StateTypeOK /\ UNCHANGED stateVars => StateTypeOK'
  BY DEF StateTypeOK, stateVars
<1>2. AuthTypeOK /\ UNCHANGED auth => AuthTypeOK'
  BY DEF AuthTypeOK, AuthLocalOK
<1>3. CallTypeOK /\ UNCHANGED call => CallTypeOK'
  BY DEF CallTypeOK, CallLocalOK
<1>4. WorldTypeOK /\ UNCHANGED <<external, failCommits, failNext, claims, issued, live>>
        => WorldTypeOK'
  BY DEF WorldTypeOK, external
<1>5. HistoryTypeOK /\ UNCHANGED <<crashes, effects, failures>> => HistoryTypeOK'
  BY DEF HistoryTypeOK
<1> QED BY <1>1, <1>2, <1>3, <1>4, <1>5

\* A step that moves one authorizer and nothing else.
LEMMA QuietAuthStep ==
  ASSUME TypeOK, NEW a \in Authorizers, NEW pc, NEW local,
         AuthGoes(a, pc, local), AuthLocalOK(pc, local),
         UNCHANGED <<external, protected, sinkSide, clients, call>>
  PROVE  TypeOK'
<1>1. AuthTypeOK'
  BY AuthGoesTyped DEF TypeOK
<1>2. /\ UNCHANGED <<stateVars, call, crashes, effects, failures>>
      /\ UNCHANGED <<external, failCommits, failNext, claims, issued, live>>
  BY DEF external, protected, sinkSide, clients, stateVars
<1> QED BY <1>1, <1>2, TypesOfUnchanged DEF TypeOK

\* A step that moves one caller and nothing else.
LEMMA QuietCallStep ==
  ASSUME TypeOK, NEW t \in Callers, NEW pc, NEW local,
         CallGoes(t, pc, local), CallLocalOK(pc, local),
         UNCHANGED <<external, protected, sinkSide, clients, auth>>
  PROVE  TypeOK'
<1>1. CallTypeOK'
  BY CallGoesTyped DEF TypeOK
<1>2. /\ UNCHANGED <<stateVars, auth, crashes, effects, failures>>
      /\ UNCHANGED <<external, failCommits, failNext, claims, issued, live>>
  BY DEF external, protected, sinkSide, clients, stateVars
<1> QED BY <1>1, <1>2, TypesOfUnchanged DEF TypeOK

\* The locals of a thread whose place is known.
LEMMA AuthLocals ==
  ASSUME AuthTypeOK, NEW a \in Authorizers
  PROVE  /\ auth[a].pc = "validated" => auth[a].local.cost \in Costs
         /\ auth[a].pc \in {"validated", "reserved", "committed"} =>
              auth[a].local.cand \in Candidates /\ auth[a].local.now \in Times
  BY DEF AuthTypeOK, AuthLocalOK, Free

LEMMA CallLocals ==
  ASSUME CallTypeOK, NEW t \in Callers
  PROVE  /\ call[t].pc \in {"presented", "evidenced", "verified", "claimed"} =>
              /\ call[t].local.sink \in Sinks
              /\ call[t].local.cand \in Candidates
              /\ call[t].local.now \in Times
         /\ call[t].pc = "effected" =>
              call[t].local.call.sink \in Sinks /\ call[t].local.call.now \in Times
  BY DEF CallTypeOK, CallLocalOK, Free

LEMMA TypeAuthorize ==
  ASSUME TypeOK, NEW a \in Authorizers, NEW c \in Candidates, NEW cost \in Costs,
         Authorize(a, c, cost)
  PROVE  TypeOK'
<1>1. /\ AuthLocalOK("validated", [cand |-> c, cost |-> cost, now |-> clock])
      /\ AuthLocalOK("raised", NoCall)
  BY DEF AuthLocalOK, Free, TypeOK, WorldTypeOK
<1>2. UNCHANGED <<external, protected, sinkSide, clients, call>>
  BY DEF Authorize, PutToPolicy
<1>3. CASE Validate(c, clock)
  <2>1. AuthGoes(a, "validated", [cand |-> c, cost |-> cost, now |-> clock])
    BY <1>3 DEF Authorize, PutToPolicy
  <2> QED BY <1>1, <1>2, <2>1, QuietAuthStep
<1>4. CASE ~Validate(c, clock)
  <2>1. AuthGoes(a, "raised", NoCall)
    BY <1>4 DEF Authorize, PutToPolicy
  <2> QED BY <1>1, <1>2, <2>1, QuietAuthStep
<1> QED BY <1>3, <1>4

LEMMA TypeReserve ==
  ASSUME TypeOK, NEW a \in Authorizers, Reserve(a)
  PROVE  TypeOK'
<1> DEFINE l == auth[a].local
           new == [cand |-> l.cand, now |-> l.now,
                   tid |-> NextTransition(l.cand, l.cost).transition_id]
<1>1. l.cand \in Candidates /\ l.cost \in Costs /\ l.now \in Times
  <2> auth[a].pc = "validated" /\ AuthTypeOK
    BY DEF Reserve, TypeOK
  <2> QED BY AuthLocals
<1>2. StateTypeOK'
  BY <1>1, TransitionKeepsStateType DEF Reserve, TypeOK
<1>3. AuthTypeOK'
  <2>1. AuthGoes(a, "reserved", new)
    BY DEF Reserve
  <2>2. AuthLocalOK("reserved", new)
    BY <1>1 DEF AuthLocalOK
  <2> QED BY <2>1, <2>2, AuthGoesTyped DEF TypeOK
<1>4. /\ UNCHANGED <<call, crashes, effects, failures>>
      /\ UNCHANGED <<external, failCommits, failNext, claims, issued, live>>
  BY DEF Reserve, external, sinkSide, clients
<1> QED BY <1>2, <1>3, <1>4, TypesOfUnchanged DEF TypeOK

LEMMA TypeReserveRefused ==
  ASSUME TypeOK, NEW a \in Authorizers, ReserveRefused(a)
  PROVE  TypeOK'
<1>1. AuthLocalOK("raised", NoCall)
  BY DEF AuthLocalOK, Free
<1> QED BY <1>1, QuietAuthStep DEF ReserveRefused

LEMMA TypeCommitEvidence ==
  ASSUME TypeOK, NEW a \in Authorizers, CommitEvidence(a)
  PROVE  TypeOK'
<1>1. AuthTypeOK'
  <2>1. AuthLocalOK("raised", NoCall) /\ AuthLocalOK("committed", auth[a].local)
    BY AuthLocals DEF AuthLocalOK, Free, TypeOK, CommitEvidence
  <2>2. \/ AuthGoes(a, "raised", NoCall)
        \/ AuthGoes(a, "committed", auth[a].local)
    BY DEF CommitEvidence
  <2> QED BY <2>1, <2>2, AuthGoesTyped DEF TypeOK
<1>2. /\ UNCHANGED <<stateVars, call, crashes, effects, failures>>
      /\ UNCHANGED <<external, failCommits, failNext, claims, issued, live>>
  BY DEF CommitEvidence, external, sinkSide, clients, stateVars
<1> QED BY <1>1, <1>2, TypesOfUnchanged DEF TypeOK

LEMMA TypeIssue ==
  ASSUME TypeOK, NEW a \in Authorizers, Issue(a)
  PROVE  TypeOK'
<1>1. AuthTypeOK'
  <2>1. AuthLocalOK("returned", NoCall)
    BY DEF AuthLocalOK, Free
  <2> QED BY <2>1, AuthGoesTyped DEF TypeOK, Issue
<1>2. WorldTypeOK'
  BY DEF Issue, TypeOK, WorldTypeOK, external, protected, sinkSide
<1>3. UNCHANGED <<stateVars, call, crashes, effects, failures>>
  BY DEF Issue, external, protected, sinkSide, stateVars
<1> QED BY <1>1, <1>2, <1>3, TypesOfUnchanged DEF TypeOK

LEMMA TypeEffectuate ==
  ASSUME TypeOK, NEW t \in Callers, NEW s \in Sinks, NEW c \in Candidates, NEW cap,
         NEW proof, Effectuate(t, s, c, cap, proof)
  PROVE  TypeOK'
<1> DEFINE new == [sink |-> s, cand |-> c, cap |-> cap, now |-> clock]
<1>1. CallLocalOK("presented", new) /\ CallLocalOK("raised", NoCall)
  BY DEF CallLocalOK, Free, TypeOK, WorldTypeOK
<1>2. CallGoes(t, "presented", new) \/ CallGoes(t, "raised", NoCall)
  BY DEF Effectuate
<1>3. UNCHANGED <<external, protected, sinkSide, clients, auth>>
  BY DEF Effectuate
<1> QED BY <1>1, <1>2, <1>3, QuietCallStep

LEMMA TypeCheck ==
  ASSUME TypeOK, NEW t \in Callers, CheckEvidence(t) \/ CheckTransition(t)
  PROVE  TypeOK'
<1> DEFINE l == call[t].local
<1>1. /\ CallLocalOK("evidenced", l) /\ CallLocalOK("verified", l)
      /\ CallLocalOK("raised", NoCall)
  BY CallLocals DEF CallLocalOK, Free, TypeOK, CheckEvidence, CheckTransition
<1>2. \/ CallGoes(t, "evidenced", l) \/ CallGoes(t, "verified", l)
      \/ CallGoes(t, "raised", NoCall)
  BY DEF CheckEvidence, CheckTransition
<1>3. UNCHANGED <<external, protected, sinkSide, clients, auth>>
  BY DEF CheckEvidence, CheckTransition
<1> QED BY <1>1, <1>2, <1>3, QuietCallStep

LEMMA TypeClaim ==
  ASSUME TypeOK, NEW t \in Callers, Claim(t)
  PROVE  TypeOK'
<1>1. CallTypeOK'
  <2>1. CallLocalOK("claimed", call[t].local) /\ CallLocalOK("raised", NoCall)
    BY CallLocals DEF CallLocalOK, Free, TypeOK, Claim
  <2>2. CallGoes(t, "claimed", call[t].local) \/ CallGoes(t, "raised", NoCall)
    BY DEF Claim
  <2> QED BY <2>1, <2>2, CallGoesTyped DEF TypeOK
<1>2. WorldTypeOK'
  BY DEF Claim, TypeOK, WorldTypeOK, external, protected, clients
<1>3. UNCHANGED <<stateVars, auth, crashes, effects, failures>>
  BY DEF Claim, external, protected, stateVars
<1> QED BY <1>1, <1>2, <1>3, TypesOfUnchanged DEF TypeOK

LEMMA TypeClaimTimesOut ==
  ASSUME TypeOK, NEW t \in Callers, ClaimTimesOut(t)
  PROVE  TypeOK'
<1>1. CallLocalOK("raised", NoCall)
  BY DEF CallLocalOK, Free
<1> QED BY <1>1, QuietCallStep DEF ClaimTimesOut

LEMMA TypeCommitEffect ==
  ASSUME TypeOK, NEW t \in Callers, CommitEffect(t)
  PROVE  TypeOK'
<1> DEFINE l == call[t].local
           e == NextEffect(l)
           new == [call |-> l, ordinal |-> e.ordinal]
<1>1. l.sink \in Sinks /\ l.now \in Times
  BY CallLocals DEF CommitEffect, TypeOK
<1>2. CallTypeOK'
  <2>1. CallLocalOK("effected", new)
    BY <1>1 DEF CallLocalOK
  <2>2. CallGoes(t, "effected", new)
    BY DEF CommitEffect
  <2> QED BY <2>1, <2>2, CallGoesTyped DEF TypeOK
<1>3. HistoryTypeOK'
  <2>1. e.call = l /\ e.run = crashes
    BY DEF NextEffect
  <2>2. effects' = Append(effects, e) /\ UNCHANGED <<crashes, failures>>
    BY DEF CommitEffect, external
  <2>3. crashes \in 0 .. crashes
    BY CrashBound DEF TypeOK, WorldTypeOK
  <2> HIDE DEF e, l
  <2>4. /\ effects' \in Seq({effects'[i] : i \in DOMAIN effects'})
        /\ \A i \in DOMAIN effects' :
             effects'[i] = e \/ (i \in DOMAIN effects /\ effects'[i] = effects[i])
    BY <2>2, AppendProps DEF TypeOK, HistoryTypeOK
  <2> QED BY <1>1, <2>1, <2>2, <2>3, <2>4 DEF TypeOK, HistoryTypeOK
<1>4. /\ UNCHANGED <<stateVars, auth>>
      /\ UNCHANGED <<external, failCommits, failNext, claims, issued, live>>
  BY DEF CommitEffect, external, protected, clients, stateVars
<1> QED BY <1>2, <1>3, <1>4, TypesOfUnchanged DEF TypeOK

LEMMA TypeEffectFails ==
  ASSUME TypeOK, NEW t \in Callers, EffectFails(t)
  PROVE  TypeOK'
<1>1. StoreOf(t) \in Stores
  BY CallLocals, SinksHaveStores DEF StoreOf, EffectFails, TypeOK
<1>2. CallTypeOK'
  <2>1. CallLocalOK("raised", NoCall)
    BY DEF CallLocalOK, Free
  <2> QED BY <2>1, CallGoesTyped DEF TypeOK, EffectFails
<1>3. WorldTypeOK'
  BY DEF EffectFails, TypeOK, WorldTypeOK, external, protected, clients
<1>4. HistoryTypeOK'
  <2>1. /\ failures' = failures \cup {[store |-> StoreOf(t), id |-> IdOf(t), run |-> crashes]}
        /\ UNCHANGED <<crashes, effects>>
    BY DEF EffectFails, external
  <2>2. crashes \in 0 .. crashes
    BY CrashBound DEF TypeOK, WorldTypeOK
  <2> QED BY <1>1, <2>1, <2>2 DEF TypeOK, HistoryTypeOK
<1>5. UNCHANGED <<stateVars, auth>>
  BY DEF EffectFails, protected, stateVars
<1> QED BY <1>2, <1>3, <1>4, <1>5, TypesOfUnchanged DEF TypeOK

LEMMA TypeReturnReceipt ==
  ASSUME TypeOK, NEW t \in Callers, ReturnReceipt(t)
  PROVE  TypeOK'
<1>1. CallTypeOK'
  <2>1. CallLocalOK("returned", NoCall) /\ CallLocalOK("raised", NoCall)
    BY DEF CallLocalOK, Free
  <2>2. CallGoes(t, "returned", NoCall) \/ CallGoes(t, "raised", NoCall)
    BY DEF ReturnReceipt
  <2> QED BY <2>1, <2>2, CallGoesTyped DEF TypeOK
<1>2. /\ UNCHANGED <<stateVars, auth, crashes, effects, failures>>
      /\ UNCHANGED <<external, failCommits, failNext, claims, issued, live>>
  BY DEF ReturnReceipt, external, protected, clients, stateVars
<1> QED BY <1>1, <1>2, TypesOfUnchanged DEF TypeOK

\* The environment: the clock, the failure flags, presenters.
LEMMA TypeEnvironment ==
  ASSUME TypeOK,
         \/ ClockMoves \/ EvidenceStoreToggles \/ DownstreamWillFail
         \/ \E key \in PresenterKeys, cap \in issued, c \in Candidates : Present(key, cap, c)
  PROVE  TypeOK'
<1>1. UNCHANGED <<stateVars, auth, call, crashes, effects, failures>>
  BY DEF ClockMoves, EvidenceStoreToggles, DownstreamWillFail, Present,
         external, protected, sinkSide, stateVars
<1>2. WorldTypeOK'
  BY DEF ClockMoves, EvidenceStoreToggles, DownstreamWillFail, Present,
         external, protected, sinkSide, clients, TypeOK, WorldTypeOK
<1> QED BY <1>1, <1>2, TypesOfUnchanged DEF TypeOK

\* configure_source gives a source a natural quota and budget.
LEMMA TypeReconfigure ==
  ASSUME TypeOK, NEW s \in Sources, NEW quota \in Grants, NEW budget \in Grants,
         Reconfigure(s, quota, budget)
  PROVE  TypeOK'
<1>1. quota \in Nat /\ budget \in Nat
  BY GrantsAreNumbers
<1>2. StateTypeOK'
  BY <1>1 DEF Reconfigure, ConfigureSource, TypeOK, StateTypeOK
<1>3. /\ UNCHANGED <<auth, call, crashes, effects, failures>>
      /\ UNCHANGED <<external, failCommits, failNext, claims, issued, live>>
  BY DEF Reconfigure, external, sinkSide, clients
<1> QED BY <1>2, <1>3, TypesOfUnchanged DEF TypeOK

LEMMA TypeCrash ==
  ASSUME TypeOK, Crash
  PROVE  TypeOK'
<1>1. StateTypeOK'
  BY DefaultsAreNumbers DEF Crash, StateTypeOK, DefaultSource, Empty
<1>2. AuthTypeOK' /\ CallTypeOK'
  BY DEF Crash, AuthTypeOK, CallTypeOK, AuthLocalOK, CallLocalOK, Free
<1>3. crashes \in Nat /\ crashes' = crashes + 1 /\ crashes' \in 0 .. MaxCrashes
  BY CrashBound DEF Crash, TypeOK, WorldTypeOK
<1>4. WorldTypeOK'
  <2>1. DOMAIN claims' = Stores
    BY DEF Crash, ClaimsAfterCrash
  <2> QED BY <1>3, <2>1 DEF Crash, TypeOK, WorldTypeOK
<1>5. HistoryTypeOK'
  BY <1>3 DEF Crash, TypeOK, HistoryTypeOK
<1> QED BY <1>1, <1>2, <1>4, <1>5 DEF TypeOK

\* Every step keeps the state well-formed.
LEMMA TypeStep == TypeOK /\ [Next]_vars => TypeOK'
<1> SUFFICES ASSUME TypeOK, [Next]_vars PROVE TypeOK'
  OBVIOUS
<1>1. CASE UNCHANGED vars
  <2>1. /\ UNCHANGED <<stateVars, auth, call, crashes, effects, failures>>
        /\ UNCHANGED <<external, failCommits, failNext, claims, issued, live>>
    BY <1>1 DEF vars, external, protected, sinkSide, clients, stateVars
  <2> QED BY <2>1, TypesOfUnchanged DEF TypeOK
<1>2. CASE \E a \in Authorizers, c \in Candidates, cost \in Costs : Authorize(a, c, cost)
  BY <1>2, TypeAuthorize
<1>3. CASE \E a \in Authorizers : AuthStep(a)
  BY <1>3, TypeReserve, TypeReserveRefused, TypeCommitEvidence, TypeIssue DEF AuthStep
<1>4. CASE \E t \in Callers, s \in Sinks, c \in Candidates, cap \in Presentable,
              proof \in PresentableProofs : Effectuate(t, s, c, cap, proof)
  BY <1>4, TypeEffectuate
<1>5. CASE \E t \in Callers : CallStep(t)
  BY <1>5, TypeCheck, TypeClaim, TypeClaimTimesOut, TypeCommitEffect, TypeEffectFails,
     TypeReturnReceipt DEF CallStep
<1>6. CASE \/ ClockMoves \/ EvidenceStoreToggles \/ DownstreamWillFail
           \/ \E key \in PresenterKeys, cap \in issued, c \in Candidates : Present(key, cap, c)
  BY <1>6, TypeEnvironment
<1>7. CASE Crash
  BY <1>7, TypeCrash
<1>8. CASE \E s \in Sources, quota, budget \in Grants : Reconfigure(s, quota, budget)
  BY <1>8, TypeReconfigure
<1> QED BY <1>1, <1>2, <1>3, <1>4, <1>5, <1>6, <1>7, <1>8 DEF Next

\* In every reachable state the types are right: in particular no interleaving
\* of authorizations overdraws a source (ProtectedState, state.py).
THEOREM TypeCorrect == Spec => []TypeOK
  BY TypeInit, TypeStep, PTL DEF Spec

-----------------------------------------------------------------------------
(* At most one effect *)

\* A step that adds no claim, effect or failure and brings no call to its effect
\* keeps the invariant.
LEMMA QuietClaimStep ==
  ASSUME ClaimInv, UNCHANGED <<crashes, claims, effects, failures>>,
         \A u \in Callers : call'[u].pc = "claimed" => call'[u] = call[u]
  PROVE  ClaimInv'
<1>1. EffectsAreClaimed' /\ FailuresAreClaimed'
  BY DEF ClaimInv, EffectsAreClaimed, FailuresAreClaimed, Remembered, EffectStore, EffectId
<1>2. AtMostOneEffect' /\ FailureIsFinal'
  BY DEF ClaimInv, AtMostOneEffect, FailureIsFinal, Remembered, EffectStore, EffectId
<1>3. ClaimsInFlightAreOpen'
  BY DEF ClaimInv, ClaimsInFlightAreOpen, Remembered, EffectStore, EffectId, StoreOf, IdOf
<1>4. OneClaimant'
  BY DEF ClaimInv, OneClaimant, StoreOf, IdOf
<1> QED BY <1>1, <1>2, <1>3, <1>4 DEF ClaimInv

\* A caller that is moved anywhere but to its effect leaves the others alone.
LEMMA OthersStay ==
  ASSUME CallTypeOK, NEW t \in Callers, NEW pc, NEW local, CallGoes(t, pc, local)
  PROVE  /\ call'[t] = [pc |-> pc, local |-> local]
         /\ call'[t].pc = pc /\ call'[t].local = local
         /\ \A u \in Callers \ {t} : call'[u] = call[u]
  BY DEF CallTypeOK, CallGoes

LEMMA QuietCallerStep ==
  ASSUME TypeOK, ClaimInv, NEW t \in Callers, NEW pc, pc # "claimed", NEW local,
         CallGoes(t, pc, local), UNCHANGED <<crashes, claims, effects, failures>>
  PROVE  ClaimInv'
<1>1. /\ call'[t] = [pc |-> pc, local |-> local]
      /\ \A u \in Callers \ {t} : call'[u] = call[u]
  BY OthersStay DEF TypeOK
<1>2. \A u \in Callers : call'[u].pc = "claimed" => call'[u] = call[u]
  BY <1>1
<1> QED BY <1>2, QuietClaimStep

LEMMA ClaimStep ==
  ASSUME TypeOK, ClaimInv, NEW t \in Callers, Claim(t)
  PROVE  ClaimInv'
<1> DEFINE st == StoreOf(t)
           id == IdOf(t)
<1>1. CASE id \in claims[st]
  <2>1. CallGoes(t, "raised", NoCall) /\ UNCHANGED <<crashes, claims, effects, failures>>
    BY <1>1 DEF Claim, AlreadyClaimed, external
  <2> QED BY <2>1, QuietCallerStep
<1>2. CASE id \notin claims[st]
  <2>1. /\ claims' = [claims EXCEPT ![st] = @ \cup {id}]
        /\ CallGoes(t, "claimed", call[t].local)
        /\ UNCHANGED <<crashes, effects, failures>>
    BY <1>2 DEF Claim, AlreadyClaimed, external
  <2>2. /\ call'[t] = [pc |-> "claimed", local |-> call[t].local]
        /\ \A u \in Callers \ {t} : call'[u] = call[u]
    BY <2>1, OthersStay DEF TypeOK
  <2>3. StoreOf(t)' = st /\ IdOf(t)' = id
    BY <2>2 DEF StoreOf, IdOf
  <2>4. st \in Stores /\ DOMAIN claims = Stores
    BY CallLocals, SinksHaveStores DEF StoreOf, Claim, TypeOK, WorldTypeOK
  <2>5. /\ id \in claims'[st]
        /\ \A x \in Stores : claims[x] \subseteq claims'[x]
    BY <2>1, <2>4
  <2>6. EffectsAreClaimed' /\ FailuresAreClaimed'
    BY <2>1, <2>5, SinksHaveStores
    DEF ClaimInv, EffectsAreClaimed, FailuresAreClaimed, Remembered, EffectStore, EffectId,
        TypeOK, HistoryTypeOK
  <2>7. AtMostOneEffect' /\ FailureIsFinal'
    BY <2>1 DEF ClaimInv, AtMostOneEffect, FailureIsFinal, Remembered, EffectStore, EffectId
  <2>8. ClaimsInFlightAreOpen'
    <3> SUFFICES ASSUME NEW u \in Callers, call'[u].pc = "claimed"
                 PROVE  /\ IdOf(u)' \in claims'[StoreOf(u)']
                        /\ \A i \in DOMAIN effects :
                             ~ /\ EffectStore(effects[i]) = StoreOf(u)'
                               /\ EffectId(effects[i]) = IdOf(u)'
                               /\ Remembered(StoreOf(u)', effects[i].run, crashes)
                        /\ \A f \in failures :
                             ~ /\ f.store = StoreOf(u)' /\ f.id = IdOf(u)'
                               /\ Remembered(f.store, f.run, crashes)
      BY <2>1 DEF ClaimsInFlightAreOpen, EffectStore, EffectId, Remembered
    <3>1. CASE u = t
      BY <3>1, <1>2, <2>3, <2>5 DEF ClaimInv, EffectsAreClaimed, FailuresAreClaimed
    <3>2. CASE u # t
      <4>1. call[u].pc = "claimed" /\ StoreOf(u)' = StoreOf(u) /\ IdOf(u)' = IdOf(u)
        BY <3>2, <2>2 DEF StoreOf, IdOf
      <4>2. StoreOf(u) \in Stores
        BY <4>1, CallLocals, SinksHaveStores DEF StoreOf, TypeOK
      <4> QED BY <4>1, <4>2, <2>5 DEF ClaimInv, ClaimsInFlightAreOpen
    <3> QED BY <3>1, <3>2
  <2>9. OneClaimant'
    <3> SUFFICES ASSUME NEW u \in Callers, u # t, call'[u].pc = "claimed",
                        StoreOf(u)' = st, IdOf(u)' = id
                 PROVE  FALSE
      BY <2>2, <2>3 DEF ClaimInv, OneClaimant, StoreOf, IdOf
    <3>1. call[u].pc = "claimed" /\ StoreOf(u) = st /\ IdOf(u) = id
      BY <2>2 DEF StoreOf, IdOf
    <3> QED BY <3>1, <1>2 DEF ClaimInv, ClaimsInFlightAreOpen
  <2> QED BY <2>6, <2>7, <2>8, <2>9 DEF ClaimInv
<1> QED BY <1>1, <1>2

LEMMA CommitEffectStep ==
  ASSUME TypeOK, ClaimInv, NEW t \in Callers, CommitEffect(t)
  PROVE  ClaimInv'
<1> DEFINE l == call[t].local
           e == NextEffect(l)
           n == Len(effects) + 1
<1>1. /\ call[t].pc = "claimed"
      /\ effects' = Append(effects, e)
      /\ CallGoes(t, "effected", [call |-> l, ordinal |-> e.ordinal])
      /\ UNCHANGED <<crashes, claims, failures>>
  BY DEF CommitEffect, external
<1>2. /\ EffectStore(e) = StoreOf(t) /\ EffectId(e) = IdOf(t) /\ e.run = crashes
  BY DEF NextEffect, EffectStore, EffectId, StoreOf, IdOf
<1>3. /\ DOMAIN effects = 1 .. Len(effects) /\ Len(effects) \in Nat
      /\ DOMAIN effects' = 1 .. n
      /\ effects'[n] = e
      /\ \A i \in DOMAIN effects : effects'[i] = effects[i]
  <2> effects \in Seq({effects[i] : i \in DOMAIN effects})
    BY DEF TypeOK, HistoryTypeOK
  <2> HIDE DEF e
  <2> QED BY <1>1, AppendProps
<1>4. \A i \in DOMAIN effects' : i = n \/ i \in DOMAIN effects
  BY <1>3
<1>5. /\ call'[t].pc = "effected"
      /\ \A u \in Callers \ {t} : call'[u] = call[u]
  <2> HIDE DEF e, l
  <2>1. call'[t] = [pc |-> "effected", local |-> [call |-> l, ordinal |-> e.ordinal]]
    BY <1>1, OthersStay DEF TypeOK
  <2>2. \A u \in Callers \ {t} : call'[u] = call[u]
    BY <1>1, OthersStay DEF TypeOK
  <2> QED BY <2>1, <2>2
<1>6. \A u \in Callers :
        call'[u].pc = "claimed" =>
          /\ u # t /\ call[u].pc = "claimed"
          /\ StoreOf(u)' = StoreOf(u) /\ IdOf(u)' = IdOf(u)
  BY <1>5 DEF StoreOf, IdOf
\* No effect or failure of this claim is remembered: this one is its first.
<1>7. /\ IdOf(t) \in claims[StoreOf(t)]
      /\ \A i \in DOMAIN effects :
           ~ /\ EffectStore(effects[i]) = StoreOf(t)
             /\ EffectId(effects[i]) = IdOf(t)
             /\ Remembered(StoreOf(t), effects[i].run, crashes)
      /\ \A f \in failures :
           ~ (f.store = StoreOf(t) /\ f.id = IdOf(t) /\ Remembered(f.store, f.run, crashes))
  BY <1>1 DEF ClaimInv, ClaimsInFlightAreOpen
<1> HIDE DEF e, n, l
<1>8. EffectsAreClaimed'
  <2> SUFFICES ASSUME NEW i \in DOMAIN effects',
                      Remembered(EffectStore(effects'[i]), effects'[i].run, crashes)
               PROVE  EffectId(effects'[i]) \in claims[EffectStore(effects'[i])]
    BY <1>1 DEF EffectsAreClaimed, EffectStore, EffectId, Remembered
  <2>1. CASE i = n
    BY <2>1, <1>2, <1>3, <1>7
  <2>2. CASE i \in DOMAIN effects
    BY <2>2, <1>3 DEF ClaimInv, EffectsAreClaimed
  <2> QED BY <2>1, <2>2, <1>4
<1>9. FailuresAreClaimed'
  BY <1>1 DEF ClaimInv, FailuresAreClaimed, Remembered
<1>10. ClaimsInFlightAreOpen'
  <2> SUFFICES ASSUME NEW u \in Callers, u # t, call[u].pc = "claimed"
               PROVE  /\ IdOf(u) \in claims[StoreOf(u)]
                      /\ \A i \in DOMAIN effects' :
                           ~ /\ EffectStore(effects'[i]) = StoreOf(u)
                             /\ EffectId(effects'[i]) = IdOf(u)
                             /\ Remembered(StoreOf(u), effects'[i].run, crashes)
                      /\ \A f \in failures :
                           ~ /\ f.store = StoreOf(u) /\ f.id = IdOf(u)
                             /\ Remembered(f.store, f.run, crashes)
    BY <1>1, <1>6 DEF ClaimsInFlightAreOpen, EffectStore, EffectId, Remembered
  <2>1. ~(StoreOf(u) = StoreOf(t) /\ IdOf(u) = IdOf(t))
    BY <1>1 DEF ClaimInv, OneClaimant
  <2> QED BY <2>1, <1>2, <1>3, <1>4 DEF ClaimInv, ClaimsInFlightAreOpen
<1>11. OneClaimant'
  BY <1>6 DEF ClaimInv, OneClaimant
<1>12. AtMostOneEffect'
  <2> SUFFICES ASSUME NEW i \in DOMAIN effects', NEW j \in DOMAIN effects',
                      EffectStore(effects'[i]) = EffectStore(effects'[j]),
                      EffectId(effects'[i]) = EffectId(effects'[j]),
                      Remembered(EffectStore(effects'[i]), effects'[i].run, effects'[j].run)
               PROVE  i = j
    BY DEF AtMostOneEffect, EffectStore, EffectId, Remembered
  <2>1. CASE i \in DOMAIN effects /\ j \in DOMAIN effects
    BY <2>1, <1>3 DEF ClaimInv, AtMostOneEffect
  <2>2. CASE i = n /\ j \in DOMAIN effects
    BY <2>2, <1>2, <1>3, <1>7 DEF Remembered
  <2>3. CASE j = n /\ i \in DOMAIN effects
    BY <2>3, <1>2, <1>3, <1>7
  <2> QED BY <2>1, <2>2, <2>3, <1>4
<1>13. FailureIsFinal'
  <2> SUFFICES ASSUME NEW f \in failures, NEW i \in DOMAIN effects',
                      EffectStore(effects'[i]) = f.store, EffectId(effects'[i]) = f.id,
                      Remembered(f.store, f.run, effects'[i].run)
               PROVE  FALSE
    BY <1>1 DEF FailureIsFinal, EffectStore, EffectId, Remembered
  <2>1. CASE i = n
    BY <2>1, <1>2, <1>3, <1>7
  <2>2. CASE i \in DOMAIN effects
    BY <2>2, <1>3 DEF ClaimInv, FailureIsFinal
  <2> QED BY <2>1, <2>2, <1>4
<1> QED BY <1>8, <1>9, <1>10, <1>11, <1>12, <1>13 DEF ClaimInv

LEMMA EffectFailsStep ==
  ASSUME TypeOK, ClaimInv, NEW t \in Callers, EffectFails(t)
  PROVE  ClaimInv'
<1> DEFINE g == [store |-> StoreOf(t), id |-> IdOf(t), run |-> crashes]
<1>1. /\ call[t].pc = "claimed"
      /\ failures' = failures \cup {g}
      /\ CallGoes(t, "raised", NoCall)
      /\ UNCHANGED <<crashes, claims, effects>>
  BY DEF EffectFails, external
<1>2. /\ call'[t].pc = "raised"
      /\ \A u \in Callers \ {t} : call'[u] = call[u]
  <2>1. call'[t] = [pc |-> "raised", local |-> NoCall]
    BY <1>1, OthersStay DEF TypeOK
  <2>2. \A u \in Callers \ {t} : call'[u] = call[u]
    BY <1>1, OthersStay DEF TypeOK
  <2> QED BY <2>1, <2>2
<1>3. \A u \in Callers :
        call'[u].pc = "claimed" =>
          /\ u # t /\ call[u].pc = "claimed"
          /\ StoreOf(u)' = StoreOf(u) /\ IdOf(u)' = IdOf(u)
  BY <1>2 DEF StoreOf, IdOf
<1>4. /\ IdOf(t) \in claims[StoreOf(t)]
      /\ \A i \in DOMAIN effects :
           ~ /\ EffectStore(effects[i]) = StoreOf(t)
             /\ EffectId(effects[i]) = IdOf(t)
             /\ Remembered(StoreOf(t), effects[i].run, crashes)
  BY <1>1 DEF ClaimInv, ClaimsInFlightAreOpen
<1>5. EffectsAreClaimed' /\ AtMostOneEffect'
  BY <1>1 DEF ClaimInv, EffectsAreClaimed, AtMostOneEffect, EffectStore, EffectId, Remembered
<1>6. FailuresAreClaimed'
  BY <1>1, <1>4 DEF ClaimInv, FailuresAreClaimed, Remembered
<1>7. ClaimsInFlightAreOpen'
  <2> SUFFICES ASSUME NEW u \in Callers, u # t, call[u].pc = "claimed"
               PROVE  /\ IdOf(u) \in claims[StoreOf(u)]
                      /\ \A i \in DOMAIN effects :
                           ~ /\ EffectStore(effects[i]) = StoreOf(u)
                             /\ EffectId(effects[i]) = IdOf(u)
                             /\ Remembered(StoreOf(u), effects[i].run, crashes)
                      /\ \A f \in failures' :
                           ~ /\ f.store = StoreOf(u) /\ f.id = IdOf(u)
                             /\ Remembered(f.store, f.run, crashes)
    BY <1>1, <1>3 DEF ClaimsInFlightAreOpen, EffectStore, EffectId, Remembered
  <2>1. ~(StoreOf(u) = StoreOf(t) /\ IdOf(u) = IdOf(t))
    BY <1>1 DEF ClaimInv, OneClaimant
  <2> QED BY <2>1, <1>1 DEF ClaimInv, ClaimsInFlightAreOpen
<1>8. OneClaimant'
  BY <1>3 DEF ClaimInv, OneClaimant
<1>9. FailureIsFinal'
  <2> SUFFICES ASSUME NEW f \in failures', NEW i \in DOMAIN effects,
                      EffectStore(effects[i]) = f.store, EffectId(effects[i]) = f.id,
                      Remembered(f.store, f.run, effects[i].run)
               PROVE  FALSE
    BY <1>1 DEF FailureIsFinal, EffectStore, EffectId, Remembered
  <2>1. CASE f = g
    BY <2>1, <1>4 DEF Remembered
  <2>2. CASE f \in failures
    BY <2>2 DEF ClaimInv, FailureIsFinal
  <2> QED BY <2>1, <2>2, <1>1
<1> QED BY <1>5, <1>6, <1>7, <1>8, <1>9 DEF ClaimInv

\* A crash forgets the claims of a store that is not durable; what happened
\* before it is then no longer remembered there.
LEMMA CrashStep ==
  ASSUME TypeOK, ClaimInv, Crash
  PROVE  ClaimInv'
<1>1. /\ crashes' = crashes + 1 /\ crashes \in Nat
      /\ claims' = [st \in Stores |-> IF st \in Durable THEN claims[st] ELSE {}]
      /\ UNCHANGED <<effects, failures>>
  BY CrashBound DEF Crash, ClaimsAfterCrash, TypeOK, WorldTypeOK
<1>2. \A u \in Callers : call'[u].pc # "claimed"
  BY DEF Crash
<1>3. /\ \A i \in DOMAIN effects : EffectStore(effects[i]) \in Stores /\ effects[i].run # crashes'
      /\ \A f \in failures : f.store \in Stores /\ f.run # crashes'
  BY <1>1, SinksHaveStores DEF TypeOK, HistoryTypeOK, EffectStore
<1>4. EffectsAreClaimed'
  <2> SUFFICES ASSUME NEW i \in DOMAIN effects,
                      Remembered(EffectStore(effects[i]), effects[i].run, crashes')
               PROVE  EffectId(effects[i]) \in claims'[EffectStore(effects[i])]
    BY <1>1 DEF EffectsAreClaimed, EffectStore, EffectId, Remembered
  <2>1. EffectStore(effects[i]) \in Durable
    BY <1>3 DEF Remembered
  <2>2. EffectId(effects[i]) \in claims[EffectStore(effects[i])]
    BY <2>1 DEF ClaimInv, EffectsAreClaimed, Remembered
  <2> QED BY <2>1, <2>2, <1>1, <1>3
<1>5. FailuresAreClaimed'
  <2> SUFFICES ASSUME NEW f \in failures, Remembered(f.store, f.run, crashes')
               PROVE  f.id \in claims'[f.store]
    BY <1>1 DEF FailuresAreClaimed, Remembered
  <2>1. f.store \in Durable
    BY <1>3 DEF Remembered
  <2>2. f.id \in claims[f.store]
    BY <2>1 DEF ClaimInv, FailuresAreClaimed, Remembered
  <2> QED BY <2>1, <2>2, <1>1, <1>3
<1>6. ClaimsInFlightAreOpen' /\ OneClaimant'
  BY <1>2 DEF ClaimsInFlightAreOpen, OneClaimant
<1>7. AtMostOneEffect' /\ FailureIsFinal'
  BY <1>1 DEF ClaimInv, AtMostOneEffect, FailureIsFinal, EffectStore, EffectId, Remembered
<1> QED BY <1>4, <1>5, <1>6, <1>7 DEF ClaimInv

LEMMA ClaimInvInit == Init => ClaimInv
<1> SUFFICES ASSUME Init PROVE ClaimInv
  OBVIOUS
<1>1. DOMAIN effects = {} /\ failures = {} /\ \A t \in Callers : call[t].pc = "ready"
  BY DEF Init
<1> QED
  BY <1>1 DEF ClaimInv, EffectsAreClaimed, FailuresAreClaimed, ClaimsInFlightAreOpen,
              OneClaimant, AtMostOneEffect, FailureIsFinal

LEMMA ClaimInvStep == TypeOK /\ ClaimInv /\ [Next]_vars => ClaimInv'
<1> SUFFICES ASSUME TypeOK, ClaimInv, [Next]_vars PROVE ClaimInv'
  OBVIOUS
<1>1. CASE UNCHANGED vars
  BY <1>1, QuietClaimStep DEF vars, external, sinkSide
<1>2. CASE \E a \in Authorizers, c \in Candidates, cost \in Costs : Authorize(a, c, cost)
  BY <1>2, QuietClaimStep DEF Authorize, external, sinkSide
<1>3. CASE \E a \in Authorizers : AuthStep(a)
  BY <1>3, QuietClaimStep
  DEF AuthStep, Reserve, ReserveRefused, CommitEvidence, Issue, external, sinkSide
<1>4. CASE \E t \in Callers, s \in Sinks, c \in Candidates, cap \in Presentable,
              proof \in PresentableProofs : Effectuate(t, s, c, cap, proof)
  <2>1. PICK t \in Callers, s \in Sinks, c \in Candidates, cap \in Presentable,
             proof \in PresentableProofs : Effectuate(t, s, c, cap, proof)
    BY <1>4
  <2>2. /\ \/ CallGoes(t, "presented", [sink |-> s, cand |-> c, cap |-> cap, now |-> clock])
           \/ CallGoes(t, "raised", NoCall)
        /\ UNCHANGED <<crashes, claims, effects, failures>>
    BY <2>1 DEF Effectuate, external, sinkSide
  <2> QED BY <2>2, QuietCallerStep
<1>5. ASSUME NEW t \in Callers, CallStep(t)
      PROVE  ClaimInv'
  <2>1. CASE CheckEvidence(t) \/ CheckTransition(t) \/ ClaimTimesOut(t) \/ ReturnReceipt(t)
    <3>1. /\ \/ CallGoes(t, "evidenced", call[t].local)
             \/ CallGoes(t, "verified", call[t].local)
             \/ CallGoes(t, "returned", NoCall)
             \/ CallGoes(t, "raised", NoCall)
          /\ UNCHANGED <<crashes, claims, effects, failures>>
      BY <2>1 DEF CheckEvidence, CheckTransition, ClaimTimesOut, ReturnReceipt, external, sinkSide
    <3> QED BY <3>1, QuietCallerStep
  <2> QED BY <1>5, <2>1, ClaimStep, CommitEffectStep, EffectFailsStep DEF CallStep
<1>6. CASE \/ ClockMoves \/ EvidenceStoreToggles \/ DownstreamWillFail
           \/ \E key \in PresenterKeys, cap \in issued, c \in Candidates : Present(key, cap, c)
  BY <1>6, QuietClaimStep
  DEF ClockMoves, EvidenceStoreToggles, DownstreamWillFail, Present, external, sinkSide
<1>7. CASE Crash
  BY <1>7, CrashStep
<1>8. CASE \E s \in Sources, quota, budget \in Grants : Reconfigure(s, quota, budget)
  BY <1>8, QuietClaimStep DEF Reconfigure, external, sinkSide
<1> QED BY <1>1, <1>2, <1>3, <1>4, <1>5, <1>6, <1>7, <1>8 DEF Next

\* The invariant that carries single use holds of every reachable state.
THEOREM ClaimInvAlways == Spec => []ClaimInv
  BY TypeCorrect, ClaimInvInit, ClaimInvStep, PTL DEF Spec

\* Single use: no capability ever has two effects at one store, whatever the
\* number of threads, sinks, capabilities and, for a durable store, crashes
\* (FinalitySink.effectuate, sink.py; the consumption stores, state.py).
THEOREM SingleUse == Spec => []AtMostOneEffect
<1>1. ClaimInv => AtMostOneEffect
  BY DEF ClaimInv
<1> QED BY <1>1, ClaimInvAlways, PTL

\* A capability that was consumed by a failed effect stays consumed: no later
\* call turns it into an effect (the except branch of effectuate, sink.py).
THEOREM FailedStaysConsumed == Spec => []FailureIsFinal
<1>1. ClaimInv => FailureIsFinal
  BY DEF ClaimInv
<1> QED BY <1>1, ClaimInvAlways, PTL
=============================================================================
