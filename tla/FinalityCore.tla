---------------------------- MODULE FinalityCore ----------------------------
(***************************************************************************)
(* The execution-finality core: a ProtectedAuthority (authority.py) that   *)
(* turns candidate acts into capabilities, the EvidenceStore (evidence.py) *)
(* and ProtectedState (state.py) it shares with the Finality Sinks         *)
(* (sink.py), the consumption stores the sinks claim capabilities in       *)
(* (state.py), and the effector behind the sinks (effectors.py).           *)
(*                                                                         *)
(* Calls run on threads and interleave between their accesses to shared    *)
(* objects: each access, made under that object's lock, is one action, and *)
(* pc names the access a call makes next. The wall clock moves between     *)
(* steps and may be adjusted backwards. A crash ends every call and wipes  *)
(* the process's memory: only durable (SQLite) claims, what clients hold   *)
(* and what has happened outside survive it.                               *)
(***************************************************************************)
EXTENDS ProtectedState

CONSTANTS
  Authorizers,  \* threads that call authorize
  Callers,      \* threads that call effectuate
  Sinks,        \* the FinalitySink objects
  Ctx,          \* [Sinks -> configuration]
  Stores,       \* the consumption stores
  Durable,      \* the stores that are SQLite databases
  Times,        \* the clock readings considered
  Extension,    \* how far a client overstates a capability's expiry
  MaxCrashes,   \* bound on the number of crashes
  MaxProofs,    \* bound on the number of presentation proofs made
  NoCall        \* the locals of a thread that runs no call

ASSUME ClockReadings == 0 \in Times /\ Times \subseteq Int

ASSUME DurableStores == Durable \subseteq Stores

ASSUME SinksHaveStores == \A s \in Sinks : Ctx[s].store \in Stores

ASSUME CrashBound == MaxCrashes \in Nat

VARIABLES
  clock,         \* time.time_ns
  evidence,      \* EvidenceStore._records: id -> ValidationEvidence
  failCommits,   \* EvidenceStore.fail_commits
  claims,        \* store -> ids of the capabilities claimed in it
  effects,       \* the effects of the effector, in order, never undone
  failNext,      \* GuardedEffector.fail_next
  auth,          \* authorizer -> its call of authorize
  call,          \* caller -> its call of effectuate
  issued,        \* capabilities handed to clients
  proofs,        \* presentation proofs presenters have made
  live,          \* those handed out since the last crash
  receipts,      \* receipts handed to clients
  failures,      \* history: the claimed capabilities whose effect failed
  crashes        \* number of crashes so far

external == <<clock, crashes>>
protected == <<sources, nonces, transitions, evidence, failCommits>>
sinkSide == <<claims, effects, failNext, receipts, failures>>
clients == <<issued, live, proofs>>
vars == <<external, protected, sinkSide, clients, auth, call>>

Init ==
  /\ StateInit
  /\ clock = 0
  /\ evidence = Empty
  /\ failCommits = FALSE
  /\ claims = [st \in Stores |-> {}]
  /\ effects = << >>
  /\ failNext = FALSE
  /\ auth = [a \in Authorizers |-> [pc |-> "ready", local |-> NoCall]]
  /\ call = [t \in Callers |-> [pc |-> "ready", local |-> NoCall]]
  /\ issued = {} /\ live = {} /\ proofs = {}
  /\ receipts = {}
  /\ failures = {}
  /\ crashes = 0

\* A thread is free when it has made no call yet or its last call returned
\* or raised.
Free == {"ready", "returned", "raised"}

-----------------------------------------------------------------------------
(* ProtectedAuthority.authorize *)

AuthGoes(a, pc, local) == auth' = [auth EXCEPT ![a] = [pc |-> pc, local |-> local]]

\* Put the candidate to the policy at time now.
PutToPolicy(a, c, cost, now) ==
  IF Validate(c, now)
  THEN AuthGoes(a, "validated", [cand |-> c, cost |-> cost, now |-> now])
  ELSE AuthGoes(a, "raised", NoCall)

\* A call without now_ns samples the clock, once.
Authorize(a, c, cost) ==
  /\ auth[a].pc \in Free
  /\ PutToPolicy(a, c, cost, clock)
  /\ UNCHANGED <<external, protected, sinkSide, clients, call>>

\* Advance the protected state.
Reserve(a) ==
  LET l == auth[a].local IN
  /\ auth[a].pc = "validated"
  /\ TransitionForAuthorization(l.cand, l.cost)
  /\ AuthGoes(a, "reserved",
              [cand |-> l.cand, now |-> l.now,
               tid |-> NextTransition(l.cand, l.cost).transition_id])
  /\ UNCHANGED <<external, evidence, failCommits, sinkSide, clients, call>>

\* A refusal that waits for quota instead of raising.
ReserveWaits(a) ==
  /\ auth[a].pc = "validated"
  /\ Refused(auth[a].local.cand, auth[a].local.cost)
  /\ UNCHANGED vars

ReserveRefused(a) ==
  /\ auth[a].pc = "validated"
  /\ Refused(auth[a].local.cand, auth[a].local.cost)
  /\ AuthGoes(a, "raised", NoCall)
  /\ UNCHANGED <<external, protected, sinkSide, clients, call>>

\* A commit failure that is logged and otherwise ignored.
CommitEvidenceBestEffort(a) ==
  LET l == auth[a].local
      id == EvidenceId(l.cand, l.tid, l.now)
  IN
  /\ auth[a].pc = "reserved"
  /\ evidence' = IF failCommits THEN evidence
                 ELSE Put(evidence, id, Evidence(l.cand, l.tid, l.now))
  /\ AuthGoes(a, "committed", l)
  /\ UNCHANGED <<external, sources, nonces, transitions, failCommits, sinkSide,
                 clients, call>>

\* EvidenceStore.commit of the signed evidence; what Reserve did stays done
\* when it fails.
CommitEvidence(a) ==
  LET l == auth[a].local
      id == EvidenceId(l.cand, l.tid, l.now)
  IN
  /\ auth[a].pc = "reserved"
  /\ IF failCommits \/ id \in DOMAIN evidence
     THEN AuthGoes(a, "raised", NoCall) /\ UNCHANGED evidence
     ELSE /\ evidence' = Put(evidence, id, Evidence(l.cand, l.tid, l.now))
          /\ AuthGoes(a, "committed", l)
  /\ UNCHANGED <<external, sources, nonces, transitions, failCommits, sinkSide,
                 clients, call>>

\* Build and sign the capability and return it to the client.
Issue(a) ==
  LET l == auth[a].local
      cap == Capability(l.cand, l.tid, l.now)
  IN
  /\ auth[a].pc = "committed"
  /\ issued' = issued \cup {cap}
  /\ live' = live \cup {cap}
  /\ AuthGoes(a, "returned", NoCall)
  /\ UNCHANGED <<external, protected, sinkSide, proofs, call>>

-----------------------------------------------------------------------------
(* FinalitySink.effectuate *)

CallGoes(t, pc, local) == call' = [call EXCEPT ![t] = [pc |-> pc, local |-> local]]

\* What a client may present: a capability it was given, as it is or with a
\* later expiry written over the signed one.
Presentable ==
  issued \cup {[cap EXCEPT !.expires_at = @ + Extension] : cap \in issued}

\* No proof, a proof some presenter made, or one relabelled with another key.
PresentableProofs ==
  {NoProof} \cup proofs \cup
  {[p EXCEPT !.presenter_key_id = key] : p \in proofs, key \in PresenterKeys}

\* Sample the clock once for the whole call and make the checks of verify that
\* read no shared object.
Effectuate(t, s, c, cap, proof) ==
  /\ call[t].pc \in Free
  /\ IF PresentedOk(Ctx[s], c, cap, proof, clock)
     THEN CallGoes(t, "presented", [sink |-> s, cand |-> c, cap |-> cap, now |-> clock])
     ELSE CallGoes(t, "raised", NoCall)
  /\ UNCHANGED <<external, protected, sinkSide, clients, auth>>

\* verify reads the evidence record once and checks it.
CheckEvidence(t) ==
  LET l == call[t].local IN
  /\ call[t].pc = "presented"
  /\ IF /\ l.cap.evidence_id \in DOMAIN evidence
        /\ EvidenceOk(Ctx[l.sink], l.cap, evidence[l.cap.evidence_id])
     THEN CallGoes(t, "evidenced", l)
     ELSE CallGoes(t, "raised", NoCall)
  /\ UNCHANGED <<external, protected, sinkSide, clients, auth>>

\* The last check of verify.
CheckTransition(t) ==
  LET l == call[t].local IN
  /\ call[t].pc = "evidenced"
  /\ IF VerifyTransition(l.cap.transition_id, l.cand)
     THEN CallGoes(t, "verified", l)
     ELSE CallGoes(t, "raised", NoCall)
  /\ UNCHANGED <<external, protected, sinkSide, clients, auth>>

StoreOf(t) == Ctx[call[t].local.sink].store

IdOf(t) == call[t].local.cap.capability_id

NeverClaimed(st, id) == FALSE

AlreadyClaimed(st, id) == id \in claims[st]

\* Burn the capability before its effect; a replay loses here.
Claim(t) ==
  /\ call[t].pc = "verified"
  /\ IF AlreadyClaimed(StoreOf(t), IdOf(t))
     THEN CallGoes(t, "raised", NoCall) /\ UNCHANGED claims
     ELSE /\ claims' = [claims EXCEPT ![StoreOf(t)] = @ \cup {IdOf(t)}]
          /\ CallGoes(t, "claimed", call[t].local)
  /\ UNCHANGED <<external, protected, effects, failNext, receipts, failures,
                 clients, auth>>

\* A claim whose commit is reported as a failure.
ClaimTimesOutLate(t) ==
  /\ call[t].pc = "verified"
  /\ StoreOf(t) \in Durable
  /\ claims' = [claims EXCEPT ![StoreOf(t)] = @ \cup {IdOf(t)}]
  /\ CallGoes(t, "raised", NoCall)
  /\ UNCHANGED <<external, protected, effects, failNext, receipts, failures,
                 clients, auth>>

\* A database that stays locked past the busy timeout claims nothing; nor does one
\* whose INSERT or COMMIT fails. The error leaves through claim and effectuate.
ClaimTimesOut(t) ==
  /\ call[t].pc = "verified"
  /\ StoreOf(t) \in Durable
  /\ CallGoes(t, "raised", NoCall)
  /\ UNCHANGED <<external, protected, sinkSide, clients, auth>>

\* GuardedEffector._commit: the position among the effects of this run of the
\* process makes the effect's reference unique. The last three fields are
\* history.
NextEffect(l) ==
  [ candidate_digest |-> CandidateDigest(l.cand),
    ordinal          |-> Cardinality({i \in DOMAIN effects : effects[i].run = crashes}),
    run              |-> crashes,
    call             |-> l,
    at               |-> clock ]

CommitEffect(t) ==
  /\ call[t].pc = "claimed"
  /\ ~failNext
  /\ effects' = Append(effects, NextEffect(call[t].local))
  /\ CallGoes(t, "effected",
              [call |-> call[t].local, ordinal |-> NextEffect(call[t].local).ordinal])
  /\ UNCHANGED <<external, protected, claims, failNext, receipts, failures,
                 clients, auth>>

\* A downstream failure after which the same call tries again.
EffectFailsAndRetries(t) ==
  /\ call[t].pc = "claimed"
  /\ failNext
  /\ failNext' = FALSE
  /\ failures' = failures \cup {[store |-> StoreOf(t), id |-> IdOf(t), run |-> crashes]}
  /\ UNCHANGED <<external, protected, claims, effects, receipts, clients, auth, call>>

\* A downstream failure: EffectDenied, and the capability stays consumed.
EffectFails(t) ==
  /\ call[t].pc = "claimed"
  /\ failNext
  /\ failNext' = FALSE
  /\ failures' = failures \cup {[store |-> StoreOf(t), id |-> IdOf(t), run |-> crashes]}
  /\ CallGoes(t, "raised", NoCall)
  /\ UNCHANGED <<external, protected, claims, effects, receipts, clients, auth>>

\* A receipt that refers to the latest effect of the shared effector.
ReceiptOfLatest(l, ordinal) ==
  [ capability_id     |-> l.cap.capability_id,
    candidate_digest  |-> CandidateDigest(l.cand),
    sink              |-> l.sink,
    transition_id     |-> l.cap.transition_id,
    committed_at      |-> l.now,
    effect_reference  |-> <<CandidateDigest(l.cand), effects[Len(effects)].ordinal>>,
    run               |-> crashes ]

\* Sign the receipt and return it; an authenticator that only verifies raises
\* here, when the effect has already happened.
Receipt(l, ordinal) ==
  [ capability_id     |-> l.cap.capability_id,
    candidate_digest  |-> CandidateDigest(l.cand),
    sink              |-> l.sink,
    transition_id     |-> l.cap.transition_id,
    committed_at      |-> l.now,
    effect_reference  |-> <<CandidateDigest(l.cand), ordinal>>,
    run               |-> crashes ]

ReturnReceipt(t) ==
  LET l == call[t].local IN
  /\ call[t].pc = "effected"
  /\ IF Ctx[l.call.sink].signs_receipts
     THEN /\ receipts' = receipts \cup {Receipt(l.call, l.ordinal)}
          /\ CallGoes(t, "returned", NoCall)
     ELSE CallGoes(t, "raised", NoCall) /\ UNCHANGED receipts
  /\ UNCHANGED <<external, protected, claims, effects, failNext, failures,
                 clients, auth>>

-----------------------------------------------------------------------------
(* The environment *)

\* The wall clock moves, forwards or backwards.
ClockMoves ==
  /\ \E now \in Times : now # clock /\ clock' = now
  /\ UNCHANGED <<crashes, protected, sinkSide, clients, auth, call>>

\* An operator calls configure_source while calls are in progress.
Reconfigure(s, quota, budget) ==
  /\ ConfigureSource(s, quota, budget)
  /\ UNCHANGED <<external, evidence, failCommits, sinkSide, clients, auth, call>>

\* The evidence store becomes unavailable or available again.
EvidenceStoreToggles ==
  /\ failCommits' = ~failCommits
  /\ UNCHANGED <<external, sources, nonces, transitions, evidence, sinkSide,
                 clients, auth, call>>

\* The next effect is going to fail downstream.
DownstreamWillFail ==
  /\ ~failNext
  /\ failNext' = TRUE
  /\ UNCHANGED <<external, protected, claims, effects, receipts, failures,
                 clients, auth, call>>

\* Presenter.prove, for whatever capability and candidate the presenter holds.
Present(key, cap, c) ==
  /\ Cardinality(proofs) < MaxProofs
  /\ proofs' = proofs \cup {Prove(key, cap, c, clock)}
  /\ UNCHANGED <<external, protected, sinkSide, issued, live, auth, call>>

ClaimsForgotten == [st \in Stores |-> {}]

\* What the stores still hold when the process is started again.
ClaimsAfterCrash == [st \in Stores |-> IF st \in Durable THEN claims[st] ELSE {}]

\* The process dies and is started again.
Crash ==
  /\ crashes < MaxCrashes
  /\ crashes' = crashes + 1
  /\ sources' = [s \in Sources |-> DefaultSource]
  /\ nonces' = Empty
  /\ transitions' = Empty
  /\ evidence' = Empty
  /\ failCommits' = FALSE
  /\ claims' = ClaimsAfterCrash
  /\ failNext' = FALSE
  /\ auth' = [a \in Authorizers |-> [pc |-> "ready", local |-> NoCall]]
  /\ call' = [t \in Callers |-> [pc |-> "ready", local |-> NoCall]]
  /\ live' = {}
  /\ UNCHANGED <<clock, effects, receipts, failures, issued, proofs>>

-----------------------------------------------------------------------------

AuthStep(a) == Reserve(a) \/ ReserveRefused(a) \/ CommitEvidence(a) \/ Issue(a)

CallStep(t) ==
  \/ CheckEvidence(t) \/ CheckTransition(t) \/ Claim(t) \/ ClaimTimesOut(t)
  \/ CommitEffect(t) \/ EffectFails(t) \/ ReturnReceipt(t)

Next ==
  \/ \E a \in Authorizers, c \in Candidates, cost \in Costs : Authorize(a, c, cost)
  \/ \E a \in Authorizers : AuthStep(a)
  \/ \E t \in Callers, s \in Sinks, c \in Candidates, cap \in Presentable, proof \in PresentableProofs :
       Effectuate(t, s, c, cap, proof)
  \/ \E t \in Callers : CallStep(t)
  \/ \E key \in PresenterKeys, cap \in issued, c \in Candidates : Present(key, cap, c)
  \/ \E s \in Sources, quota, budget \in Grants : Reconfigure(s, quota, budget)
  \/ ClockMoves
  \/ EvidenceStoreToggles
  \/ DownstreamWillFail
  \/ Crash

Spec == Init /\ [][Next]_vars

\* A thread inside a call keeps running; clients, the clock, failures and
\* crashes are under no obligation.
FairSpec ==
  /\ Spec
  /\ \A a \in Authorizers : WF_vars(AuthStep(a))
  /\ \A t \in Callers : WF_vars(CallStep(t))
-----------------------------------------------------------------------------
(* What must hold *)

EffectStore(e) == Ctx[e.call.sink].store

EffectId(e) == e.call.cap.capability_id

\* Two moments the store st remembers claims between.
Remembered(st, run1, run2) == st \in Durable \/ run1 = run2

\* What a thread's locals are at each place of its call.
AuthLocalOK(pc, local) ==
  \/ pc \in Free /\ local = NoCall
  \/ /\ pc = "validated"
     /\ local.cand \in Candidates /\ local.cost \in Costs /\ local.now \in Times
  \/ pc \in {"reserved", "committed"} /\ local.cand \in Candidates /\ local.now \in Times

CallLocalOK(pc, local) ==
  \/ pc \in Free /\ local = NoCall
  \/ /\ pc \in {"presented", "evidenced", "verified", "claimed"}
     /\ local.sink \in Sinks /\ local.cand \in Candidates /\ local.now \in Times
  \/ pc = "effected" /\ local.call.sink \in Sinks /\ local.call.now \in Times

AuthTypeOK ==
  /\ DOMAIN auth = Authorizers
  /\ \A a \in Authorizers : AuthLocalOK(auth[a].pc, auth[a].local)

CallTypeOK ==
  /\ DOMAIN call = Callers
  /\ \A t \in Callers : CallLocalOK(call[t].pc, call[t].local)

WorldTypeOK ==
  /\ clock \in Times
  /\ crashes \in 0 .. MaxCrashes
  /\ failCommits \in BOOLEAN /\ failNext \in BOOLEAN
  /\ DOMAIN claims = Stores
  /\ live \subseteq issued

HistoryTypeOK ==
  /\ effects \in Seq({effects[i] : i \in DOMAIN effects})
  /\ \A i \in DOMAIN effects :
       effects[i].call.sink \in Sinks /\ effects[i].run \in 0 .. crashes
  /\ \A f \in failures : f.store \in Stores /\ f.run \in 0 .. crashes

\* No source is overdrawn; the control state of every thread, the claims and
\* the histories are of the kind the code gives them.
TypeOK == StateTypeOK /\ AuthTypeOK /\ CallTypeOK /\ WorldTypeOK /\ HistoryTypeOK

\* At most one external effect per capability and store, however many threads
\* and sinks present it at once and, when the store is durable, across crashes
\* (I-6, and the races of tests/test_concurrency.py).
AtMostOneEffect ==
  \A i, j \in DOMAIN effects :
    /\ EffectStore(effects[i]) = EffectStore(effects[j])
    /\ EffectId(effects[i]) = EffectId(effects[j])
    /\ Remembered(EffectStore(effects[i]), effects[i].run, effects[j].run)
    => i = j

\* A capability whose effect failed downstream never has an effect, before or
\* after, on whichever thread or sink it is tried again.
FailureIsFinal ==
  \A f \in failures : \A i \in DOMAIN effects :
    ~ /\ EffectStore(effects[i]) = f.store
      /\ EffectId(effects[i]) = f.id
      /\ Remembered(f.store, f.run, effects[i].run)

\* Why that holds: every effect and every failure a store remembers has its
\* claim; a call between its claim and its effect holds a claim that has had
\* neither; and no two calls hold the same claim.
EffectsAreClaimed ==
  \A i \in DOMAIN effects :
    Remembered(EffectStore(effects[i]), effects[i].run, crashes) =>
      EffectId(effects[i]) \in claims[EffectStore(effects[i])]

FailuresAreClaimed ==
  \A f \in failures : Remembered(f.store, f.run, crashes) => f.id \in claims[f.store]

ClaimsInFlightAreOpen ==
  \A t \in Callers :
    call[t].pc = "claimed" =>
      /\ IdOf(t) \in claims[StoreOf(t)]
      /\ \A i \in DOMAIN effects :
           ~ /\ EffectStore(effects[i]) = StoreOf(t)
             /\ EffectId(effects[i]) = IdOf(t)
             /\ Remembered(StoreOf(t), effects[i].run, crashes)
      /\ \A f \in failures :
           ~ (f.store = StoreOf(t) /\ f.id = IdOf(t) /\ Remembered(f.store, f.run, crashes))

OneClaimant ==
  \A t, u \in Callers :
    /\ call[t].pc = "claimed" /\ call[u].pc = "claimed"
    /\ StoreOf(t) = StoreOf(u) /\ IdOf(t) = IdOf(u)
    => t = u

\* The inductive invariant behind AtMostOneEffect and FailureIsFinal.
ClaimInv ==
  /\ EffectsAreClaimed /\ FailuresAreClaimed
  /\ ClaimsInFlightAreOpen /\ OneClaimant
  /\ AtMostOneEffect /\ FailureIsFinal

\* Whatever takes effect is the exact act a capability was issued for, unaltered
\* and at the intended sink, within the window the sink sampled; and the policy
\* had accepted that act when the capability was issued (I-2, I-3).
OnlyAuthorisedActsTakeEffect ==
  \A i \in DOMAIN effects :
    LET l == effects[i].call IN
    /\ l.cap \in issued
    /\ l.cap.candidate_digest = effects[i].candidate_digest
    /\ l.cap.nonce = Act[l.cand].nonce
    /\ l.cap.sink_id = Ctx[l.sink].sink_id
    /\ l.now <= l.cap.expires_at
    /\ \E c \in Candidates :
         CandidateDigest(c) = CandidateDigest(l.cand) /\ Validate(c, l.cap.issued_at)

\* A capability in a client's hands is backed by committed evidence and by the
\* reservation of its nonce, and no two capabilities share a reservation, even
\* when authorizers race for the nonce (I-4, I-5).
CapabilitiesAreBacked ==
  /\ \A cap \in live :
       /\ cap.evidence_id \in DOMAIN evidence
       /\ evidence[cap.evidence_id].transition_id = cap.transition_id
       /\ cap.nonce \in DOMAIN nonces
       /\ nonces[cap.nonce] = cap.transition_id
  /\ \A a, b \in live : a.nonce = b.nonce => a = b

\* Between two crashes no source that is never reconfigured has more effects at
\* one store than its quota admitted, whichever authorizations raced and
\* whichever calls failed, where nonces are spelled once (below).
EffectsWithinQuota ==
  Grants = {} /\ NoncesAreSpelledOnce =>
    \A s \in Sources, st \in Stores :
      Cardinality({i \in DOMAIN effects :
                     /\ effects[i].run = crashes
                     /\ EffectStore(effects[i]) = st
                     /\ Act[effects[i].call.cand].source = s}) <= DefaultQuota

\* Between two crashes one nonce gives at most one effect per store, whichever
\* acts carry it: a rival act, a respelled source, a second capability for the
\* same act or a reconfigured source do not bring it to a second one. A capability
\* kept from before a crash does, when the restarted authority authorises both
\* the same act and a spelling of it with another nonce: the evidence of either is
\* then evidence for capabilities of the other.
OneEffectPerNonce ==
  \A i, j \in DOMAIN effects :
    /\ effects[i].run = 0 \/ NoncesAreSpelledOnce
    /\ effects[i].run = effects[j].run
    /\ EffectStore(effects[i]) = EffectStore(effects[j])
    /\ Act[effects[i].call.cand].nonce = Act[effects[j].call.cand].nonce
    => i = j

\* A receipt's reference leads to exactly one effect, which is the effect of
\* the capability and act the receipt names, although other effects may have
\* happened between the effect and its receipt.
ReceiptsNameTheirEffect ==
  \A r \in receipts :
    LET referenced == {i \in DOMAIN effects :
                         /\ effects[i].run = r.run
                         /\ <<effects[i].candidate_digest, effects[i].ordinal>>
                              = r.effect_reference}
    IN /\ Cardinality(referenced) = 1
       /\ \A i \in referenced :
            /\ EffectId(effects[i]) = r.capability_id
            /\ effects[i].candidate_digest = r.candidate_digest

\* At a sink of the strict profile nothing takes effect unless the presenter the
\* act itself names has proved possession for that very capability, close to
\* the time the sink sampled: holding the capability and the act is not enough
\* (I-8).
StrictSinksNeedThePresenter ==
  \A i \in DOMAIN effects :
    LET l == effects[i].call IN
    Ctx[l.sink].require_proof =>
      \E p \in proofs :
        /\ NamesPresenter(l.cand, p.signature.by)
        /\ p.capability_id = EffectId(effects[i])
        /\ Distance(l.now, p.presented_at) <= Ctx[l.sink].presentation_freshness

\* Every call of authorize and effectuate returns or raises.
CallsEnd ==
  /\ \A a \in Authorizers : auth[a].pc \notin Free ~> auth[a].pc \in Free
  /\ \A t \in Callers : call[t].pc \notin Free ~> call[t].pc \in Free

\* Without crashes no capability stays claimed with nothing to show for it: in
\* the end each one has had its effect or its failure.
ClaimsAreSettled ==
  <>[] \A st \in Stores : \A id \in claims[st] :
        \/ \E f \in failures : f.store = st /\ f.id = id
        \/ \E i \in DOMAIN effects : EffectStore(effects[i]) = st /\ EffectId(effects[i]) = id

\* What ARCHITECTURE.md says of a stale capability (I-7): it produces no effect.
NoStaleEffect ==
  \A i \in DOMAIN effects : effects[i].at <= effects[i].call.cap.expires_at
=============================================================================
