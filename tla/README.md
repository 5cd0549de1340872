# Execution finality, specified in TLA+

This directory specifies the reference implementation of *execution finality*:
an untrusted compute plane proposes candidate acts, a protected authority turns
an acceptable one into a signed single-use capability, and a Finality Sink lets
an external effect happen only when it has verified and consumed that
capability. The repository's short form of it: no valid authority, no protected
external effect. The modules are translated from the Python packages
`src/src/finality_ref` and `src/src/sovereignty_ref`, and from the portable
verifiers and canonicalisers in Go and Node (`src/go`, `src/node`).

    tlc -workers 2 -config MCCoreRace.cfg MCFinalityCore     (one run)
    tlapm FinalityCoreProofs.tla                             (one proof)

## 1. Inventory

| Component | State | Operations | Hard behaviour |
|---|---|---|---|
| `ProtectedState` (`state.py`) | `_sources` (version, quota, budget per source), `_nonces`, `_transitions`, one `RLock` | `configure_source`, `transition_for_authorization`, `verify_transition`, `source_state` | authorizations race for a nonce and for the last unit of quota; a reconfiguration resets versions while transitions are outstanding |
| `Policy` (`policy.py`) | none | `validate` | inclusive and exclusive time bounds |
| `EvidenceStore` (`evidence.py`) | `_records`, `fail_commits`, lock | `commit`, `get`, `replace_for_adversarial_test` | a commit can fail when the state has already been advanced |
| `ProtectedAuthority` (`authority.py`) | none of its own; shares the two stores with the sinks | `authorize` | four accesses to shared objects, not one transaction; one clock sample |
| `FinalitySink` (`sink.py`) | none of its own | `verify`, `effectuate` | verification, claim, effect and receipt are separate accesses; one clock sample for all of them; partial failure after the claim and after the effect |
| consumption stores (`state.py`) | `_claims`, or an SQLite table | `claim`, `is_claimed` | concurrent claims from threads, sinks and processes; lock time-outs; crash during the transaction |
| `GuardedEffector` (`effectors.py`) | `_records`, `fail_next`, lock | `bind_for_sink`, `_commit`, `direct_effect` | a downstream failure; effects of other sinks between an effect and its receipt |
| presenters (`pop.py`) | registry of enrolled keys | `Presenter.prove`, `PresenterVerifierRegistry.verify` | proofs relabelled, replayed or old |
| data model, authenticators (`models.py`, `crypto.py`) | none | digests, `build_hcad`, `sign`, `verify` | raw strings are compared in one place and NFC forms in another |
| canonicalisation (`canonical.py`, `canonical.go`, `canonical.mjs`) | none | `canonical_bytes`, `portable_canonical_bytes`, `Canonical`, `canonical` | keys that collide once normalised; code-point, UTF-16 and enumeration order; numbers at the edge of doubles and in several spellings |
| sovereignty policy (`sovereignty_ref/policy.py`, `models.py`) | none | `validate`, digests of evidence and approvals | counting independent issuers and distinct approvers in the presence of duplicates |
| authority plane (`authority_plane.py`, `verification.py`, `compute_plane.py`) | `last_decision` | `authorize`, `bind_governance_context`, `effectuate` of the compute plane (always refused) | one mutable decision shared by concurrent calls; inputs judged at issuance, not at the sink |
| portable verifiers (`finalityverify/main.go`, `finality_verify.mjs`, cases from `generate_finality_case.py`) | none | one offline verdict on a case file | no protected state at hand: only comparisons between the parts of a case tell that they belong together |
| `DeploymentManifest` (`surface.py`) | none | `audit`, `assert_complete` | every channel that can cause the effect has to be behind a sink |

How they interact. Authority and sinks call the protected state, the evidence
store, the consumption store and the effector directly, each behind a lock of
its own; nothing spans two of those locks. Clients carry capabilities and
presentation proofs from the authority to the sinks and may alter them on the
way. The authority plane calls the protected authority with the clock reading
it has judged the governance inputs at. A process may die at any point; only
SQLite claims outlive it.

What has to hold: single use of a capability under every race, failure and
crash; that what takes effect is the exact act that was authorised; that a
capability never exists without its evidence and reservation; that quotas and
budgets are never overdrawn; that receipts tell the truth; that calls end and
claims are settled; and, for the strict sink profile, that only the named
presenter can bring an act to effect. Across languages: one document, one
verdict and one text, two acts with one digest only when they say the same; and
a portable verifier takes exactly what an authorization and its sink would.

## 2. Modules

| Module | Models | Uses |
|---|---|---|
| `FinalityData` | pure data: candidates, digests, signatures, `Policy.validate`, evidence, capability, what a sink checks of its arguments | |
| `ProtectedState` | `ProtectedState`: one action per mutating method, each atomic under the `RLock` | `FinalityData` |
| `FinalityCore` | authority, evidence store, sinks, effector, presenters, environment, crashes | `ProtectedState` |
| `ExecutionFinality` | abstract: an act is authorised, consumed once, and then effective, failed or neither | |
| `FinalityCoreRefinement` | the refinement mapping from `FinalityCore` to it | `FinalityCore`, `ExecutionFinality` |
| `ConsumptionStore` | `SQLiteConsumptionStore`: each step of the transactions of many processes | `SingleUseStore` |
| `SingleUseStore` | abstract: the atomic claim | |
| `Governance` | pure data: compute contexts, evidence, approvals, their digests and binding, `SovereigntyPolicy.validate` | `FinalityData` |
| `AuthorityPlane` | `AuthorityPlane.authorize` in front of the core | `FinalityCore`, `Governance` |
| `CanonicalJson` | a client that writes documents from their members up; the canonical text of a document in Python, Go and Node, and what each of them rejects | |
| `PortableVerifier` | authorities that export cases, restarts, mixed and altered cases, the verdicts in Go and Node | `ProtectedState` |
| `ProtectedStateProofs`, `ConsumptionStoreProofs`, `CanonicalJsonProofs`, `PortableVerifierProofs` | theorems | the module each is named for |
| `FinalityCoreProofs` | theorems: types and single use | `FinalityCore` |
| `FinalityCoreSafetyProofs` | theorems: authorizations, effects and receipts | `FinalityCoreProofs`, `ProtectedStateProofs` |
| `FinalityCoreRefinementProofs` | theorems: the refinement | `FinalityCoreRefinement` |
| `AuthorityPlaneProofs` | theorems: governance, and the core and its refinement behind the plane | `AuthorityPlane`, `FinalityCoreSafetyProofs`, `FinalityCoreRefinementProofs` |
| `MCActs`, `MC*` | instances for TLC | |

**Names.** Actions and operators carry the names of the methods and variables
they stand for (`Authorize`, `TransitionForAuthorization`, `CommitEvidence`,
`Claim`, `_sources` as `sources`). A definition whose name ends in how the code
could have been written wrongly (`RefusedIgnoringNonce`, `NeverClaimed`,
`InsertOrIgnore`, ...) stands before the one it varies; replacing one by the
other makes a property fail, which shows that the property depends on the code.

**Steps.** Python code between two accesses to a shared object cannot be told
apart from one step, so an action is one such access with all of the local work
up to the next one, and `pc` names the access that comes next:

- `authorize`: *validated* (policy, clock read) - *reserved* (`Reserve` or
  `ReserveRefused`, under the state's lock) - *committed* (`CommitEvidence`,
  under the evidence store's lock) - *returned* (`Issue`).
- `effectuate`: *presented* (clock read and all checks of the arguments) -
  *evidenced* (`CheckEvidence`) - *verified* (`CheckTransition`) - *claimed*
  (`Claim`, `ClaimTimesOut`) - *effected* (`CommitEffect`, `EffectFails`) -
  *returned* (`ReturnReceipt`). `verify` makes every check of its arguments
  before it reads shared state, and every failure raises, so their order is not
  kept.
- `claim` of the SQLite store: *connected* - *begun* - *inserted* or
  *conflict* - *committed* or *refused* - closed. A BEGIN that times out, an
  INSERT or a COMMIT that fails leads to *raised*, and from there to the same
  `Close`, which rolls back and gives up the write lock.
- `AuthorityPlane.authorize`: `Judge` (clock, signatures, verdict) - `Decide`
  (publish `last_decision`, compare the binding, delegate with the time judged
  at).

**Environment.** The wall clock moves among the readings in `Times`, forwards
and backwards, as `time.time_ns` may. Clients present any capability they were
given with any act at any sink, or one whose expiry they have overwritten.
Evidence commits and downstream effects may be made to fail. A crash wipes
everything but durable claims, what clients hold and what has happened outside. An administrator may reconfigure any source at any
moment (`Reconfigure`).

**Abstractions.**
- A hash is what it identifies: two digests are equal exactly when the
  canonical forms are. Nonce, source and epoch are part of a candidate's
  digest, so `TransitionId` and `CapabilityId` leave out what that digest
  already fixes. A sorted list of digests is the bag of them.
- NFC is the constant `Nfc`; in the instances a trailing `~` marks the
  decomposed spelling. Records keep raw spellings and only digests and
  signatures normalise, as in the code. The protocol modules consider acts
  `canonical_bytes` accepts; what it and the other two canonicalisers reject is
  `CanonicalJson`'s subject. There `Canonical` of the protocol modules, equality
  up to spelling, is justified: `DigestsIdentify` checks that equal texts are
  exactly equal meanings.
- In `CanonicalJson` a document is what a client writes, with the spelling of
  each number and the order of the keys; its text is the tree it spells, as
  brackets and escapes make it unambiguous. Parsing is part of each language's
  operator: Go's decoder replaces a lone surrogate before the canonicaliser sees
  it, and `JSON.parse` gives Node one number for `7`, for `7.0` (the form
  *decimal*) and for a fraction that rounds to it (*rounded*). The implementations recurse: the
  call on a list or a map uses the results of the calls on its members and
  nothing else of them. A document therefore holds its members' `Part`s, the
  records of those results, and documents are written from their members up
  (`Finish` makes the document at hand a member of later ones). No operator is
  recursive; the depth of a document is the number of steps that made it.
- In `PortableVerifier` whoever hands on a case may exchange its parts with
  those of other exported cases and overwrite fields with fields of theirs. A
  received part has a given identifier exactly when it is, in canonical form,
  the material that identifier was made of. A payload enters a descriptor as its
  digest (`PayloadDigest`), so a respelled payload has the descriptor of the
  original. The real `time.time_ns` lies outside
  the portable range of numbers: `Hashable` makes both verifiers refuse such a
  case, and `OfflineFollowsSink` is stated for portable ones, as the vectors
  (which start at 1.7e15) are.
- A signature names its key and the canonical form it was made over, and cannot
  be made without the key.
- `now_ns` arguments are used by the authority plane only; other callers let
  the authority and the sinks read the clock.
- `effects[i].run`, `.call` and `.at`, `failures`, `live`, `issued`,
  `receipts` and `granted` are history: no action's guard depends on them,
  except that clients present members of `issued`.

## 3. Runs

| Run | Instance | Shows |
|---|---|---|
| `state_ledger` | 6 candidates, two pairs of which share a nonce up to or despite its spelling, 2 sources, costs 0 to 2, reconfiguration to 0 or 2 | quota and budget never overdrawn (`StateTypeOK`); both indexes agree; a reservation keeps verifying whatever happens to its source |
| `core_race` | 2 acts, 2 threads, 2 sinks on 1 store, one of them unable to sign receipts | `ClaimInv`, the inductive invariant of the proof; receipts refer to the effect of their own capability although effects of other calls come between; the ledger of a source is an unbroken chain |
| `core_time` | clock 0, 1, 2; an act, an altered and a respelled one, all with one nonce; overstated expiries; reconfiguration | `TypeOK`; only the exact authorised act takes effect, within the sampled window; one effect per nonce, whatever happens to the source |
| `core_crash` | 2 authorizers, 3 acts, 2 of them with one nonce, quota for 1, evidence store failing, 1 crash, durable store | no second effect for a capability issued again after a restart; one effect per nonce; failures stay final; the last unit is spent once; a capability in a client's hands has its evidence and a reservation of its own; refinement of `ExecutionFinality` |
| `core_live` | 2 threads, 1 authorizer, 1 act at a strict sink with freshness 0, clock 0, 1, 2 presenters, 1 proof, no crash | only the presenter the act names can bring it to effect; every call ends; every claim comes to its effect or failure |
| `core_stale` | clock 0, 1, 2 | *violated*: see section 6 |
| `store` | 3 threads of 2 processes, 2 ids, failing statements, 1 death | `StoreInv`, which includes one grant per id; committed rows stay; refinement of `SingleUseStore`; the write lock is always given up |
| `plane` | 1 client; 7 acts, one of them respelled; 2 compute contexts, one of a provider the policy refuses; 5 evidence and 4 approval bundles, with forged signatures and a genuine item of an issuer nobody trusts among them; 1 crash | whatever takes effect was approved for what it is (`EffectsAreApproved`), evidenced by trusted independent issuers (`EffectsAreEvidenced`) and proposed by a compute context the policy allows (`EffectsNameAllowedCompute`), up to spelling; neither the order of a bundle nor its binding changes the verdict; the governed system as a whole refines `ExecutionFinality` |
| `canonical` | a document at hand and at most one finished one: up to 2 keys or members, nested once; 8 keys in two spellings, on both sides of the point where UTF-8 and UTF-16 order differ, like array indexes, with a lone surrogate; integers at and beyond the edge; `-0`, and floats that `JSON.parse` makes integers | Python accepts exactly the portable profile, Go and Node all of it and beyond it only what their parsers have changed; they give a document of the profile the same text; the texts of two documents are equal exactly when their meanings are |
| `canonical_numbers` | the same documents | *violated*: see section 6 |
| `portable` | 2 lives of an authority, 2 authorizations in all; 5 acts, 3 of them respellings of the first; 3 sink contexts, 2 of them spellings of one; 2 exchanges or alterations | the capability and transition of a case that Go or Node accepts are of one authorization of the canonically same act, which its sink would have taken; its evidence is of the same act and transition, and of the same authorization within one life; they accept whatever the sink takes |
| `portable_evidence` | the same | *violated*: see section 6 |

**Why these bounds.** Each property is violated by a fault that needs at most
two of something: two calls on one capability, two authorizers on one nonce or
unit, a run before and a run after a crash, two bundles with one digest. The
instances have two of that thing and one of what the property does not look at;
`store` has a third thread so that a waiter can be in the process that dies or
in the other one. One crash separates a capability from its re-issue; a second
one meets the same claims in the store, and the theorems hold for any number.
Clock readings 0, 1, 2 lie before, at and after the only deadline (time to live
1, freshness 2); the plane's 0 and 2 lie within and after every window. One presentation proof is
enough in `core_live`: it may be foreign, relabelled or outdated, and
each of these is wrong by itself. Expiries are
overstated (`Extension`) in the runs of the core and not again in `plane`, whose
state constraint `NothingFails` also leaves failing stores and channels to them.
`MaxCrashes`, `MaxRestarts`, `MaxExports`, `MaxChanges`, `MaxProofs`, the readings `Times`, the sets of
acts, bundles, leaves and keys, and `Considered`, which keeps documents small in
`canonical`, are the only bounds: calls may be repeated without
limit, and the state space is finite because a nonce is reserved once between
two crashes. The theorems below hold without any of these bounds. In `portable` the two
exports are of one life (different costs or acts, hence different transitions) or
of two (one act, one transition, different evidence); one change exchanges a part
and the second hides it. In `canonical` every way in which the three
languages treat a value differently depends on one value or on two keys of one
map, and nesting once shows that a verdict passes through a list and a map; the
theorems cover every depth. The
safe integers are scaled down to -2 .. 2, so that the edge, the first integer
beyond it and one more are among the documents.

`SYMMETRY` permutes threads where only invariants or the refinement are checked,
neither of which names a thread. The `VIEW` of `plane` leaves out
`last_decision`, which no action and no invariant reads.
Deadlock is checked in every run but the two of `CanonicalJson`, whose client
stops at the bound `Considered`.

**Fairness.** Weak fairness is assumed of the steps inside a running call of
`authorize` and `effectuate` (`AuthStep`, `CallStep`) and of `claim` (`Step`):
these run on operating-system threads, and none waits for anything but a lock
that is held for a bounded time, or for SQLite's busy time-out. New calls,
clock movements, failures and crashes are under no obligation. `core_live` and
the liveness part of `store` need no strong fairness: a claim that keeps losing
the write lock times out, which is always enabled while the lock is taken.

## 4. Proofs

Every invariant and action property that a passing run checks is a theorem here,
and so are the refinements; only liveness is left to TLC. `GrantedOnce`, a part
of `StoreInv`, has a theorem of its own and no run.

| Theorem | Statement |
|---|---|
| `ProtectedStateProofs!StateTypeCorrect`, `IndexesAgree`, `LedgerIsAlwaysAChain` | `StateSpec => []StateTypeOK`, `[]ReservationsAndTransitionsAgree`, `[]LedgerIsAChain` |
| `ProtectedStateProofs!VerificationIsAlwaysStable` | `StateSpec => VerificationIsStable` |
| `FinalityCoreProofs!TypeCorrect` | `Spec => []TypeOK`; in particular no quota or budget is overdrawn |
| `FinalityCoreProofs!ClaimInvAlways`, `SingleUse`, `FailedStaysConsumed` | `Spec => []ClaimInv`, `[]AtMostOneEffect`, `[]FailureIsFinal` |
| `FinalityCoreSafetyProofs!LedgerIsAChainInCore`, `IssuedMeansBacked` | `Spec => []LedgerIsAChain`, `[]CapabilitiesAreBacked` |
| `FinalityCoreSafetyProofs!OnlyAuthorisedActs`, `StrictSinksAreStrict` | `Spec => []OnlyAuthorisedActsTakeEffect`, `[]StrictSinksNeedThePresenter` |
| `FinalityCoreSafetyProofs!NoncesAreUsedOnce`, `EffectsStayWithinQuota` | `Spec => []OneEffectPerNonce`, `[]EffectsWithinQuota` |
| `FinalityCoreSafetyProofs!ReceiptsAreTrue` | `Spec => []ReceiptsNameTheirEffect` |
| `FinalityCoreRefinementProofs!CoreRefines` | `Spec => ImplementsExecutionFinality`, assuming `Durable = Stores` |
| `ConsumptionStoreProofs!StoreInvAlways`, `GrantedOnceAlways`, `RowsNeverLost` | `Spec => []StoreInv`, `[]GrantedOnce`, `RowsAreKept` |
| `ConsumptionStoreProofs!StoreRefines` | `Spec => ImplementsSingleUseStore` |
| `AuthorityPlaneProofs!EffectsAreAlwaysApproved`, `EffectsAreAlwaysEvidenced`, `EffectsAlwaysNameAllowedCompute` | `PlaneSpec => []EffectsAreApproved`, `[]EffectsAreEvidenced`, `[]EffectsNameAllowedCompute` |
| `AuthorityPlaneProofs!VerdictAlwaysForgetsOrder`, `BindingAlwaysKeepsVerdict` | `PlaneSpec => []VerdictForgetsOrder`, `[]BindingKeepsVerdict` |
| `AuthorityPlaneProofs!PlaneKeepsPromises` | `PlaneSpec => []` each of `AtMostOneEffect`, `FailureIsFinal`, `OneEffectPerNonce`, `EffectsWithinQuota`, `CapabilitiesAreBacked`, `LedgerIsAChain`, `OnlyAuthorisedActsTakeEffect`, `StrictSinksNeedThePresenter`, `ReceiptsNameTheirEffect` |
| `AuthorityPlaneProofs!PlaneRefines` | `PlaneSpec => ImplementsExecutionFinality`, assuming `Durable = Stores` |
| `CanonicalJsonProofs!CanonInvHolds` | `Spec => []CanonInv` |
| `CanonicalJsonProofs!VerdictIsTheProfileHolds`, `LanguagesAgreeHolds`, `DigestsIdentifyHolds` | `Spec => []VerdictIsTheProfile`, `[]LanguagesAgree`, `[]DigestsIdentify` |
| `PortableVerifierProofs!OneLifeInvAlways` | `Spec => []OneLifeInv` |
| `PortableVerifierProofs!OfflineIsAlwaysSound`, `OfflineAlwaysFollowsSink` | `Spec => []OfflineIsSound`, `[]OfflineFollowsSink` |

**Assumptions.** The theorems hold for every value of the constants that meets
the named assumptions of the modules, all of which say what kind of value a
constant is: acts are records of `CandidateAct`'s fields with integer times
(`CandidatesAreRecords`), times to live, costs, clock readings, grants and the
approval threshold are numbers, the sources of acts are known, sinks are
configured with stores, bundles are sequences (`BundlesAreSequences`, tuples in
the code), a case's sink context asks for no presentation proof
(`ContextsAreBasic`: the exported `sink_context` has no such member).
`GrantsAreNumbers` leaves out negative quotas and budgets, which
`configure_source` accepts: every authorization of such a source is refused. In
`CanonicalJson` a string is its code points (`StringsAreCodePoints`: two strings
with the same ones are one string, which is what a string is in all three
languages), an array index is written in one way (`IndexesAreCanonical`, as in
ECMAScript), the leaves are documents without members (`LeavesHaveNoMembers`) and
the safe range has a natural bound (`SafeRange`). `Nfc` is any operator at all,
in `CanonicalJson` any from strings to strings: nothing rests on what
normalisation does, only on where the code applies it. TLC evaluates each assumption on the instances.

*The protected state.* `StateInv` says of every transition that it is filed
under the identifier its record was made of and starts from a possible state of
its source (`TransitionsAreDerived`), that each nonce leads to a transition of
its own, and, for sources that are not reconfigured, that version and remaining
quota add up (`QuotaIsCounted`). `ReservationsAndTransitionsAgree` alone is not
inductive: a new record may replace an old one under the same key, and only
`TransitionsAreDerived` says that the old one then had the same digest.
`LedgerIsAChain` is inductive with these: a new transition starts where its
source stands, which is what its predecessor left.

*Authorizations.* `CapabilitiesAreBacked` says nothing of an authorizer between
its steps. `AuthorityInv` follows it: accepted by the policy at the sampled time
(`AcceptedInFlight`), owner of its nonce from the reservation to the issue
(`ReservedInFlight`), filed in the evidence store after the commit
(`CommittedInFlight`). A failed commit ends a call and leaves the rest true,
which is the point of the order in `authorize`. `IssuedAreDerived` says what a
capability must say, since clients can alter an expiry but cannot sign it.

*Single use.* `AtMostOneEffect` is not inductive: nothing in it stops a call
that already holds a claim from having a second effect. `ClaimInv` adds that
every effect and every failure a store still remembers has its claim
(`EffectsAreClaimed`, `FailuresAreClaimed`), that a call between claim and
effect holds a claim that has had neither (`ClaimsInFlightAreOpen`), and that no
two calls hold the same one (`OneClaimant`). `Claim` keeps `OneClaimant`
because it tests and inserts in one step; `CommitEffect` and `EffectFails` use
it to show that the claim they leave is nobody else's; a crash ends all calls,
and keeps `EffectsAreClaimed` for durable stores because their claims survive
and for others because `Remembered` then speaks of the new run only. `TypeOK`
bounds the run of every effect by `crashes`, which that last case needs, and is
proved first.

*Effects.* `CustodyInv` says that what a call has checked still holds at each of
its later steps: the capability is an issued one and in its window at the
sampled time, a strict sink has seen a presenter's proof (`Held`), the evidence
is still in the store (`Evidenced`), the transition still verifies (`Reserved`);
and that every effect has held all of it. This is what makes the separate
accesses of `effectuate` safe, and it needs that nothing is withdrawn between
two crashes: `SharedGrows`, which is `VerificationIsStable` for acts whose
nonces are spelled once. `ProofsAreMade` ties a verifying proof to a presenter.
`OneEffectPerNonce` follows from `ClaimInv`, `CustodyInv` and the index by
nonce: two effects with one nonce have one transition, one evidence record and
therefore one capability identity, which is used once. `EffectsWithinQuota`
counts: effects of a source map injectively to transitions of its chain.

*Receipts.* The code's effect reference is the position among the effects of the
sink's effector, and a receipt is returned after other effects may have been
appended. `ReceiptInv` says that positions of one run are below their number,
never repeat, and that a call about to return knows the position of an effect of
its own.

*The life of an act.* `CoreRefines` maps `Issue` to the abstract authorisation,
`Claim` to consumption, `CommitEffect` and `EffectFails` to the two outcomes and
every other step, crashes included, to a stutter. Consumption needs the identity
to be authorised: `IdInv` says that a call that has not claimed yet holds the
identity of an issued capability, since clients can alter an expiry but not an
identity. The outcomes need `ClaimedPairIsOpen`, which `ClaimInv` gives when no
store forgets. The theorem assumes `Durable = Stores` and is false without it: a
crash empties an in-memory store, and authority is consumed a second time.

*The store.* One grant per id (`GrantedOnce`) needs the lock discipline: `TransactionsAreExclusive`
ties the write lock to exactly the call between BEGIN and the end of its
transaction, so that a row an INSERT did not find cannot appear before the
COMMIT; `GrantsFollowCommits` ties grants to committed rows and each row to one
committing call. A call whose statement failed (`StatementFails`) may still hold
the lock, with a row that nobody will commit; `Close` is where it loses it.
`StoreRefines` uses them to map COMMIT to the abstract grant
and the failed INSERT to the abstract refusal; a failed statement maps to
the abstract failure, and every other step to asking, a death or a stutter. This is what allows `FinalityCore` to make a
claim one step.

*The plane.* `CoreInv` collects the core's invariants, and `PlaneInvAlways`
proves them again for `PlaneSpec`, whose authorizers are started by the plane
only. `PlaneInv` adds that a judging call holds the verdict over some bundles
with good signatures (`CallsAreJudged`), that a delegated one works on an act
bound to bundles that were allowed at the time it works with
(`GovernedInFlight`), and that each capability is derived from such an act
(`IssuedAreGoverned`). `EffectsAreApproved`, `EffectsAreEvidenced` and
`EffectsNameAllowedCompute` then go from an effect, through `CustodyInv`, to a
capability and its act, which has the digest of the one presented. For `VerdictForgetsOrder` the loop over approvals counts the first of
each approver, and a second one is a reason against: an allowed bundle repeats
nobody, so a bundle with the same bag of digests has the same members, each once
(`SameBag`, `DistinctValues`), and what the verdict counts are members
(`EvidenceForgetsOrder`, `ApprovalsForgetOrder`). `BindingKeepsVerdict` rests on
`BoundActIsGovernedAlike`: what approvers sign leaves out every key that binding
writes.

*The portable verifiers.* `PortableInv` says that an exported case is the whole
of one authorization (`AnExport`), and that each field of a given case comes
from some export (`GivenIsMixed`): that is the weakest thing which exchanges,
alterations and restarts keep, and it leaves all of the work to the verifiers'
comparisons. The signature of an accepted part comes from one export; it fixes
the canonical form of that part, whose digest of the act and whose transition
identifier are then the other parts' as well (`AcceptedCapability`,
`AcceptedEvidence`, `AcceptedTransition`). That evidence and capability come from
one authorization and not from two with the same identifier is `OneLifeInv`:
before a restart a source's version only grows and is part of the identifier, so
no identifier is exported twice. It needs acts with one digest to have one source
(`SourcesAreSpelledOnce`), and after a restart it is false. In the other direction
`ExportIsHashed` shows that each identifier checks in whichever spelling of the
act a case comes, as acts with one digest have canonically one transition,
descriptor, capability and HCAD.

*The plane and the core.* `PlaneSpec` is not `Spec`: its authorizers start at a
time the plane sampled before, which no step of the core does. `PlaneSteps` says
that this is all: a step behind the plane is a step of the core or leaves
everything but an authorizer that has reserved nothing alone. The invariants of
claims, effects, identities and receipts (`EffectInv`) look at no such
authorizer, so they are kept, and with `CoreInv` every promise of the core
follows from the same lemmas as for `Spec` (`PlaneKeepsPromises`). `PlaneRefines`
uses the step simulation of `CoreRefines` for the steps of the first kind; the
others change nothing the abstract specification sees.

*Canonical texts.* The three properties speak of the document at hand, and a
list or map is as good as its members. `CanonInv` says the same of every part
(`PartsAreSound`: the calls on it agree with the profile and with each other, and
any two parts have one text exactly when they have one meaning), and that the
document at hand is made of such parts. Finishing a document then adds a sound
part, so the induction over steps is the induction over documents of any depth,
which could not be stated over a recursive operator.
- Sorting: `LexicallyBefore` is total because two different sequences differ at
  a least place (`LeastNatural`, from the well-foundedness of strict inclusion on
  finite sets) and `Ordered` lists every element once because the number of
  elements before one is its place (`OrderedIsPermutation`). So Node's second
  sort undoes whatever order JavaScript enumerates an object in
  (`NodeKeepsTheOrder`).
- Verdicts: Python's is the profile's. Node's differs only below a float that
  `JSON.parse` makes an integer (`FloatsStayFloats`), Go's only below a lone
  surrogate (`ScalarStrings`). Node refuses every lone surrogate and Go every
  float, so no document outside the profile passes both. Two entries of a map collide in one language exactly when they do in
  the others, and exactly when the profile counts fewer keys than entries
  (`CollisionsAreCounted`).
- Digests: each accepted document is null, a Boolean, an integer, a string, a
  list or a set of entries, and text and meaning both show which (`Shape`,
  `ShapeIsTagged`). A byte string is written as a map, so its text may be that of
  a map with one key `$bytes_hex`; that they then mean the same needs
  `StringsSpeak`, which is part of the invariant: the text of a member is that of
  a string only if the member says that string.

**What the attempts showed.** Several properties that hold on small instances
could not be proved as they stood, and TLC found the reason once the instance
had it:

- `VerificationIsStable`, `OneEffectPerNonce`, `EffectsWithinQuota` and
  `LedgerIsAChain` fail for an act that is authorised in two spellings of its
  nonce from equal source states; they now name that case (section 6).
- What is said of governed effects, `VerdictForgetsOrder` and
  `BindingKeepsVerdict` compared governance records raw where the code compares
  digests. The first is now stated up to spelling, the others for records that are spelled once
  (`GovernanceIsSpelledOnce`).
- `OfflineFollowsSink` was false for a respelled payload, because the model
  compared the raw payload with the digest in the HCAD; the code hashes it.
- `OfflineIsSound` promised that the sink takes the original act, which fails
  when act and context spell a name differently (`SpelledAlike`), and compared
  times that a negative time to live puts in the other order. It also says of
  evidence only what the verifiers check: `portable_evidence` shows a case whose
  evidence is another life's.

Three more came out of the proofs themselves:

- `DigestsIdentify` is not preserved by itself: identified members make
  identified lists and maps, but a byte string has no member a map's could be
  compared with. `StringsSpeak` closes that gap.
- The properties of governed effects say nothing of the core's own promises, which were
  proved for `Spec` only: behind the plane an authorizer may start later than the
  time it validates at, and each invariant had to be looked at again.
- `CanonicalJson` let a client write two keys that Go's decoder makes one (two
  lone surrogates): Go keeps the last value and the model saw a collision. No
  property looked at such a document; `AddKey` now leaves it out.

*Only model-checked.* Liveness (`CallsEnd`, `ClaimsAreSettled`,
`LockIsReleased`): fairness and ENABLED are out of the prover's reach. That
texts are equal exactly when the trees they spell are is an assumption of the
model, not a theorem: characters are not modelled.

## 5. Not modelled

- `DeploymentManifest`: a loop over declared flags that yields one finding per
  unset flag. It keeps no state and nothing at run time depends on it; a property
  would say the loop again.
- The characters of a canonical text (quotes, escapes, separators), dictionary
  keys that are not strings and values of unsupported types, which always raise.
- What a portable verifier does with a case file that is not shaped like one: it
  raises or panics on the first missing member.
- `replace_for_adversarial_test`, a test hook; `direct_effect` and
  `ComputePlane.effectuate`, which always raise; `ComputePlane.propose`, a copy.
- Key formats and key generation of the authenticators.
- `profiles.py`, `scenarios.py`, `errors.py`, benchmarks, `generate_vectors.py`,
  conformance drivers: static data or drivers without protocol logic. The
  vendored `golang.org/x/text` is third-party code.

## 6. Findings

`core_stale`: `effectuate` reads the clock once, at `sink.py:137`, and compares
that reading with the expiry. Evidence, transition and claim are accessed later,
and the SQLite claim alone may wait 30 seconds, six times the default time to
live. `docs/ARCHITECTURE.md:41` says that a stale capability "produces no
effect"; in the run one does, in a call that began in time. What does hold, and
`core_time` checks, is that the *sampled* time was within the window.

`canonical_numbers`: the package comment of `canonical.go` (lines 5 and 6) says
that Python, Go and Node "cannot silently disagree about numeric identity". Go
writes a number as it was received (`canonical.go:102`); for `-0` that is `-0`,
while Python and Node write `0`, and all three accept it. The profile document
leaves lexical spellings to the transport (`CANONICALIZATION_PROFILE.md:32`), so
`LanguagesAgree` is stated for documents without a `-0` (`NoMinusZero`).

`portable_evidence`: `THREAT_MODEL.md:62` says that evidence is "bound by evidence
ID, candidate digest, descriptor digest, transition ID and epoch". The online sink
looks evidence up under the capability's `evidence_id`. The portable verifiers
compare everything else and not the two identifiers (`finality_verify.mjs:28`,
`main.go:111`), and an authority that has been restarted gives an act it
authorises again the same transition identifier. In the run the capability of one
life is accepted with the evidence of another. `OfflineIsSound` says what holds:
the evidence is of the same act and the same transition identifier.

Four more things met while modelling that contradict no stated intent:

- Node asks `Number.isSafeInteger` of what `JSON.parse` has already made of the
  text (`canonical.mjs:26`): `7.0`, `4503599627370497.5` and
  `1.00000000000000000001` are integers by then and are accepted, while Python
  (`canonical.py:29`) and Go refuse them. The profile rejects floating-point
  values, and says that it operates on typed values and leaves lexical spellings
  to the transport (`CANONICALIZATION_PROFILE.md:32`), so this is the transport's
  to prevent. `VerdictIsTheProfile` says how far it goes: Python and Node differ
  about such documents only, and none of them passes Go as well.
- Two spellings of one nonce are two reservations (`state.py:54`) of acts with
  one digest. A reconfiguration in between can make their transition identifiers
  equal, and the second record then replaces the first. `VerificationIsStable`
  says that this is the only way a reservation can stop to verify. After a
  restart the same happens without a reconfiguration: an act that is authorised
  in both spellings, one of them before the crash, can have an effect for each.
- A capability whose nonce is respelled still carries a valid signature, as
  signatures are over canonical forms. With an equally respelled candidate the
  portable verifiers accept it; the online sink refuses, because the protected
  state compares raw nonces. `OfflineIsSound` is therefore stated up to spelling.
- The sovereignty policy compares jurisdictions, providers and issuers as they
  are spelled, and the digests bound into an act forget spelling. Two records
  that differ in spelling only share a digest and may be judged differently;
  `EffectsNameAllowedCompute` says what remains true of such an effect.

## 7. Plan

Done: the core (data, protected state, authority, sinks and environment, the
abstract life of an act), the SQLite store with its abstraction, the authority
plane, canonicalisation in three languages, the portable verifiers; the proof of
every safety property of every module, and the refinement of the abstract life of
an act by the core alone and behind the plane.

What could follow:

1. A proof that the authority plane and the SQLite store together behave as one
   module: today `StoreRefines` justifies the core's atomic claim, and the
   theorems of the core take it from there.
2. Machine-checked liveness, once a prover can be given fairness: the arguments
   are short (a call has a bounded number of steps and waits for nothing but a lock).
