--------------------------- MODULE ProtectedState ---------------------------
(***************************************************************************)
(* ProtectedState (state.py): the quota, budget and version of each source *)
(* of candidate acts, the nonces reserved so far and the transitions that  *)
(* reserved them. Every method runs under one re-entrant lock, so each is  *)
(* one atomic action here.                                                 *)
(***************************************************************************)
EXTENDS FinalityData

CONSTANTS
  Sources,        \* names of sources
  DefaultQuota,   \* ProtectedState.default_quota
  DefaultBudget,  \* ProtectedState.default_budget
  Costs,          \* the costs authorize is called with
  Grants          \* the quotas and budgets configure_source is called with

ASSUME DefaultsAreNumbers == DefaultQuota \in Nat /\ DefaultBudget \in Nat

ASSUME CostsAreNumbers == Costs \subseteq Int

ASSUME GrantsAreNumbers == Grants \subseteq Nat

ASSUME SourcesOfCandidates == \A c \in Candidates : Act[c].source \in Sources

VARIABLES
  sources,      \* _sources: source -> version, quota, budget
  nonces,       \* _nonces: nonce -> id of the transition that reserved it
  transitions   \* _transitions: id -> StateTransition

stateVars == <<sources, nonces, transitions>>

\* f with key k set to v, as a Python dict assignment.
Put(f, k, v) == [x \in DOMAIN f \cup {k} |-> IF x = k THEN v ELSE f[x]]

Empty == [x \in {} |-> x]

\* What _get_source creates for a source it meets for the first time; a source
\* not met yet is not distinguished from one that still has its defaults.
DefaultSource == [version |-> 0, quota |-> DefaultQuota, budget |-> DefaultBudget]

StateInit ==
  /\ sources = [s \in Sources |-> DefaultSource]
  /\ nonces = Empty
  /\ transitions = Empty

-----------------------------------------------------------------------------

\* Mutated forms of Refused: each forgets or misstates one of its conditions.
RefusedIgnoringNonce(c, cost) ==
  \/ cost <= 0
  \/ sources[Act[c].source].quota < 1
  \/ sources[Act[c].source].budget < cost

RefusedIgnoringQuota(c, cost) ==
  \/ cost <= 0
  \/ Act[c].nonce \in DOMAIN nonces
  \/ sources[Act[c].source].budget < cost

RefusedBudgetOffByOne(c, cost) ==
  \/ cost <= 0
  \/ Act[c].nonce \in DOMAIN nonces
  \/ sources[Act[c].source].quota < 1
  \/ sources[Act[c].source].budget < cost - 1

\* The conditions under which transition_for_authorization refuses.
Refused(c, cost) ==
  \/ cost <= 0
  \/ Act[c].nonce \in DOMAIN nonces
  \/ sources[Act[c].source].quota < 1
  \/ sources[Act[c].source].budget < cost

\* The transition it makes otherwise.
NextTransition(c, cost) == Transition(c, sources[Act[c].source], cost)

TransitionForAuthorization(c, cost) ==
  LET t == NextTransition(c, cost) IN
  /\ ~Refused(c, cost)
  /\ sources' = [sources EXCEPT ![t.source] =
                   [version |-> t.after_version, quota |-> t.quota_after,
                    budget |-> t.budget_after]]
  /\ nonces' = Put(nonces, t.nonce, t.transition_id)
  /\ transitions' = Put(transitions, t.transition_id, t)

ConfigureSource(s, quota, budget) ==
  /\ sources' = [sources EXCEPT ![s] = [version |-> 0, quota |-> quota, budget |-> budget]]
  /\ UNCHANGED <<nonces, transitions>>

VerifyTransition(tid, c) ==
  /\ tid \in DOMAIN transitions
  /\ LET t == transitions[tid] IN
     /\ t.nonce = Act[c].nonce
     /\ t.source = Act[c].source
     /\ t.policy_epoch = Act[c].policy_epoch
     /\ t.after_version = t.before_version + 1
     /\ t.quota_after = t.quota_before - 1
     /\ t.budget_after < t.budget_before
  /\ Act[c].nonce \in DOMAIN nonces
  /\ nonces[Act[c].nonce] = tid

-----------------------------------------------------------------------------

StateNext ==
  \/ \E c \in Candidates, cost \in Costs : TransitionForAuthorization(c, cost)
  \/ \E s \in Sources, quota \in Grants, budget \in Grants :
       ConfigureSource(s, quota, budget)

StateSpec == StateInit /\ [][StateNext]_stateVars

-----------------------------------------------------------------------------

\* Every source keeps a natural version, quota and budget: none is ever
\* overdrawn, whatever the costs asked for.
StateTypeOK ==
  /\ sources \in [Sources -> [version : Nat, quota : Nat, budget : Nat]]
  /\ \A n \in DOMAIN nonces : nonces[n] \in DOMAIN transitions
  /\ \A tid \in DOMAIN transitions : transitions[tid].transition_id = tid

\* The two indexes agree: a reserved nonce leads to the transition of an act
\* that carries that nonce, in some spelling, and every transition recorded is
\* the one its own nonce leads to. A sink trusts both directions.
ReservationsAndTransitionsAgree ==
  /\ \A n \in DOMAIN nonces : Nfc(transitions[nonces[n]].nonce) = Nfc(n)
  /\ \A tid \in DOMAIN transitions :
       /\ transitions[tid].nonce \in DOMAIN nonces
       /\ nonces[transitions[tid].nonce] = tid

TransitionsOf(s) == {tid \in DOMAIN transitions : transitions[tid].source = s}

\* No two spellings of one act differ in the nonce: the raw nonce, which the
\* nonce index goes by, and the canonical one, which digests go by, then agree.
NoncesAreSpelledOnce ==
  \A c, d \in Candidates :
    CandidateDigest(c) = CandidateDigest(d) => Act[c].nonce = Act[d].nonce

\* The history of sources that are never reconfigured is a chain: its transitions
\* lead from version 0 to its current version without gap or fork, each one
\* starting from the quota and budget its predecessor left, and the last one
\* leaving what the source has now. No interleaving of authorizations loses an
\* update or spends the same unit twice. (Acts whose spellings differ in the
\* nonce and the source can share a transition id across two sources, and the
\* later record then takes the earlier one out of its source's history.)
LedgerIsAChain ==
  Grants = {} /\ NoncesAreSpelledOnce =>
    \A s \in Sources :
      LET ts == TransitionsOf(s) IN
      /\ Cardinality(ts) = sources[s].version
      /\ {transitions[tid].after_version : tid \in ts} = 1 .. sources[s].version
      /\ \A tid \in ts :
           LET t == transitions[tid]
               left == [version |-> t.after_version, quota |-> t.quota_after,
                        budget |-> t.budget_after]
           IN \/ left = sources[s]
              \/ \E next \in ts :
                   left = [version |-> transitions[next].before_version,
                           quota |-> transitions[next].quota_before,
                           budget |-> transitions[next].budget_before]

\* A reservation is for ever: once a transition verifies for a candidate,
\* neither later authorizations nor a reconfiguration of its source take that
\* back, as a sink may be about to rely on it. One thing does: the act the
\* transition was made for, authorised again in a spelling with another nonce
\* and from an identical source state, has the same transition id, and its
\* record replaces the first one (_transitions, keyed by a digest; _nonces, by
\* the raw nonce). Then that spelling verifies instead.
VerificationIsStable ==
  [][\A c \in Candidates : \A tid \in DOMAIN transitions :
       VerifyTransition(tid, c) =>
         \/ VerifyTransition(tid, c)'
         \/ \E d \in Candidates :
              /\ CandidateDigest(d) = tid.candidate
              /\ Act[d].nonce # Act[c].nonce /\ Nfc(Act[d].nonce) = Nfc(Act[c].nonce)
              /\ VerifyTransition(tid, d)']_stateVars
=============================================================================
