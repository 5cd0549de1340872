\* Two authorizers race for the last unit of quota with three acts, two of which
\* share a nonce, while the evidence store may fail; what they get is brought to
\* effect; one crash at any moment, with a durable store: a restarted authority
\* may issue the same capability again.
CONSTANTS
  Candidates = {"c1", "c2", "c3"}
  Act <- ContendingActs
  Nfc <- MCNfc
  Policy <- MCPolicy
  AuthorityId = "authority-A"
  AuthorityKey = "authority-key"
  CapabilityTtl = 1
  PresenterKeys = {}
  NoProof = NoProof
  Sources = {"agent-A"}
  DefaultQuota = 1
  DefaultBudget = 2
  Costs = {1}
  Grants = {}
  Authorizers = {a1, a2}
  Callers = {t1}
  Sinks = {"s1"}
  Ctx <- OneSink
  Stores = {"store-1"}
  Durable = {"store-1"}
  Times = {0}
  Extension = 1
  MaxCrashes = 1
  MaxProofs = 0
  NoCall = NoCall
SPECIFICATION Spec
INVARIANTS AtMostOneEffect FailureIsFinal EffectsWithinQuota CapabilitiesAreBacked OneEffectPerNonce
PROPERTIES ImplementsExecutionFinality
SYMMETRY ThreadSymmetry
