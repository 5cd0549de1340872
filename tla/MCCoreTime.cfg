\* One thread per side; capabilities expire, clients overstate their expiry, alter
\* an act or spell it differently; all acts share one nonce, and their sources are
\* reconfigured at any time.
CONSTANTS
  Candidates = {"c1", "c2", "c3"}
  Act <- SpelledActs
  Nfc <- MCNfc
  Policy <- MCPolicy
  AuthorityId = "authority-A"
  AuthorityKey = "authority-key"
  CapabilityTtl = 1
  PresenterKeys = {}
  NoProof = NoProof
  Sources = {"agent-A", "agent-A~"}
  DefaultQuota = 1
  DefaultBudget = 1
  Costs = {1, 2}
  Grants = {1}
  Authorizers = {a1}
  Callers = {t1}
  Sinks = {"s1"}
  Ctx <- OneSink
  Stores = {"store-1"}
  Durable = {"store-1"}
  Times = {0, 1, 2}
  Extension = 1
  MaxCrashes = 0
  MaxProofs = 0
  NoCall = NoCall
SPECIFICATION Spec
INVARIANTS TypeOK OnlyAuthorisedActsTakeEffect OneEffectPerNonce
SYMMETRY ThreadSymmetry
