\* Two threads and two sinks that share a store; two acts, each with its own
\* nonce; no time passes.
CONSTANTS
  Candidates = {"c1", "c2"}
  Act <- IndependentActs
  Nfc <- MCNfc
  Policy <- MCPolicy
  AuthorityId = "authority-A"
  AuthorityKey = "authority-key"
  CapabilityTtl = 1
  PresenterKeys = {}
  NoProof = NoProof
  Sources = {"agent-A"}
  DefaultQuota = 2
  DefaultBudget = 2
  Costs = {1}
  Grants = {}
  Authorizers = {a1}
  Callers = {t1, t2}
  Sinks = {"s1", "s2"}
  Ctx <- TwinSinks
  Stores = {"store-1"}
  Durable = {"store-1"}
  Times = {0}
  Extension = 1
  MaxCrashes = 0
  MaxProofs = 0
  NoCall = NoCall
SPECIFICATION Spec
INVARIANTS ClaimInv ReceiptsNameTheirEffect LedgerIsAChain
SYMMETRY ThreadSymmetry
