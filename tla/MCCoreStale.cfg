\* A capability may take effect after it has expired.
CONSTANTS
  Candidates = {"c1", "c2"}
  Act <- RivalActs
  Nfc <- MCNfc
  Policy <- MCPolicy
  AuthorityId = "authority-A"
  AuthorityKey = "authority-key"
  CapabilityTtl = 1
  PresenterKeys = {}
  NoProof = NoProof
  Sources = {"agent-A"}
  DefaultQuota = 1
  DefaultBudget = 1
  Costs = {1}
  Grants = {}
  Authorizers = {a1}
  Callers = {t1}
  Sinks = {"s1"}
  Ctx <- OneSink
  Stores = {"store-1"}
  Durable = {"store-1"}
  Times = {0, 1, 2}
  Extension = 1
  MaxCrashes = 0
  MaxProofs = 0
  NoCall = NoCall
SPECIFICATION Spec
INVARIANTS NoStaleEffect
SYMMETRY ThreadSymmetry
