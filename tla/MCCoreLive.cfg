\* A sink of the strict profile, the presenter the act names and another one, and two
\* threads that present one capability; no crash: every call ends and every claim is
\* settled.
CONSTANTS
  Candidates = {"c1"}
  Act <- RivalActs
  Nfc <- MCNfc
  Policy <- MCPolicy
  AuthorityId = "authority-A"
  AuthorityKey = "authority-key"
  CapabilityTtl = 1
  PresenterKeys = {"presenter-1", "presenter-2"}
  NoProof = NoProof
  Sources = {"agent-A"}
  DefaultQuota = 1
  DefaultBudget = 1
  Costs = {1}
  Grants = {}
  Authorizers = {a1}
  Callers = {t1, t2}
  Sinks = {"s1"}
  Ctx <- StrictSink
  Stores = {"store-1"}
  Durable = {"store-1"}
  Times = {0, 1}
  Extension = 1
  MaxCrashes = 0
  MaxProofs = 1
  NoCall = NoCall
SPECIFICATION FairSpec
INVARIANTS StrictSinksNeedThePresenter
PROPERTIES CallsEnd ClaimsAreSettled
