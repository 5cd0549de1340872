\* One client of the plane, one of the sink; bundles and acts of every kind.
CONSTANTS
  Candidates = {"c1", "c2", "c3", "c4", "c5", "c6", "c7"}
  Act <- GovernedActs
  Nfc <- MCNfc
  Policy <- MCPolicy
  AuthorityId = "authority-A"
  AuthorityKey = "authority-key"
  CapabilityTtl = 1
  PresenterKeys = {}
  NoProof = NoProof
  Sources = {"agent-A"}
  DefaultQuota = 1
  DefaultBudget = 1
  Costs = {1}
  Grants = {}
  Authorizers = {a1}
  Callers = {t1}
  Sinks = {"s1"}
  Ctx <- OneSink
  Stores = {"store-1"}
  Durable = {"store-1"}
  Times = {0, 2}
  Extension = 0
  MaxCrashes = 1
  MaxProofs = 0
  NoCall = NoCall
  ComputeContexts = {"x1", "x2"}
  Compute <- MCCompute
  EvidenceItems = {"e1", "e2", "e3", "e4", "e5"}
  Item <- MCItem
  Approvals = {"a1", "a2", "a3", "a4"}
  Approval <- MCApproval
  PayloadOf <- MCPayloadOf
  NoObject = NoObject
  SovPolicy <- MCSovPolicy
  NoLimit = NoLimit
  VerifierKey <- MCVerifierKey
  EvidenceBundles <- MCEvidenceBundles
  ApprovalBundles <- MCApprovalBundles
  AuthenticEvidence = TRUE
  AuthenticApprovals = TRUE
  NoDecision = NoDecision
SPECIFICATION PlaneSpec
INVARIANTS EffectsAreApproved EffectsAreEvidenced EffectsNameAllowedCompute VerdictForgetsOrder BindingKeepsVerdict
PROPERTY ImplementsExecutionFinality
VIEW AllButDecision
CONSTRAINT NothingFails
