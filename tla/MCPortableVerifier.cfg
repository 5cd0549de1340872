\* Two lives of the authority and two authorizations, both of one life or one of
\* each; any two parts or fields of a case exchanged.
CONSTANTS
  Candidates = {"c1", "c2", "c3", "c4", "c5"}
  Act <- CasesActs
  Nfc <- MCNfc
  Policy <- MCPolicy
  AuthorityId = "authority-A"
  AuthorityKey = "authority-key"
  CapabilityTtl = 2
  PresenterKeys = {}
  NoProof = NoProof
  Sources = {"agent-A"}
  DefaultQuota = 2
  DefaultBudget = 2
  Costs = {1, 2}
  Grants = {}
  Contexts <- MCContexts
  Times = {0, 1}
  PortableActs = {"c1", "c2", "c3", "c4", "c5"}
  MaxSafeInteger = 7
  MaxExports = 2
  MaxRestarts = 1
  MaxChanges = 2
  NoCase = NoCase
SPECIFICATION Spec
INVARIANTS OfflineIsSound OfflineFollowsSink
