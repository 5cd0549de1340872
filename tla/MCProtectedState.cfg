\* Authorizations of six candidates of two sources, in every order and with
\* every cost, and configure_source at any time.
CONSTANTS
  Candidates = {"c1", "c2", "c3", "c4", "c5", "c6"}
  Act <- MCAct
  Nfc <- MCNfc
  Policy <- MCPolicy
  AuthorityId = "authority-A"
  AuthorityKey = "authority-key"
  CapabilityTtl = 1
  PresenterKeys = {"presenter-1"}
  NoProof = NoProof
  Sources = {"agent-A", "agent-B"}
  DefaultQuota = 2
  DefaultBudget = 3
  Costs = {0, 1, 2}
  Grants = {0, 2}
SPECIFICATION StateSpec
INVARIANTS StateTypeOK ReservationsAndTransitionsAgree
PROPERTIES VerificationIsStable
