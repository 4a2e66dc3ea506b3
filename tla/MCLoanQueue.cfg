\* Two requests of up to three people, short paths, two installments.
CONSTANTS
  ann = ann
  bob = bob
  cy = cy
  None = None
  Employees = {ann, bob, cy}
  Candidates <- MCCandidates
  LoanTypes = {"general"}
  MaxRequests = 2
  MaxSeq = 2
  MaxInst = 2
  MaxMonth = 1
  MaxAway = 0
  MaxAutoCancel = 1
  KaraAnswers = {TRUE}
  Policies <- MCPolicies
  Type <- MCType
  KaraManagers <- MCKaraManagers
  UnitApprover <- MCNobody
  Substitute <- MCNobody
  SlipMonth <- MCSlipMonth
SPECIFICATION Spec
INVARIANTS
  OneOpenRequest
  QueueNumbers
  SettledWhenAllPaid
  OneTickPerSlip
  DistinctGuarantors
PROPERTIES
  JoinsAtTheEnd
  ImplementsLifecycle
