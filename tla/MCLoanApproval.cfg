\* One request, four people, the full path.
CONSTANTS
  asker = asker
  friend = friend
  lead = lead
  chief = chief
  None = None
  Employees = {asker, friend, lead, chief}
  Candidates <- MCCandidates
  LoanTypes = {"general"}
  MaxRequests = 1
  MaxSeq = 1
  MaxInst = 1
  MaxMonth = 1
  MaxAway = 1
  MaxAutoCancel = 1
  KaraAnswers = {TRUE, FALSE}
  Policies <- MCPolicies
  Type <- MCType
  KaraManagers <- MCKaraManagers
  UnitApprover <- MCUnitApprover
  Substitute <- MCSubstitute
  SlipMonth <- MCSlipMonth
SPECIFICATION Spec
INVARIANTS
  TypeOK
  DecisionsInOrder
  NoSelfDecision
  SettingsInForce
PROPERTIES
  ArrivesAtUsable
  LeaversReplaced
  DecisionsStand
