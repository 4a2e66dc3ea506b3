\* A manager who approved as unit manager becomes the site's HR approver or site manager;
\* nobody has a substitute, leaves or is disabled.
CONSTANTS
  asker = asker
  friend = friend
  lead = lead
  chief = chief
  None = None
  Employees = {asker, friend, lead, chief}
  Candidates <- MCCandidates
  LoanTypes = {"general"}
  MaxRequests = 1
  MaxSeq = 1
  MaxInst = 1
  MaxMonth = 1
  MaxAway = 0
  MaxAutoCancel = 1
  KaraAnswers = {TRUE}
  Policies <- MCPolicies
  Type <- MCType
  KaraManagers <- MCKaraManagers
  UnitApprover <- MCUnitApprover
  Substitute <- MCNoSubstitute
  SlipMonth <- MCSlipMonth
SPECIFICATION Spec
INVARIANTS
  NobodyApprovesTwice
