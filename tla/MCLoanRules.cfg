\* Every function of the rules on all inputs within the bounds.
CONSTANTS
  Employees = {e1, e2, e3}
  None = None
  MaxInstallments = 4
  MaxTotal = 9
  MaxRows = 3
  Nobody = Nobody
  Staff = {e1, e2, e3}
  Departments = {d1, d2}
  MaxLeads = 2
  MaxManagers = 2
SPECIFICATION Spec
SYMMETRY Symmetry
INVARIANTS
  PathsAsStored
  InstallmentsAddUp
  CompleteMonths
  OneMonthPerWindow
  LoansReadBack
  RowsWellTaken
  EvaluatedOnce
CHECK_DEADLOCK FALSE
