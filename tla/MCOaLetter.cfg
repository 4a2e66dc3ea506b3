\* One letter, one request in flight beside the locking handlers, two rounds.
CONSTANTS
  wim = wim
  ann = ann
  pam = pam
  l1 = l1
  l2 = l2
  w1 = w1
  w2 = w2
  None = None
  Employees = {wim, ann, pam}
  Letters = {l1}
  Author <- MCAuthor
  Secretaries <- MCSecretaries
  SiteOf <- MCSiteOf
  Texts = {t1}
  Files = {f1}
  Lists <- MCLists
  Plans <- MCPlans
  Workers = {w1}
  MaxRounds = 2
  MaxTasks = 3
SPECIFICATION Spec
INVARIANTS
  PathInOrder
  NothingSkipped
  AssigneesMayRead
PROPERTIES
  ImplementsRegister
CHECK_DEADLOCK FALSE
