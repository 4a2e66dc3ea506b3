\* Two texts, a save that was read as a draft when the letter is submitted, and the
\* decisions of two approvers before and after it is written.
CONSTANTS
  wim = wim
  ann = ann
  pam = pam
  l1 = l1
  l2 = l2
  w1 = w1
  w2 = w2
  None = None
  Employees = {wim, ann, pam}
  Letters = {l1}
  Author <- MCAuthor
  Secretaries <- MCSecretaries
  SiteOf <- MCSiteOf
  Texts = {t1, t2}
  Files = {}
  Lists <- MCLists
  Plans <- MCPlans
  Workers = {w1, w2}
  MaxRounds = 1
  MaxTasks = 4
SPECIFICATION Spec
INVARIANTS
  OneContentPerRound
CHECK_DEADLOCK FALSE
