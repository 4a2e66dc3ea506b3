SPECIFICATION Spec
CONSTANTS
  None = None
  wim = wim
  sam = sam
  tom = tom
  hana = hana
  r1 = r1
  r2 = r2
  t1 = t1
  w1 = w1
  w2 = w2
  Employees = {wim, sam, tom, hana}
  Owner = wim
  Chain <- MCChain
  Manual = None
  Substitutes <- MCSubstitutes
  Leavers = {sam}
  Officers = {hana, wim}
  Requests = {r1}
  Times = {t1}
  Whats <- MCWhatsMarked
  Edits <- MCReopen
  Workers = {w1, w2}
  MaxDays = 0
INVARIANTS
  NoSelfDecision
  StaysWithHr
PROPERTY
  PendingApplied
CHECK_DEADLOCK FALSE
