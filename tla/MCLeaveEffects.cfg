SPECIFICATION OrderlySpec
CONSTANTS
  None = None
  wim = wim
  sam = sam
  tom = tom
  hana = hana
  r1 = r1
  r2 = r2
  t1 = t1
  w1 = w1
  w2 = w2
  Employees = {wim, sam, tom, hana}
  Owner = wim
  Chain <- MCChain
  Manual = None
  Substitutes = {}
  Leavers = {}
  Officers = {hana}
  Requests = {r1, r2}
  Times = {t1}
  Whats <- MCWhats
  Edits <- MCEdits
  Workers = {w1}
  MaxDays = 2
INVARIANT
  EffectsMatch
CHECK_DEADLOCK FALSE
