\* Two sessions, two loans, two advances: the handlers that come in together on three days.
CONSTANTS
  ann = ann
  bob = bob
  hal = hal
  gus = gus
  None = None
  Employees = {ann, bob, hal, gus}
  Sessions = {s1, s2}
  MaxLoans = 2
  MaxGuarantees = 0
  Path <- MCPath
  MaxAdvances = 2
  MaxPerMonth = 1
  Managers <- MCManagers
  Substitutes <- MCSubstitutes
  FirstSettings <- MCFirstSettings
  FirstManager = hal
  Days <- MCDays
SPECIFICATION Spec
INVARIANTS
  SubmissionLimits
  NumbersDiffer
PROPERTIES
  AllowedAtCommit
  EveryTransactionEnds
CHECK_DEADLOCK FALSE
