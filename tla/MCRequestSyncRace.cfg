\* The employee sync finds that ann left, among the other calls.
CONSTANTS
  ann = ann
  bob = bob
  hal = hal
  gus = gus
  None = None
  Employees = {ann, bob, hal, gus}
  Sessions = {s1, s2}
  MaxLoans = 2
  MaxGuarantees = 0
  Path <- MCPath
  MaxAdvances = 2
  MaxPerMonth = 1
  Managers <- MCManagers
  Substitutes <- MCSubstitutes
  FirstSettings <- MCFirstSettings
  FirstManager = hal
  Days <- MCSyncDays
SPECIFICATION Spec
PROPERTIES
  PaidUntouched
CHECK_DEADLOCK FALSE
