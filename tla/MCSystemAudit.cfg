\* Two audits after another or at once, fixes and edits in between.
SPECIFICATION Spec
CONSTANTS
  Directive = {rootlogin}
  Manager = {"ufw", "firewalld"}
  Port = {22, 2222}
  StdPort = 22
  Fixer = {f1, f2}
  None = None
  Faults <- AllFaults
  AtOnce = 2
  Budgets <- SmallBudgets
INVARIANTS NoSilentRise ResolvedOnce FixHolds
PROPERTIES RollbackWhole SshLetIn
SYMMETRY FixerSymmetry
CHECK_DEADLOCK FALSE
