SPECIFICATION Spec
CONSTANTS
  Client = {c1, c2}
  None = None
  Quota = {0, 1}
  Faults <- AllFaults
  MaxBytes = 1
  MaxMonth = 2
  MaxEdits = 1
INVARIANT ConnectedUnderQuota
PROPERTY LedgerSpec
