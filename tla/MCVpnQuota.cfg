SPECIFICATION FairSpec
CONSTANTS
  Client = {c1}
  None = None
  Quota = {0, 2}
  Faults <- WriteFaults
  MaxBytes = 3
  MaxMonth = 2
  MaxEdits = 3
INVARIANT SoftClientSpared
PROPERTY HardCutoff
