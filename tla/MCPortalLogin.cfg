SPECIFICATION Spec
CONSTANTS
  Users = {u1}
  Browsers = {b1}
  Threads = {t1, t2}
  None = None
  Mode = "optional"
  RolePolicy <- NoRolePolicy
  Threshold = 2
  LockTime = 1
  IdleTime = 1
  LinkTime = 1
  TrustTime = 1
  Ephemeral = TRUE
  MaxNow = 2
  MaxIds = 4
  MaxRequests = 4
  MaxEdits = 1
INVARIANT GuessRate CodeOnce EnrolmentWhole
PROPERTY SecondFactor
SYMMETRY ThreadSymmetry
CHECK_DEADLOCK FALSE
