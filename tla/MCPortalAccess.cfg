SPECIFICATION Spec
CONSTANTS
  root = root
  ann = ann
  bob = bob
  Users = {root, ann, bob}
  Root = root
  Threads = {t1, t2}
  None = None
  Gone = Gone
  MaxRole = 6
  MaxGroup = 4
  Objects = {"users", "groups", "roles", "settings"}
  Added = {"groups"}
  OldCount = 2
  OldGroups <- PlainGroups
  OldMembers <- PlainMembers
  Number <- PlainNumbers
  Owners = {root, ann}
  MaxEdits = 3
INVARIANT SomeoneManages RootPinned
PROPERTY EditsSurvive
SYMMETRY ThreadSymmetry
CHECK_DEADLOCK FALSE
