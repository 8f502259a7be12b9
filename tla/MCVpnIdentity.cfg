\* Two managers at work at the same time, each with a VPN client; the migration
\* linked and protected one of them.  A PATCH changes one thing.
\* They may lock everybody out of the portal: then nothing happens any more.
CONSTANTS
  User = {root, ann}
  Manager = {root, ann}
  Bootstrap = root
  Client = {root, ann}
  Lower <- Lowered
  Migrated = {ann}
  None = None
  NoAccount = NoAccount
  Patches <- OnePatches
  Faults <- CutShort
SPECIFICATION Spec
INVARIANTS OneToOne
PROPERTIES ProtectedUntouched NoOrphanAccess
CHECK_DEADLOCK FALSE
