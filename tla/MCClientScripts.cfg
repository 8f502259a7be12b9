\* The portal alone: one script at a time, any of them killed half-way.  Two of the
\* names differ in case only.
CONSTANTS
  ann = ann
  bob = bob
  Bob = Bob
  Name = {ann, bob, Bob}
  Lower <- Lowered
  Mac = {m1, m2}
  NoMac = NoMac
  Runner = {portal}
  AllowDup = {}
  Faults <- Killed
  MaxCerts = 3
SPECIFICATION WatchSpec
INVARIANTS OneOwner ReportedRevoked
PROPERTIES RegistrationsKept ScriptsAreCommands
SYMMETRY Symmetric
