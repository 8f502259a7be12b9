\* The portal and a shell, the same commands interleaved.
CONSTANTS
  Name = {a, b}
  Lower <- Lowered
  Mac = {m1}
  NoMac = NoMac
  Runner = {portal, shell}
  AllowDup = {portal}
  Faults <- Killed
  MaxCerts = 2
SPECIFICATION Spec
INVARIANT ReportedRevoked
SYMMETRY Symmetric
