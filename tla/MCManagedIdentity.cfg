SPECIFICATION Spec
CONSTANTS
  Processes = {p1, p2, p3}
  Keys = {k1, k2, k3}
  Times = {t1, t2}
  None = none
  SyncsDirectory = TRUE
  MaxPowerLosses = 2
INVARIANTS
  TypeOK
  OneIdentity
  ReceiptTruthful
  NotLockedOut
PROPERTIES
  DurableIdentityKept
SYMMETRY IdentitySymmetry
