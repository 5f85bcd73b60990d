SPECIFICATION Spec
CONSTANTS
  Operations = {o1, o2}
  Recorded = {o2}
  Callers = {c1, c2}
  Shared = shared
  None = none
  Identities = {i1, i2, i3}
  Sizes = {1}
  CandidateSizes = {1, 2}
  Suppression = 1
  TokenCapacity = 2
  TokenCost = 2
  RefillRate = 1
  MaxIdentities = 2
  MaxTime = 2
  MaxEvents = 2
  MaxOperationBytes = 3
  MaxGlobalBytes = 4
  MaxActive = 2
  MaxQueued = 1
  Lifetime = 1
INVARIANTS
  AccountsAgree
  CandidatesHeld
PROPERTIES
  SuppressionHolds
  CandidatesReleased
