SPECIFICATION Spec
CONSTANTS
  Goroutines = {g1, g2}
  NoGoroutine = none
  MaxStarts = 2
  MaxActive = 2
  MaxSinks = 1
  MaxSinkWaiters = 1
  GoroutineIds = TRUE
  HostQuiesces = TRUE
  ProviderUsesHooks = FALSE
INVARIANTS
  NoticedStaysLocal
  RegistryExact
  ClosedMeansFinished
PROPERTIES
  FateDecidedOnce
SYMMETRY GoroutineSymmetry
CHECK_DEADLOCK FALSE
