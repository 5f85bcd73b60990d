SPECIFICATION Spec
CONSTANTS
  Goroutines = {g1, g2}
  NoGoroutine = none
  MaxStarts = 2
  MaxActive = 1
  MaxSinks = 1
  MaxSinkWaiters = 0
  GoroutineIds = TRUE
  HostQuiesces = TRUE
  ProviderUsesHooks = FALSE
PROPERTIES
  CloseReturns
  HostCallsReturn
CHECK_DEADLOCK FALSE
