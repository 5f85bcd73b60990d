SPECIFICATION Spec
CONSTANTS
  Callers = {c1, c2}
  MaxHandle = 6
  MaxEngines = 2
  MaxOperations = 2
  MaxSinks = 2
  MaxFailureTasks = 1
INVARIANTS
  TypeOK
  SingleOwner
  PendingReachable
PROPERTIES
  CancelIsFinal
  NoStartAfterClose
  SlotHeldUntilSettled
  AcceptedFailuresSettle
  CallsReturn
CHECK_DEADLOCK FALSE
