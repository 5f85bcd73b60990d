SPECIFICATION Spec
CONSTANTS
  Threads = {t1, t2}
  Operations = {o1}
  Observations = {b1}
  Classes = {"Clock"}
  Kinds = {"Clock"}
  Nobody = nobody
  MaxOperations = 2
  MaxObservations = 1
  MaxIgnored = 2
  MaxQueued = 2
  MaxEvents = 2
  MaxEngines = 1
INVARIANTS
  SuspectNeverClean
CHECK_DEADLOCK FALSE
