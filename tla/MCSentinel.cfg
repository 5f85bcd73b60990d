SPECIFICATION Spec
CONSTANTS
  Threads = {t1, t2}
  Operations = {o1}
  Observations = {b1, b2}
  Classes = {"Clock", "OutboundHttp"}
  Kinds = {"Clock"}
  Nobody = nobody
  MaxOperations = 2
  MaxObservations = 2
  MaxIgnored = 1
  MaxQueued = 1
  MaxEvents = 1
  MaxEngines = 2
INVARIANTS
  KnownNeverClean
  QueueCounterExact
  CleanAccountsForEffects
SYMMETRY SentinelSymmetry
CHECK_DEADLOCK FALSE
