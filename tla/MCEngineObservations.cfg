SPECIFICATION Spec
CONSTANTS
  Operations = {o1, o2}
  Engines = {e1}
  Classes = {"Clock", "Database"}
  Internal = {}
  Registered = {"Clock", "Database"}
  Semantic = {"Database"}
  Recorded = {}
  None = none
  Sessions <- Handles
  MaxHandle = 2
  MaxSessions = 1
  MaxEvents = 1
  MaxObservations = 2
  MaxWatched = 1
INVARIANTS
  TablesAgree
  CapturedIsAnswered
SYMMETRY EngineSymmetry
CHECK_DEADLOCK FALSE
