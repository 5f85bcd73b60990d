SPECIFICATION Spec
CONSTANTS
  Operations = {o1}
  Sessions = {s1, s2}
  Threads = {t1, t2}
  Classes = {"Clock"}
  Internal = {"Clock"}
  Registered = {"Clock"}
  Recorded <- OneReading
  None = none
  MaxSessions = 1
  MaxEvents = 3
  MaxAmbient = 2
  MaxNesting = 1
  MaxFrames = 1
INVARIANTS
  CaptureIsComplete
  ReplayIsComplete
  SessionsLinked
PROPERTIES
  ImplementsEvidence
SYMMETRY ContextSymmetry
CHECK_DEADLOCK FALSE
