SPECIFICATION Spec
CONSTANTS
  Modules = {exe, lib}
  Executable = exe
  Artifacts = {reply, state}
  WorldArtifacts = {state}
  Records = {record, manifest}
  MaxChanges = 2
  MaxClock = 2
  Keys = {k1, k2}
  NoKey = none
  PageSize = 3
  BatchSize = 2
  AttemptCap = 2
  AttemptLimits = {2, 3}
  MaxFaults = 2
  MaxUploads = 2
INVARIANTS
  TypeOK
  CommittedIsIntact
  UploadsJoined
  AbandonedIsCancelled
  FailureHasCause
PROPERTIES
  ImplementsDurable
  DeliveryEnds
CHECK_DEADLOCK FALSE
