\* Two threads drive the adapter, reprocessing build.
SPECIFICATION FairSpec
CONSTANTS
  CpCam = TRUE
  Threads = {t1, t2}
  NoThread = NoThread
  Unset = Unset
INVARIANTS
  TypeOK
  LockDiscipline
  RecordingMatchesState
PROPERTIES
  ImplementsLifecycle
  RollbackReturns
