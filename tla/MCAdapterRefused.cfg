\* A refused CAMERA_USE_BUFFERS_* command is committed, not rolled back.
SPECIFICATION Spec
CONSTANTS
  CpCam = FALSE
  Threads = {t1}
  NoThread = NoThread
  Unset = Unset
INVARIANT RefusedIsRolledBack
