\* Recordings are stopped and started again while frames are under way.
\* A valueFor() of a missing key aborts the process: behaviours may end.
SPECIFICATION Spec
CONSTANTS
  Bufs = {b1, b2}
  Display = display
  Apps = {}
  Encoder = encoder
  Omx = omx
  Control = control
  NoBuf = NoBuf
  MaxRecordings = 2
  MayStop = TRUE
  VideoSnapshots = FALSE
SYMMETRY BufferSymmetry
INVARIANTS
  StopLosesNoBuffer
  VideoFramesReclaimed
PROPERTIES
  LateReleaseTakesNothing
CHECK_DEADLOCK FALSE
