\* Five calls: a window, a preview, and three that meet; one of them, or one
\* allocation, may fail at any point.
CONSTANTS
  Services <- AllServices
  TakeModes = {"single", "burst"}
  CpCam = TRUE
  MaxCalls = 5
  MaxFaults = 1
SPECIFICATION Spec
INVARIANTS
  TypeOK
  BuffersOutliveAdapter
  PicturesHaveBuffers
  FlagsFollowAdapter
PROPERTIES
  CallsReturn
\* The calls are used up, or takePicture() waits for itself.
CHECK_DEADLOCK FALSE
