\* A picture while the camera is focusing.
CONSTANTS
  Services = {"setPreviewWindow", "startPreview", "autoFocus", "takePicture"}
  TakeModes = {"single"}
  CpCam = FALSE
  MaxCalls = 4
  MaxFaults = 0
SPECIFICATION Spec
INVARIANTS
  NeverWaitsForItself
CHECK_DEADLOCK FALSE
