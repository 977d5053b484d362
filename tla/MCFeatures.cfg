\* The features of the camera adapter, each with enough settings, calls and
\* failures for every action of its module.
SPECIFICATION Spec
CONSTANTS
  UsedSettings = {"Focus", "Contrast", "EVCompensation"}
  SettingFaults = 1
  MaxAutoFocus = 2
  FocusFaults = 1
  ZoomStages = 3
  ZoomCalls = 3
  ZoomFaults = 1
  FacePlaces = 3
  MaxFaces = 2
  FaceCalls = 3
  FaceFaults = 1
  SettingCalls = 2
  PreviewFaults = 1
  RingSize = 3
  BracketRange = 2
  MaxImages = 5
  UsedCapture = {"Format", "Rotation", "Burst"}
  CaptureCalls = 2
  CaptureFaults = 1
  ReprocessCalls = 4
  ReprocessFaults = 2
  Sensors = 3
  MaxCameras = 3
  OmxCamPorts = 2
  OperatingModes = 1
  CapFaults = 5
  V4LBufs = {0, 1}
  V4LPictures = 1
  V4LFaults = 1
  AskedParameters = {"hint", "scene", "size"}
  ParameterCalls = 2
  ParameterFaults = 1
INVARIANT RequestsTakeEffect
PROPERTY OperationsEnd
CHECK_DEADLOCK FALSE
