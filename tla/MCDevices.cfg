\* The components round the camera adapter, each with enough buffers, threads
\* and failures for every action of its module.
SPECIFICATION Spec
CONSTANTS
  CoreClients = {"a", "b"}
  CoreSlots = {1, 2}
  CoreFaults = 1
  ProxyThreads = {"a", "b"}
  Opener = "a"
  RemoteHdrs = {1, 2}
  ProxySlots = {1, 2}
  PlainCalls = {"SendCommand", "GetConfig"}
  ProxyFaults = 1
  InputHeaders = {"a", "b"}
  EncoderFrames = 3
  EncoderFaults = 1
  OutputBuffers = {"a", "b"}
  PortSettings = 2
  DecoderFaults = 2
  DisplayBufs = {"d1", "d2"}
  MinUndequeued = 1
  DisplayFaults = 2
  HwcKinds = {"blend", "scaled", "big", "video"}
  HwcLists = 2
  FbIsBGR = FALSE
  OnTv = TRUE
  Transformed = FALSE
  HwcFaults = 1
  SourceBufs = {"a", "b"}
  KeptBySource = 1
  Allocations = 2
  SourceFaults = 1
  ServiceThreads = {"a", "b"}
  CameraIds = {0, 1, 2}
  CamerasFound = 2
  MaxSimulCameras = 1
  Opens = 3
  ModuleFaults = 2
INVARIANT NothingAstray
PROPERTY DevicesAnswer
CHECK_DEADLOCK FALSE
