------------------------------ MODULE HalModule ------------------------------
(* The HAL module (CameraHal_Module.cpp): the table of open cameras, filled   *)
(* and emptied under gCameraHalDeviceLock and read without it, the properties *)
(* of the cameras, loaded once (CameraProperties.cpp), CameraHal's parts as   *)
(* initialize() makes and deinitialize() undoes them, and the thread of the   *)
(* orientation sensor (SensorListener.cpp) that calls into an open camera.    *)
(* The service closes a camera when none of its calls on it is under way.     *)
EXTENDS Naturals, FiniteSets

CONSTANTS
  ServiceThreads,   \* of the camera service
  CameraIds,        \* that it asks for, 0 .. some number
  CamerasFound,     \* what CameraAdapter_Capabilities() reports
  MaxSimulCameras,  \* MAX_SIMUL_CAMERAS_SUPPORTED
  Opens,            \* calls of camera_device_open()
  ModuleFaults      \* what may fail while loading and opening

VARIABLES
  mInitialized, mCamerasSupported, propertyLock,     \* CameraProperties
  gCameraHalDeviceLock, gCameraHals, gCamerasOpen,
  modulePc, asked,         \* where a thread is; the camera it opens
  device,                  \* the camera of its device, or NoCamera
  adapters, leakedAdapters,      \* camera adapters alive, and given up
  listener,                \* the camera with a sensor listener, enabled, or NoCamera
  inCallback,              \* the camera the sensor thread is calling
  missing,                 \* an operation that found no CameraHal
  opens, moduleFaults

moduleVars == <<mInitialized, mCamerasSupported, propertyLock, gCameraHalDeviceLock, gCameraHals, gCamerasOpen, modulePc,
                asked, device, adapters, leakedAdapters, listener, inCallback, missing, opens, moduleFaults>>
cameraProperties == <<mInitialized, mCamerasSupported, propertyLock>>
table == <<gCameraHals, gCamerasOpen>>
camera == <<adapters, leakedAdapters, listener>>

NoCamera == 99
NoThread == "none"

Init ==
  /\ mInitialized = FALSE /\ mCamerasSupported = 0 /\ propertyLock = NoThread /\ gCameraHalDeviceLock = NoThread
  /\ gCameraHals = [i \in CameraIds |-> FALSE] /\ gCamerasOpen = 0 /\ modulePc = [t \in ServiceThreads |-> "idle"]
  /\ asked = [t \in ServiceThreads |-> NoCamera] /\ device = [t \in ServiceThreads |-> NoCamera] /\ adapters = {}
  /\ leakedAdapters = {} /\ listener = NoCamera /\ inCallback = NoCamera /\ missing = FALSE /\ opens = 0 /\ moduleFaults = 0

ModuleFault == moduleFaults < ModuleFaults /\ moduleFaults' = moduleFaults + 1
At(t, from, to) == modulePc[t] = from /\ modulePc' = [modulePc EXCEPT ![t] = to]
-----------------------------------------------------------------------------
(* camera_get_number_of_cameras() and camera_get_camera_info() both begin     *)
(* with CameraProperties::initialize(), which does nothing the second time.   *)
InitializeProperties(t) ==
  /\ propertyLock = NoThread
  /\ IF mInitialized THEN At(t, "idle", "idle") /\ UNCHANGED cameraProperties
     ELSE At(t, "idle", "loading") /\ propertyLock' = t /\ mCamerasSupported' = 0 /\ UNCHANGED mInitialized
  /\ UNCHANGED <<gCameraHalDeviceLock, table, asked, device, camera, inCallback, missing, opens, moduleFaults>>

LoadProperties(t) ==
  /\ At(t, "loading", "idle") /\ propertyLock' = NoThread
  /\ \/ mCamerasSupported' = CamerasFound /\ mInitialized' = (CamerasFound > 0) /\ UNCHANGED moduleFaults
     \/ ModuleFault /\ UNCHANGED <<mCamerasSupported, mInitialized>>
  /\ UNCHANGED <<gCameraHalDeviceLock, table, asked, device, camera, inCallback, missing, opens>>

GetProperties(id) == id < mCamerasSupported
-----------------------------------------------------------------------------
(* camera_device_open().                                                      *)
Open(t) ==
  /\ device[t] = NoCamera /\ gCameraHalDeviceLock = NoThread /\ opens < Opens /\ opens' = opens + 1
  /\ \E id \in CameraIds :
       IF id > mCamerasSupported \/ gCamerasOpen >= MaxSimulCameras \/ ~GetProperties(id)
         THEN At(t, "idle", "idle") /\ UNCHANGED <<gCameraHalDeviceLock, asked>>
         ELSE At(t, "idle", "adapter") /\ gCameraHalDeviceLock' = t /\ asked' = [asked EXCEPT ![t] = id]
  /\ UNCHANGED <<cameraProperties, table, device, camera, inCallback, missing, moduleFaults>>

(* CameraHal::initialize(): an adapter that cannot be initialized is given up *)
(* without being deleted.                                                     *)
InitializeAdapter(t) ==
  /\ \/ At(t, "adapter", "parts") /\ adapters' = adapters \cup {asked[t]} /\ UNCHANGED <<leakedAdapters, moduleFaults>>
     \/ At(t, "adapter", "failed") /\ ModuleFault /\ leakedAdapters' = leakedAdapters \cup {asked[t]} /\ UNCHANGED adapters
  /\ UNCHANGED <<cameraProperties, gCameraHalDeviceLock, table, asked, device, listener, inCallback, missing, opens>>

(* Then notifier and memory manager.                                          *)
InitializeParts(t) ==
  /\ (At(t, "parts", "sensor") /\ UNCHANGED moduleFaults) \/ (At(t, "parts", "failed") /\ ModuleFault)
  /\ UNCHANGED <<cameraProperties, gCameraHalDeviceLock, table, asked, device, camera, inCallback, missing, opens>>

(* A camera does without a sensor listener that fails.                        *)
InitializeSensor(t) ==
  /\ At(t, "sensor", "opened")
  /\ (listener' = asked[t] /\ UNCHANGED moduleFaults) \/ (ModuleFault /\ UNCHANGED listener)
  /\ UNCHANGED <<cameraProperties, gCameraHalDeviceLock, table, asked, device, adapters, leakedAdapters, inCallback, missing, opens>>

Opened(t) ==
  /\ At(t, "opened", "idle") /\ gCameraHalDeviceLock' = NoThread /\ gCamerasOpen' = gCamerasOpen + 1
  /\ gCameraHals' = [gCameraHals EXCEPT ![asked[t]] = TRUE] /\ device' = [device EXCEPT ![t] = asked[t]]
  /\ UNCHANGED <<cameraProperties, asked, camera, inCallback, missing, opens, moduleFaults>>

OpenFailed(t) ==
  /\ At(t, "failed", "idle") /\ gCameraHalDeviceLock' = NoThread /\ adapters' = adapters \ {asked[t]}
  /\ UNCHANGED <<cameraProperties, table, asked, device, leakedAdapters, listener, inCallback, missing, opens, moduleFaults>>
-----------------------------------------------------------------------------
(* An operation of the device, camera_start_preview() and the others: the     *)
(* table is read without the lock.                                            *)
Operation(t) ==
  /\ device[t] # NoCamera /\ At(t, "idle", "idle") /\ missing' = (missing \/ ~gCameraHals[device[t]])
  /\ UNCHANGED <<cameraProperties, gCameraHalDeviceLock, table, asked, device, camera, inCallback, opens, moduleFaults>>

(* camera_release() and camera_device_close() both deinitialize() the camera, *)
(* and the sensor's thread is joined.                                         *)
StopSensor(t) == inCallback # device[t] /\ listener' = IF listener = device[t] THEN NoCamera ELSE listener
Release(t) ==
  /\ device[t] # NoCamera /\ At(t, "idle", "idle") /\ StopSensor(t)
  /\ UNCHANGED <<cameraProperties, gCameraHalDeviceLock, table, asked, device, adapters, leakedAdapters, inCallback, missing,
                 opens, moduleFaults>>

Close(t) ==
  /\ device[t] # NoCamera /\ At(t, "idle", "closing") /\ gCameraHalDeviceLock = NoThread /\ gCameraHalDeviceLock' = t
  /\ UNCHANGED <<cameraProperties, table, asked, device, camera, inCallback, missing, opens, moduleFaults>>
CloseSensor(t) ==
  /\ At(t, "closing", "closed") /\ StopSensor(t)
  /\ UNCHANGED <<cameraProperties, gCameraHalDeviceLock, table, asked, device, adapters, leakedAdapters, inCallback, missing,
                 opens, moduleFaults>>
Closed(t) ==
  /\ At(t, "closed", "idle") /\ gCameraHalDeviceLock' = NoThread /\ adapters' = adapters \ {device[t]}
  /\ gCameraHals' = [gCameraHals EXCEPT ![device[t]] = FALSE] /\ gCamerasOpen' = gCamerasOpen - 1
  /\ device' = [device EXCEPT ![t] = NoCamera]
  /\ UNCHANGED <<cameraProperties, asked, leakedAdapters, listener, inCallback, missing, opens, moduleFaults>>
-----------------------------------------------------------------------------
(* handleOrientation() holds the listener's mLock while it calls the camera.  *)
HandleOrientation ==
  /\ inCallback = NoCamera /\ listener # NoCamera /\ inCallback' = listener
  /\ UNCHANGED <<cameraProperties, gCameraHalDeviceLock, table, modulePc, asked, device, camera, missing, opens, moduleFaults>>
OrientationHandled ==
  /\ inCallback # NoCamera /\ inCallback' = NoCamera
  /\ UNCHANGED <<cameraProperties, gCameraHalDeviceLock, table, modulePc, asked, device, camera, missing, opens, moduleFaults>>

OpenSteps(t) == InitializeAdapter(t) \/ InitializeParts(t) \/ InitializeSensor(t) \/ Opened(t) \/ OpenFailed(t)
CloseSteps(t) == CloseSensor(t) \/ Closed(t)
Steps(t) == LoadProperties(t) \/ OpenSteps(t) \/ CloseSteps(t)
Calls(t) == InitializeProperties(t) \/ Open(t) \/ Operation(t) \/ Release(t) \/ Close(t)
Next == (\E t \in ServiceThreads : Steps(t) \/ Calls(t)) \/ HandleOrientation \/ OrientationHandled

Spec ==
  /\ Init /\ [][Next]_moduleVars /\ WF_moduleVars(OrientationHandled)
  /\ \A t \in ServiceThreads : SF_moduleVars(Steps(t))
-----------------------------------------------------------------------------
TypeOK ==
  /\ gCamerasOpen \in 0 .. MaxSimulCameras /\ mCamerasSupported \in {0, CamerasFound} /\ adapters \subseteq CameraIds
  /\ listener \in CameraIds \cup {NoCamera} /\ inCallback \in CameraIds \cup {NoCamera}

(* Between calls gCamerasOpen is the number of cameras in the table, each has *)
(* one device and an adapter, and there is no other adapter.                  *)
TableIsExact ==
  gCameraHalDeviceLock = NoThread =>
    /\ gCamerasOpen = Cardinality({i \in CameraIds : gCameraHals[i]})
    /\ adapters = {i \in CameraIds : gCameraHals[i]} /\ adapters = {device[t] : t \in ServiceThreads} \ {NoCamera}

(* An orientation event finds the adapter of its camera alive, and an         *)
(* operation its CameraHal.                                                   *)
CalledIsAlive == (inCallback # NoCamera => inCallback \in adapters) /\ ~missing

(* Opening and closing a camera, and loading the properties, end.             *)
InModule(t) == modulePc[t] # "idle"
ModuleCallsReturn == \A t \in ServiceThreads : InModule(t) ~> ~InModule(t)
=============================================================================
