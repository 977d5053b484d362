------------------------------ MODULE MCFeatures ------------------------------
(* The features of the OMX camera adapter and the parameters of CameraHal:    *)
(* 3A, focus, zoom, faces, the settings of previews and pictures, bracketing, *)
(* reprocessing, the reading of capabilities, and the adapter of USB cameras. *)
(* They share no state; each is the one that runs in a part of the            *)
(* behaviours, so that one run checks them all.                               *)
CONSTANTS
  UsedSettings, SettingFaults, MaxAutoFocus, FocusFaults, ZoomStages, ZoomCalls, ZoomFaults, FacePlaces, MaxFaces,
  FaceCalls, FaceFaults, SettingCalls, PreviewFaults, RingSize, BracketRange, MaxImages, UsedCapture, CaptureCalls,
  CaptureFaults, ReprocessCalls, ReprocessFaults, Sensors, MaxCameras, OmxCamPorts, OperatingModes, CapFaults,
  AskedParameters, ParameterCalls, ParameterFaults, V4LBufs, V4LPictures, V4LFaults

VARIABLES
  active,            \* the component that runs
  scene, wanted, pending, mFirstTimeInit, configured, configuredScene, previewing, focusing, lostMarks, missed,
  settingFaults,
  afState, afNext, afLock, halPc, cmdPc, timedOut, afMsgs, focusMode, focusLock, control, status, focusEvents, seen,
  afCalls, focusFaults,
  zState, zNext, zLock, zoomLock, zHalPc, zCbPc, zSeen, zArg, current, target, applied, shown, inc, returnStatus,
  updating, update, keep, ahead, zCalls, zFaults,
  fRunning, fPaused, fSwitch, detecting, priority, given, lastOutput, faceCbPc, faceScene, reported, faceCalls,
  faceFaults,
  wantedMode, wantedOn, pendingPreview, stateSwitch, componentMode, componentOn, previewPc, inFunction,
  componentLoaded, shrunk, marked, failedSetters, settingCalls, previewFaults,
  bState, bPc, enabled, queued, count, last, atComponent, atApp, stamp, images, sent, captured, accum, burst, escaped,
  asked, givenSettings, pendingCapture, pictureAsked, picturePc, mCaptureConfigured, portFormat, expected, left,
  refusedCapture, overtaken, captureCalls, captureFaults,
  reprocessing, reprocPc, thenUse, mReprocConfigured, mUseReprocessSem, mStopReprocSem, registered, reprocCommand,
  videoInPort, header, formatted, emptying, usedFreed, halfStopped, answeredLate, reprocessCalls, reprocessFaults,
  finder, sensorId, modesLeft, attempts, compState, capCommand, capEvents, mState, mIsOk, mIsAborted,
  mPortsLeftToDisable, signalled, properties, readIn, supportedCameras, capFaults,
  mParameters, mCapModeBackup, previewIs, isRecording, adapterParams, port, unapplied, parameterCalls, parameterFaults,
  mPreviewing, mCapturing, isStreaming, mapped, known, driver, bufIndex, subscribers, threadPc, threadBuf, threadGot,
  returnPc, returnBuf, v4lHalPc, dropped, v4lRaced, twice, stolen, crashed, pictures, v4lFaults

S3A == INSTANCE Settings3A
AF == INSTANCE Focus
Zooming == INSTANCE Zoom
FD == INSTANCE Faces
Previews == INSTANCE PreviewSettings
Ring == INSTANCE Bracketing
Pictures == INSTANCE CaptureSettings
Video == INSTANCE Reprocess
Caps == INSTANCE Capabilities
Params == INSTANCE HalParameters
V4L == INSTANCE V4LAdapter

settingVars == <<scene, wanted, pending, mFirstTimeInit, configured, configuredScene, previewing, focusing, lostMarks,
                 missed, settingFaults>>
focusVars == <<afState, afNext, afLock, halPc, cmdPc, timedOut, afMsgs, focusMode, focusLock, control, status,
               focusEvents, seen, afCalls, focusFaults>>
zoomVars == <<zState, zNext, zLock, zoomLock, zHalPc, zCbPc, zSeen, zArg, current, target, applied, shown, inc,
              returnStatus, updating, update, keep, ahead, zCalls, zFaults>>
faceVars == <<fRunning, fPaused, fSwitch, detecting, priority, given, lastOutput, faceCbPc, faceScene, reported,
              faceCalls, faceFaults>>
previewVars == <<wantedMode, wantedOn, pendingPreview, stateSwitch, componentMode, componentOn, previewPc, inFunction,
                 componentLoaded, shrunk, marked, failedSetters, settingCalls, previewFaults>>
ringVars == <<bState, bPc, enabled, queued, count, last, atComponent, atApp, stamp, images, sent, captured, accum,
              burst, escaped>>
captureVars == <<asked, givenSettings, pendingCapture, pictureAsked, picturePc, mCaptureConfigured, portFormat,
                 expected, left, refusedCapture, overtaken, captureCalls, captureFaults>>
reprocessVars == <<reprocessing, reprocPc, thenUse, mReprocConfigured, mUseReprocessSem, mStopReprocSem, registered,
                   reprocCommand, videoInPort, header, formatted, emptying, usedFreed, halfStopped, answeredLate,
                   reprocessCalls, reprocessFaults>>
capabilityVars == <<finder, sensorId, modesLeft, attempts, compState, capCommand, capEvents, mState, mIsOk,
                    mIsAborted, mPortsLeftToDisable, signalled, properties, readIn, supportedCameras, capFaults>>
parameterVars == <<mParameters, mCapModeBackup, previewIs, isRecording, adapterParams, port, unapplied,
                   parameterCalls, parameterFaults>>
v4lVars == <<mPreviewing, mCapturing, isStreaming, mapped, known, driver, bufIndex, subscribers, threadPc, threadBuf,
             threadGot, returnPc, returnBuf, v4lHalPc, dropped, v4lRaced, twice, stolen, crashed, pictures, v4lFaults>>

vars == <<active,
          settingVars, focusVars, zoomVars, faceVars, previewVars, ringVars, captureVars, reprocessVars,
          capabilityVars, parameterVars, v4lVars>>
-----------------------------------------------------------------------------
(* What the components that do not run keep.                                 *)
Alone(me) ==
  /\ active = me /\ UNCHANGED active
  /\ IF me = "3a" THEN TRUE ELSE UNCHANGED settingVars
  /\ IF me = "focus" THEN TRUE ELSE UNCHANGED focusVars
  /\ IF me = "zoom" THEN TRUE ELSE UNCHANGED zoomVars
  /\ IF me = "faces" THEN TRUE ELSE UNCHANGED faceVars
  /\ IF me = "preview" THEN TRUE ELSE UNCHANGED previewVars
  /\ IF me = "ring" THEN TRUE ELSE UNCHANGED ringVars
  /\ IF me = "pictures" THEN TRUE ELSE UNCHANGED captureVars
  /\ IF me = "reprocess" THEN TRUE ELSE UNCHANGED reprocessVars
  /\ IF me = "capabilities" THEN TRUE ELSE UNCHANGED capabilityVars
  /\ IF me = "parameters" THEN TRUE ELSE UNCHANGED parameterVars
  /\ IF me = "v4l" THEN TRUE ELSE UNCHANGED v4lVars

Init ==
  /\ active \in {"3a", "focus", "zoom", "faces", "preview", "ring", "pictures", "reprocess", "capabilities", "parameters", "v4l"}
  /\ S3A!Init /\ AF!Init /\ Zooming!Init /\ FD!Init /\ Previews!Init /\ Ring!Init /\ Pictures!Init /\ Video!Init /\ Caps!Init /\ Params!Init /\ V4L!Init
  /\ active = "focus" \/ focusMode = "Auto"

Next ==
  \/ Alone("3a") /\ S3A!Next
  \/ Alone("focus") /\ AF!Next
  \/ Alone("zoom") /\ Zooming!Next
  \/ Alone("faces") /\ FD!Next
  \/ Alone("preview") /\ Previews!Next
  \/ Alone("ring") /\ Ring!Next
  \/ Alone("pictures") /\ Pictures!Next
  \/ Alone("reprocess") /\ Video!Next
  \/ Alone("capabilities") /\ Caps!Next
  \/ Alone("parameters") /\ Params!Next
  \/ Alone("v4l") /\ V4L!Next

(* The steps each component is sure to take: at most one action of a kind is  *)
(* that of the component which runs.                                          *)
First ==
  \/ Alone("focus") /\ AF!HalStep
  \/ Alone("zoom") /\ Zooming!HalStep
  \/ Alone("faces") /\ FD!CbStep
  \/ Alone("pictures") /\ Pictures!Handler
  \/ Alone("reprocess") /\ Video!Adapter
  \/ Alone("capabilities") /\ Caps!Finder
  \/ Alone("v4l") /\ V4L!PreviewThread
Second ==
  \/ Alone("focus") /\ AF!CmdStep
  \/ Alone("zoom") /\ Zooming!CbStep
  \/ Alone("pictures") /\ Pictures!ImageTaken
  \/ Alone("reprocess") /\ Video!PortAnswers
  \/ Alone("capabilities") /\ Caps!Callbacks
  \/ Alone("v4l") /\ V4L!Returner
Third ==
  \/ Alone("focus") /\ AF!CbStep
  \/ Alone("v4l") /\ V4L!Hal

Spec ==
  /\ Init /\ [][Next]_vars /\ WF_vars(First) /\ WF_vars(Second) /\ WF_vars(Third)
-----------------------------------------------------------------------------
(* What the application has asked for reaches the component, and what the     *)
(* adapter believes of it is so: settings, zoom, focus requests, modes and    *)
(* formats, rings of frames, ports and cameras; each buffer of a USB camera   *)
(* is in one place.  Each conjunct is explained in the module it comes from.  *)
RequestsTakeEffect ==
  /\ S3A!TypeOK /\ S3A!SettingsReachComponent
  /\ AF!TypeOK /\ AF!NoFocusForgotten
  /\ Zooming!TypeOK /\ Zooming!ZoomReachesComponent
  /\ FD!TypeOK
  /\ Previews!TypeOK /\ Previews!NothingUnapplied /\ Previews!RunsAsAsked
  /\ Ring!TypeOK /\ Ring!RingTurns /\ Ring!SentInOrder
  /\ Pictures!TypeOK /\ Pictures!NoSettingLost /\ Pictures!BuffersOfFormat
  /\ Video!TypeOK /\ Video!PortAsConfigured /\ Video!SemaphoresDrained
  /\ V4L!TypeOK /\ V4L!EachBufferOnce
  /\ Caps!TypeOK /\ Caps!CamerasAreComplete
  /\ Params!TypeOK /\ Params!PreviewRunsAsTold /\ Params!AdapterIsTold

(* What was begun ends: a scan of the focus, a smooth zoom, a picture, a call *)
(* for reprocessing or to the V4L adapter, the search for cameras; and the    *)
(* faces that are reported stay near the real ones.  As one component runs,   *)
(* this is what AutoFocusEnds, SmoothZoomEnds, FacesGetPriority, PicturesEnd, *)
(* ReprocessCallsReturn, V4LCallsReturn, SearchEnds and FacesFollow say.      *)
Begun ==
  \/ active = "focus" /\ AF!Focusing
  \/ active = "zoom" /\ Zooming!ZoomUnderWay
  \/ active = "faces" /\ FD!PriorityIsDue
  \/ active = "pictures" /\ picturePc = "posted"
  \/ active = "reprocess" /\ reprocPc # "idle"
  \/ active = "v4l" /\ V4L!V4LCalled
  \/ active = "capabilities" /\ finder # "start"
Over ==
  \/ active = "focus" /\ ~AF!Focusing
  \/ active = "zoom" /\ ~Zooming!ZoomUnderWay
  \/ active = "faces" /\ ~FD!PriorityIsDue
  \/ active = "pictures" /\ Pictures!PictureOver
  \/ active = "reprocess" /\ reprocPc = "idle"
  \/ active = "v4l" /\ V4L!V4LReturned
  \/ active = "capabilities" /\ finder = "done"
OperationsEnd == (Begun ~> Over) /\ FD!FacesFollow
=============================================================================
