----------------------------- MODULE Capabilities -----------------------------
(* Finding the cameras (OMXCameraAdapter.cpp, CapabilitiesHandler, and        *)
(* CameraAdapter_Capabilities()): for every sensor a camera component of its  *)
(* own is taken through Idle and back to Loaded once per operating mode, with *)
(* a condition its callback thread signals.  The handler's mLock is held      *)
(* while a command is sent, so events come only while the finder waits.       *)
EXTENDS Naturals, Sequences, FiniteSets

CONSTANTS
  Sensors,          \* how many sensors the component knows
  MaxCameras,       \* MAX_CAMERAS_SUPPORTED
  OmxCamPorts,      \* OMX_CAMERA_NUM_PORTS
  OperatingModes,   \* how many a sensor has that is not the stereo one
  CapFaults         \* calls that fail, errors and time-outs

VARIABLES
  finder,           \* where OMXCameraAdapter_Capabilities() is
  sensorId, modesLeft,
  attempts,         \* of OMXCameraGetHandle()
  compState,        \* the component's: "None" before OMX_GetHandle()
  capCommand,       \* what it has not answered
  capEvents,        \* what the callback thread has not delivered
  mState, mIsOk, mIsAborted, mPortsLeftToDisable,
  signalled,        \* mCondition
  properties,       \* what of each sensor has been read: pairs of sensor and mode
  readIn,           \* the states the component was read in
  supportedCameras,
  capFaults

capabilityVars == <<finder, sensorId, modesLeft, attempts, compState, capCommand, capEvents, mState, mIsOk, mIsAborted,
                    mPortsLeftToDisable, signalled, properties, readIn, supportedCameras, capFaults>>
capHandler == <<mState, mIsOk, mIsAborted, mPortsLeftToDisable, signalled>>
capComponent == <<compState, capCommand, capEvents>>
capFound == <<properties, readIn, supportedCameras>>

None == "None"
Attempts == 5
Stereo == 2           \* the sensor that takes both pictures at once
ModesOf(s) == [i \in 1 .. (IF s = Stereo THEN 1 ELSE OperatingModes) |-> i]
Waiting == {"disabling", "idling", "loading"}

Init ==
  /\ finder = "start" /\ sensorId = 0 /\ modesLeft = <<>> /\ attempts = 0 /\ compState = None /\ capCommand = None
  /\ capEvents = <<>> /\ mState = None /\ mIsOk = FALSE /\ mIsAborted = TRUE /\ mPortsLeftToDisable = 0
  /\ signalled = FALSE /\ properties = {} /\ readIn = {} /\ supportedCameras = 0 /\ capFaults = 0

CapFault == capFaults < CapFaults /\ capFaults' = capFaults + 1
NoFault == UNCHANGED capFaults
-----------------------------------------------------------------------------
(* The call begins, by OMX_Init().                                            *)
Begin ==
  /\ finder = "start" /\ finder' = "sensor"
  /\ UNCHANGED <<sensorId, modesLeft, attempts, capComponent, capHandler, capFound, capFaults>>

(* OMXCameraGetHandle() tries five times.  When it gives up, the cameras      *)
(* found before are not reported.                                             *)
GetHandle ==
  /\ finder = "sensor" /\ sensorId < MaxCameras
  /\ \/ /\ NoFault /\ compState' = "Loaded" /\ capCommand' = None /\ capEvents' = <<>> /\ finder' = "disable" /\ attempts' = 0
        /\ mIsAborted' = TRUE /\ mState' = None /\ mIsOk' = FALSE /\ mPortsLeftToDisable' = 0 /\ signalled' = FALSE
     \/ /\ CapFault /\ attempts' = attempts + 1 /\ finder' = (IF attempts' = Attempts THEN "failed" ELSE finder)
        /\ UNCHANGED <<capComponent, capHandler>>
  /\ UNCHANGED <<sensorId, modesLeft, capFound>>

(* Sending a command: what it waits for is set up before, under mLock.        *)
SendCommand(what, pc) ==
  /\ mIsOk' = FALSE /\ mIsAborted' = FALSE /\ signalled' = FALSE
  /\ \/ NoFault /\ capCommand' = what /\ finder' = pc
     \/ CapFault /\ finder' = "free" /\ UNCHANGED capCommand
  /\ UNCHANGED <<sensorId, modesLeft, attempts, compState, capEvents, capFound>>

DisableAllPorts ==
  /\ finder = "disable" /\ mPortsLeftToDisable' = OmxCamPorts /\ UNCHANGED mState /\ SendCommand("PortDisable", "disabling")

SwitchToState(pc, state, next) ==
  /\ finder = pc /\ mState' = state /\ UNCHANGED mPortsLeftToDisable /\ SendCommand(state, next)

(* The wait is over: signalled, or after three seconds.  Only switchToState() *)
(* always shuts events out again.                                             *)
WaitEnds ==
  /\ finder \in Waiting
  /\ LET ok == signalled /\ mIsOk
     IN /\ (signalled /\ NoFault) \/ (~signalled /\ CapFault)
        /\ finder' = IF ~ok THEN "free"
                     ELSE CASE finder = "disabling" -> "select"
                            [] finder = "idling" -> "caps"
                            [] OTHER -> IF modesLeft = <<>> THEN "counted" ELSE "mode"
        /\ mIsAborted' = (ok \/ finder # "disabling")
  /\ UNCHANGED <<sensorId, modesLeft, attempts, capComponent, mState, mIsOk, mPortsLeftToDisable, signalled, capFound>>

(* fetchCapabilitiesForSensor(): a sensor that is not there cannot be         *)
(* selected, and that ends the search.                                        *)
SelectSensor ==
  /\ finder = "select" /\ modesLeft' = ModesOf(sensorId)
  /\ \/ NoFault /\ finder' = IF sensorId < Sensors THEN "mode" ELSE "free"
     \/ CapFault /\ finder' = "free"
  /\ UNCHANGED <<sensorId, attempts, capComponent, capHandler, capFound>>

(* fetchCapabiltiesForMode(): OMX_SetParameter() first.                       *)
SetOperatingMode ==
  /\ finder = "mode" /\ ((NoFault /\ finder' = "idle") \/ (CapFault /\ finder' = "free"))
  /\ UNCHANGED <<sensorId, modesLeft, attempts, capComponent, capHandler, capFound>>

GetCaps ==
  /\ finder = "caps" /\ finder' = "load" /\ readIn' = readIn \cup {compState}
  /\ properties' = properties \cup {<<sensorId, Head(modesLeft)>>} /\ modesLeft' = Tail(modesLeft)
  /\ UNCHANGED <<sensorId, attempts, capComponent, capHandler, supportedCameras, capFaults>>

(* OMX_FreeHandle() takes the pending events with it; the next sensor.        *)
FreeHandle ==
  /\ finder \in {"free", "counted"} /\ compState' = None /\ capCommand' = None /\ capEvents' = <<>>
  /\ IF finder = "counted" THEN sensorId' = sensorId + 1 /\ finder' = "sensor" ELSE finder' = "found" /\ UNCHANGED sensorId
  /\ UNCHANGED <<modesLeft, attempts, capHandler, capFound, capFaults>>

AllFound ==
  /\ finder = "sensor" /\ sensorId = MaxCameras /\ finder' = "found"
  /\ UNCHANGED <<sensorId, modesLeft, attempts, capComponent, capHandler, capFound, capFaults>>

(* CameraAdapter_Capabilities(): after the OMX cameras, the first of the V4L  *)
(* devices that answers, if there is room for it.                             *)
V4LCapabilities ==
  /\ finder \in {"found", "failed"} /\ finder' = "done"
  /\ LET omx == IF finder = "found" THEN sensorId ELSE 0
     IN \/ supportedCameras' = omx
        \/ omx < MaxCameras /\ supportedCameras' = omx + 1
  /\ UNCHANGED <<sensorId, modesLeft, attempts, capComponent, capHandler, properties, readIn, capFaults>>

Finder ==
  \/ GetHandle \/ DisableAllPorts \/ SwitchToState("idle", "Idle", "idling") \/ SwitchToState("load", "Loaded", "loading")
  \/ SelectSensor \/ SetOperatingMode \/ GetCaps \/ FreeHandle \/ AllFound \/ V4LCapabilities \/ WaitEnds
-----------------------------------------------------------------------------
(* The component, and what it reports.                                        *)
Answer ==
  /\ capCommand # None /\ capCommand' = None
  /\ \/ /\ NoFault
        /\ IF capCommand = "PortDisable"
             THEN capEvents' = capEvents \o [i \in 1 .. OmxCamPorts |-> "PortDisable"] /\ UNCHANGED compState
             ELSE compState' = capCommand /\ capEvents' = Append(capEvents, capCommand)
     \/ CapFault /\ capEvents' = Append(capEvents, "Error") /\ UNCHANGED compState
  /\ UNCHANGED <<finder, sensorId, modesLeft, attempts, capHandler, capFound>>

(* processEvent(), under mLock: the finder has it unless it waits or is done  *)
(* with the handler.                                                          *)
ProcessEvent ==
  /\ capEvents # <<>> /\ finder \in Waiting \cup {"free"} /\ capEvents' = Tail(capEvents)
  /\ LET e == Head(capEvents)
         last == mPortsLeftToDisable = 1
     IN IF mIsAborted THEN UNCHANGED <<mIsOk, mPortsLeftToDisable, signalled>>
        ELSE CASE e = "PortDisable" ->
                    /\ mPortsLeftToDisable' = mPortsLeftToDisable - 1 /\ mIsOk' = (mIsOk \/ last) /\ signalled' = (signalled \/ last)
               [] e = "Error" -> signalled' = TRUE /\ UNCHANGED <<mIsOk, mPortsLeftToDisable>>
               [] OTHER -> mIsOk' = (e = mState) /\ signalled' = TRUE /\ UNCHANGED mPortsLeftToDisable
  /\ UNCHANGED <<finder, sensorId, modesLeft, attempts, compState, capCommand, mState, mIsAborted, capFound, capFaults>>

Callbacks == Answer \/ ProcessEvent
Next == Begin \/ Finder \/ Callbacks

Spec == Init /\ [][Next]_capabilityVars /\ WF_capabilityVars(Finder) /\ WF_capabilityVars(Callbacks)
-----------------------------------------------------------------------------
TypeOK ==
  /\ sensorId \in 0 .. MaxCameras /\ mPortsLeftToDisable \in 0 .. OmxCamPorts /\ supportedCameras \in 0 .. MaxCameras
  /\ compState \in {None, "Loaded", "Idle"} /\ Len(capEvents) <= OmxCamPorts + 1

(* Every camera that is reported has been read in all of its modes, and only  *)
(* while the component was Idle, however commands fail and answers come late. *)
CamerasAreComplete ==
  /\ \A s \in 0 .. sensorId - 1 : \A i \in DOMAIN ModesOf(s) : <<s, i>> \in properties
  /\ readIn \subseteq {"Idle"}

(* Finding the cameras ends.                                                  *)
SearchEnds == (finder # "start") ~> (finder = "done")
=============================================================================
