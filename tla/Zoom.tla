--------------------------------- MODULE Zoom ---------------------------------
(* Digital zoom of the OMX camera adapter (OMXZoom.cpp) during preview: the   *)
(* application sets the zoom at once, or starts and stops a smooth zoom; the  *)
(* callback thread moves it by one index with every frame.  mZoomLock guards  *)
(* the indices, and the adapter's mLock the switch of the state: the calls    *)
(* take mLock first, the callback thread and getParameters() mZoomLock.       *)
EXTENDS Integers

CONSTANTS
  ZoomStages,   \* mMaxZoomSupported: the indices are 0 .. ZoomStages - 1
  ZoomCalls,    \* calls of the application
  ZoomFaults    \* OMX_SetConfig() calls that may fail

VARIABLES
  zState, zNext,     \* adapter state and next state: "preview", "zoom"
  zLock, zoomLock,   \* who holds mLock and mZoomLock: "hal", "cb", "none"
  zHalPc, zCbPc,     \* the application's call and the callback thread
  zSeen,             \* the state either read without mLock: [hal, cb]
  zArg,              \* the index the call asks for
  current, target,   \* mCurrentZoomIdx, mTargetZoomIdx
  applied,           \* mPreviousZoomIndx: what the component has accepted
  shown,             \* mZoomParameterIdx, which getParameters() reports
  inc,               \* mZoomInc
  returnStatus,      \* mReturnZoomStatus: the next frame ends the smooth zoom
  updating, update,  \* mZoomUpdating, mZoomUpdate
  keep,              \* the index set at once, until a smooth zoom starts, or -1
  ahead,             \* the component was given the end of a smooth zoom under way
  zCalls, zFaults

zoomVars == <<zState, zNext, zLock, zoomLock, zHalPc, zCbPc, zSeen, zArg, current, target, applied,
              shown, inc, returnStatus, updating, update, keep, ahead, zCalls, zFaults>>
zAdapter == <<zState, zNext, zLock>>
indices == <<current, target, shown, inc, keep>>
reached == <<applied, ahead>>
flags == <<returnStatus, updating, update>>

Stages == 0 .. ZoomStages - 1

Init ==
  /\ zState = "preview" /\ zNext = "preview" /\ zLock = "none" /\ zoomLock = "none"
  /\ zHalPc = "idle" /\ zCbPc = "idle" /\ zSeen = [hal |-> "preview", cb |-> "preview"] /\ zArg = 0
  /\ current = 0 /\ target = 0 /\ applied = 0 /\ shown = 0 /\ inc = 1
  /\ returnStatus = FALSE /\ updating = FALSE /\ update = FALSE /\ keep = -1 /\ ahead = FALSE
  /\ zCalls = 0 /\ zFaults = 0

(* doZoom(): nothing for an index out of range, or one that is set already.   *)
DoZoom(i) ==
  \/ applied' = (IF i \in Stages THEN i ELSE applied) /\ UNCHANGED zFaults
  \/ /\ i \in Stages /\ i # applied /\ zFaults < ZoomFaults
     /\ zFaults' = zFaults + 1 /\ UNCHANGED applied

Direction == IF current < target THEN 1 ELSE -1
-----------------------------------------------------------------------------
(* The application's calls.                                                   *)

Call(pc) ==
  /\ zHalPc = "idle" /\ zCalls < ZoomCalls /\ zCalls' = zCalls + 1 /\ zHalPc' = pc
  /\ zSeen' = [zSeen EXCEPT !.hal = zState]    \* getState(state), not locked
  /\ UNCHANGED <<zAdapter, zoomLock, zCbPc, indices, reached, flags, zFaults>>

CallWith(pc) == \E i \in Stages : zArg' = i /\ Call(pc)
CallPlain(pc) == zArg' = zArg /\ Call(pc)
Calls == CallWith("set") \/ CallWith("start") \/ CallPlain("stop") \/ CallPlain("get")

(* setParametersZoom(): refused while the zoom moves; a second change before  *)
(* the next frame is left to that frame.                                      *)
SetParametersZoom ==
  /\ zHalPc = "set" /\ zoomLock = "none" /\ zHalPc' = "idle"
  /\ IF zSeen.hal = "zoom" THEN UNCHANGED <<indices, flags, reached, zFaults>>
     ELSE /\ target' = zArg /\ current' = zArg /\ keep' = zArg /\ UNCHANGED <<shown, inc, returnStatus>>
          /\ \/ ~updating /\ DoZoom(zArg) /\ ahead' = FALSE /\ updating' = TRUE /\ UNCHANGED update
             \/ updating /\ update' = TRUE /\ UNCHANGED <<updating, reached, zFaults>>
  /\ UNCHANGED <<zAdapter, zoomLock, zCbPc, zSeen, zArg, zCalls>>

(* setState() of the two commands: only preview may start.                    *)
SetState ==
  /\ zHalPc \in {"start", "stop"} /\ zLock = "none"
  /\ IF zHalPc = "start" /\ zState # "preview" THEN zHalPc' = "idle" /\ UNCHANGED <<zNext, zLock>>
     ELSE /\ zLock' = "hal" /\ zNext' = IF zHalPc = "start" THEN "zoom" ELSE "preview"
          /\ zHalPc' = IF zHalPc = "start" THEN "startLocked" ELSE "stopLocked"
  /\ UNCHANGED <<zState, zoomLock, zCbPc, zSeen, zArg, indices, reached, flags, zCalls, zFaults>>

StartSmoothZoom ==
  /\ zHalPc = "startLocked" /\ zoomLock = "none" /\ zHalPc' = "commit"
  /\ target' = zArg /\ shown' = current /\ returnStatus' = FALSE /\ keep' = -1
  /\ UNCHANGED <<zAdapter, zoomLock, zCbPc, zSeen, zArg, current, inc, reached, updating, update, zCalls, zFaults>>

StopSmoothZoom ==
  /\ zHalPc = "stopLocked" /\ zoomLock = "none" /\ zHalPc' = "commit"
  /\ IF target # current THEN inc' = Direction /\ returnStatus' = TRUE ELSE UNCHANGED <<inc, returnStatus>>
  /\ UNCHANGED <<zAdapter, zoomLock, zCbPc, zSeen, zArg, current, target, shown, keep, reached, updating, update,
                 zCalls, zFaults>>

Commit ==
  /\ zHalPc = "commit" /\ zHalPc' = "idle" /\ zState' = zNext /\ zLock' = "none"
  /\ UNCHANGED <<zNext, zoomLock, zCbPc, zSeen, zArg, indices, reached, flags, zCalls, zFaults>>

(* getParameters(): the reported zoom follows by one index a call, and the    *)
(* smooth zoom is over once it has arrived.                                   *)
GetParameters ==
  /\ zHalPc = "get" /\ zoomLock = "none"
  /\ LET new == IF shown # current THEN shown + inc ELSE shown
     IN IF zSeen.hal = "zoom"
          THEN /\ shown' = new
               /\ IF current = target /\ new = current THEN zHalPc' = "getLeave" /\ zoomLock' = "hal"
                  ELSE zHalPc' = "idle" /\ UNCHANGED zoomLock
          ELSE zHalPc' = "idle" /\ UNCHANGED <<shown, zoomLock>>
  /\ UNCHANGED <<zAdapter, zCbPc, zSeen, zArg, current, target, inc, keep, reached, flags, zCalls, zFaults>>

GetLeaves ==
  /\ zHalPc = "getLeave" /\ zLock = "none" /\ zHalPc' = "idle" /\ zoomLock' = "none"
  /\ zState' = "preview" /\ zNext' = "preview"
  /\ UNCHANGED <<zLock, zCbPc, zSeen, zArg, indices, reached, flags, zCalls, zFaults>>
-----------------------------------------------------------------------------
(* The callback thread: advanceZoom() with every preview frame.               *)

FrameArrives ==
  /\ zCbPc = "idle" /\ zoomLock = "none" /\ zoomLock' = "cb" /\ zCbPc' = "advance"
  /\ (updating \/ update \/ current # target \/ returnStatus \/ zState = "zoom")   \* else it changes nothing
  /\ zSeen' = [zSeen EXCEPT !.cb = zState]
  /\ UNCHANGED <<zAdapter, zHalPc, zArg, indices, reached, flags, zCalls, zFaults>>

(* A smooth zoom that was stopped takes one more index and ends there.        *)
Return ==
  /\ returnStatus /\ returnStatus' = FALSE
  /\ current' = current + inc /\ target' = current' /\ DoZoom(current') /\ ahead' = FALSE /\ zCbPc' = "finish"
  /\ UNCHANGED inc

Move ==
  /\ ~returnStatus /\ current # target /\ zSeen.cb = "zoom"
  /\ inc' = Direction /\ current' = current + inc' /\ DoZoom(current') /\ ahead' = FALSE
  /\ zCbPc' = IF current' = target /\ zFaults' = zFaults THEN "leave" ELSE "finish"
  /\ UNCHANGED <<target, returnStatus>>

Jump ==
  /\ ~returnStatus /\ current # target /\ zSeen.cb # "zoom"
  /\ current' = target /\ DoZoom(target) /\ ahead' = FALSE /\ zCbPc' = "finish"
  /\ UNCHANGED <<inc, target, returnStatus>>

Rest ==
  /\ ~returnStatus /\ current = target /\ zCbPc' = IF zSeen.cb = "zoom" THEN "leave" ELSE "finish"
  /\ UNCHANGED <<current, target, inc, reached, returnStatus, zFaults>>

AdvanceZoom ==
  /\ zCbPc = "advance"
  /\ Return \/ Move \/ Jump \/ Rest
  /\ UNCHANGED <<zAdapter, zoomLock, zHalPc, zSeen, zArg, shown, keep, updating, update, zCalls>>

(* CAMERA_STOP_SMOOTH_ZOOM, with mZoomLock held.                              *)
Leave ==
  /\ zCbPc = "leave" /\ zLock = "none" /\ zCbPc' = "finish" /\ zState' = "preview" /\ zNext' = "preview"
  /\ UNCHANGED <<zLock, zoomLock, zHalPc, zSeen, zArg, indices, reached, flags, zCalls, zFaults>>

(* A change that waited is given to the component last.  The target that is   *)
(* read is by now that of a smooth zoom, if one was started in between.       *)
Finish ==
  /\ zCbPc = "finish" /\ zCbPc' = "idle" /\ zoomLock' = "none" /\ updating' = update /\ update' = FALSE
  /\ IF update THEN DoZoom(target) /\ ahead' = (target # current) ELSE UNCHANGED <<reached, zFaults>>
  /\ UNCHANGED <<zAdapter, zHalPc, zSeen, zArg, indices, returnStatus, zCalls>>
-----------------------------------------------------------------------------
HalStep == SetParametersZoom \/ SetState \/ StartSmoothZoom \/ StopSmoothZoom \/ Commit \/ GetParameters \/ GetLeaves
CbStep == FrameArrives \/ AdvanceZoom \/ Leave \/ Finish
Next == Calls \/ HalStep \/ CbStep
Spec == Init /\ [][Next]_zoomVars /\ WF_zoomVars(HalStep) /\ WF_zoomVars(CbStep)
-----------------------------------------------------------------------------
TypeOK ==
  /\ {zState, zNext} \subseteq {"preview", "zoom"} /\ {zLock, zoomLock} \subseteq {"hal", "cb", "none"}
  /\ target \in -1 .. ZoomStages /\ current \in -1 .. ZoomStages /\ applied \in Stages /\ keep \in Stages \cup {-1}

(* A start or a stop holds mLock and asks for mZoomLock while the last frame  *)
(* of the smooth zoom holds mZoomLock and asks for mLock.                     *)
Inverted == zHalPc \in {"startLocked", "stopLocked"} /\ zoomLock = "cb" /\ zCbPc = "leave"

(* The component shows the index the adapter believes in, also while it       *)
(* moves, unless it refused one: a change that found another one under way is *)
(* not forgotten (mZoomUpdate).  Only a smooth zoom that is started while     *)
(* such a change waits gets ahead of the adapter: the frame gives the         *)
(* component its end, and stopped at once it stays there.                     *)
ZoomReachesComponent == ~update /\ ~ahead /\ zFaults = 0 /\ current \in Stages => applied = current

(* "Immediate zoom should be applied instantly ( CTS requirement )": what the *)
(* application set stays set until it starts a smooth zoom.                   *)
ImmediateZoomKept == keep # -1 => current = keep

(* A smooth zoom ends, and so does every call, unless the two locks block.    *)
ZoomUnderWay == (zState = "zoom" \/ zHalPc # "idle") /\ ~Inverted
SmoothZoomEnds == ZoomUnderWay ~> ~ZoomUnderWay
=============================================================================
