------------------------------ MODULE Reprocess ------------------------------
(* The video-in port of the OMX camera adapter (OMXReprocess.cpp): it is      *)
(* enabled with the buffer of the tap-in point and disabled again while the   *)
(* component's answers come from its callback thread through registered       *)
(* events and two semaphores, mUseReprocessSem and mStopReprocSem.  One       *)
(* buffer is used at a time.                                                  *)
EXTENDS Naturals, FiniteSets

CONSTANTS
  ReprocessCalls,    \* calls of the application
  ReprocessFaults    \* commands and calls that fail, time-outs

VARIABLES
  reprocessing,      \* the adapter's state: "preview", "loaded", "reprocess", "capture", "dead"
  reprocPc,          \* the call under way: "idle", or how far it is
  thenUse,           \* stopReprocess() was called by UseBuffersReprocess()
  mReprocConfigured,
  mUseReprocessSem, mStopReprocSem,
  registered,        \* events, "PortEnable" and "PortDisable"
  reprocCommand,     \* a command the component has not answered
  videoInPort,       \* enabled, as the component has it
  header,            \* mBufferHeader: "none", "live", "freed"
  formatted,         \* the port has the format of its buffer
  emptying,       \* buffers emptied and not returned
  usedFreed,         \* a freed header was given to the component
  halfStopped,       \* a stop has failed after freeing the buffer
  answeredLate,      \* an event has come between a time-out and RemoveEvent()
  reprocessCalls, reprocessFaults

reprocessVars == <<reprocessing, reprocPc, thenUse, mReprocConfigured, mUseReprocessSem, mStopReprocSem, registered, reprocCommand,
                   videoInPort, header, formatted, emptying, usedFreed, halfStopped, answeredLate, reprocessCalls,
                   reprocessFaults>>
waits == <<mUseReprocessSem, mStopReprocSem, registered, reprocCommand>>
buffer == <<header, formatted, emptying, usedFreed, videoInPort>>
history == <<halfStopped, answeredLate>>
limits == <<reprocessCalls, reprocessFaults>>

NoCommand == "none"

Init ==
  /\ reprocessing = "preview" /\ reprocPc = "idle" /\ thenUse = FALSE /\ mReprocConfigured = FALSE
  /\ mUseReprocessSem = 0 /\ mStopReprocSem = 0 /\ registered = {} /\ reprocCommand = NoCommand /\ videoInPort = FALSE
  /\ header = "none" /\ formatted = FALSE /\ emptying = FALSE /\ usedFreed = FALSE /\ halfStopped = FALSE /\ answeredLate = FALSE
  /\ reprocessCalls = 0 /\ reprocessFaults = 0

Fault == reprocessFaults < ReprocessFaults /\ reprocessFaults' = reprocessFaults + 1
Go(from, to) == reprocPc = from /\ reprocPc' = to

(* performCleanupAfterError() takes the component away.                       *)
CleanUp == reprocPc' = "idle" /\ reprocessing' = "dead"
-----------------------------------------------------------------------------
(* UseBuffersReprocess(): a second one while reprocessing stops the first,    *)
(* and does not look at whether it could.                                     *)
UseBuffersReprocess ==
  /\ reprocPc = "idle" /\ reprocessing \in {"preview", "reprocess", "capture"} /\ reprocessCalls < ReprocessCalls
  /\ reprocessCalls' = reprocessCalls + 1
  /\ IF mUseReprocessSem # 0 THEN UNCHANGED <<reprocPc, thenUse>>       \* BAD_VALUE
     ELSE IF reprocessing = "reprocess" /\ mReprocConfigured THEN reprocPc' = "stop" /\ thenUse' = TRUE
     ELSE reprocPc' = "use" /\ UNCHANGED thenUse
  /\ UNCHANGED <<reprocessing, mReprocConfigured, waits, buffer, history, reprocessFaults>>

(* setParametersReprocess(): that the format could not be set is forgotten    *)
(* when the event is registered.                                              *)
SetParametersReprocess ==
  /\ reprocPc = "use"
  /\ IF mReprocConfigured
       THEN /\ reprocPc' = "idle" /\ reprocessing' = (IF reprocessing = "reprocess" THEN reprocessing ELSE "loaded")
            /\ UNCHANGED <<formatted, reprocessFaults>>
       ELSE /\ reprocPc' = "enable" /\ UNCHANGED reprocessing
            /\ \/ formatted' = TRUE /\ UNCHANGED reprocessFaults
               \/ Fault /\ formatted' = FALSE
  /\ UNCHANGED <<thenUse, mReprocConfigured, waits, header, emptying, usedFreed, videoInPort, history, reprocessCalls>>

(* The port is told to enable and is given the buffer.                        *)
EnablePort ==
  /\ reprocPc = "enable" /\ registered' = registered \cup {"PortEnable"}
  /\ \/ reprocPc' = "useWait" /\ reprocCommand' = "PortEnable" /\ header' = "live" /\ UNCHANGED <<reprocessing, reprocessFaults>>
     \/ Fault /\ CleanUp /\ UNCHANGED <<reprocCommand, header>>
  /\ UNCHANGED <<thenUse, mReprocConfigured, mUseReprocessSem, mStopReprocSem, emptying, usedFreed, videoInPort, formatted, history,
                 reprocessCalls>>

UseWaitEnds ==
  /\ reprocPc = "useWait"
  /\ \/ /\ mUseReprocessSem > 0 /\ mUseReprocessSem' = mUseReprocessSem - 1 /\ mReprocConfigured' = TRUE /\ reprocPc' = "idle"
        /\ reprocessing' = (IF reprocessing = "reprocess" THEN reprocessing ELSE "loaded") /\ UNCHANGED reprocessFaults
     \/ Fault /\ reprocPc' = "useLate" /\ UNCHANGED <<mUseReprocessSem, mReprocConfigured, reprocessing>>
  /\ UNCHANGED <<thenUse, mStopReprocSem, registered, reprocCommand, buffer, history, reprocessCalls>>

(* After a time-out RemoveEvent() comes too late for an answer just counted.  *)
UseTimedOut ==
  /\ reprocPc = "useLate" /\ CleanUp /\ registered' = registered \ {"PortEnable"}
  /\ answeredLate' = (answeredLate \/ "PortEnable" \notin registered)
  /\ UNCHANGED <<thenUse, mReprocConfigured, mUseReprocessSem, mStopReprocSem, reprocCommand, buffer, halfStopped, limits>>
-----------------------------------------------------------------------------
(* The handler of CAMERA_START_REPROCESS.                                     *)
StartReprocess ==
  /\ reprocPc = "idle" /\ reprocessing = "loaded"
  /\ \/ /\ reprocessing' = "reprocess" /\ emptying' = mReprocConfigured /\ UNCHANGED <<reprocPc, reprocessFaults>>
        /\ usedFreed' = (usedFreed \/ (mReprocConfigured /\ header # "live"))
     \/ mReprocConfigured /\ Fault /\ CleanUp /\ UNCHANGED <<emptying, usedFreed>>
  /\ UNCHANGED <<thenUse, mReprocConfigured, waits, header, formatted, videoInPort, history, reprocessCalls>>

(* stopImageCapture() stops reprocessing only in that state.                  *)
StopImageCapture ==
  /\ reprocPc = "idle" /\ reprocessing = "reprocess"
  /\ IF mReprocConfigured THEN reprocPc' = "stop" /\ UNCHANGED reprocessing ELSE reprocessing' = "preview" /\ UNCHANGED reprocPc
  /\ thenUse' = FALSE /\ UNCHANGED <<mReprocConfigured, waits, buffer, history, limits>>

(* stopReprocess(): the buffer is freed before the port has answered.         *)
DisablePort ==
  /\ reprocPc = "stop" /\ registered' = registered \cup {"PortDisable"} /\ reprocCommand' = "PortDisable"
  /\ \/ header' = "freed" /\ emptying' = FALSE /\ reprocPc' = "stopWait" /\ UNCHANGED <<reprocessFaults, halfStopped>>
     \/ Fault /\ reprocPc' = "stopped" /\ halfStopped' = TRUE /\ UNCHANGED <<header, emptying>>
  /\ UNCHANGED <<reprocessing, thenUse, mReprocConfigured, mUseReprocessSem, mStopReprocSem, usedFreed, formatted, videoInPort, answeredLate,
                 reprocessCalls>>

StopWaitEnds ==
  /\ reprocPc = "stopWait"
  /\ \/ /\ mStopReprocSem > 0 /\ mStopReprocSem' = mStopReprocSem - 1 /\ mReprocConfigured' = FALSE /\ reprocPc' = "stopped"
        /\ UNCHANGED <<halfStopped, reprocessFaults>>
     \/ Fault /\ reprocPc' = "stopLate" /\ halfStopped' = TRUE /\ UNCHANGED <<mStopReprocSem, mReprocConfigured>>
  /\ UNCHANGED <<reprocessing, thenUse, mUseReprocessSem, registered, reprocCommand, buffer, answeredLate, reprocessCalls>>

StopTimedOut ==
  /\ Go("stopLate", "stopped") /\ registered' = registered \ {"PortDisable"}
  /\ answeredLate' = (answeredLate \/ "PortDisable" \notin registered)
  /\ UNCHANGED <<reprocessing, thenUse, mReprocConfigured, mUseReprocessSem, mStopReprocSem, reprocCommand, buffer, halfStopped, limits>>

Stopped ==
  /\ reprocPc = "stopped" /\ thenUse' = FALSE
  /\ IF thenUse THEN reprocPc' = "use" /\ UNCHANGED reprocessing ELSE reprocPc' = "idle" /\ reprocessing' = "preview"
  /\ UNCHANGED <<mReprocConfigured, waits, buffer, history, limits>>
-----------------------------------------------------------------------------
(* The component answers, and the callback thread signals who registered.     *)
PortAnswers ==
  /\ reprocCommand # NoCommand /\ reprocCommand' = NoCommand /\ videoInPort' = (reprocCommand = "PortEnable")
  /\ registered' = registered \ {reprocCommand}
  /\ IF reprocCommand \in registered
       THEN /\ mUseReprocessSem' = mUseReprocessSem + (IF reprocCommand = "PortEnable" THEN 1 ELSE 0)
            /\ mStopReprocSem' = mStopReprocSem + (IF reprocCommand = "PortDisable" THEN 1 ELSE 0)
       ELSE UNCHANGED <<mUseReprocessSem, mStopReprocSem>>
  /\ UNCHANGED <<reprocessing, reprocPc, thenUse, mReprocConfigured, header, formatted, emptying, usedFreed, history,
                 limits>>

(* An image capture of its own.                                               *)
Capture ==
  /\ reprocPc = "idle" /\ reprocessing \in {"preview", "capture"}
  /\ reprocessing' = (IF reprocessing = "preview" THEN "capture" ELSE "preview")
  /\ UNCHANGED <<reprocPc, thenUse, mReprocConfigured, waits, buffer, history, limits>>

Adapter == SetParametersReprocess \/ EnablePort \/ UseWaitEnds \/ UseTimedOut \/ DisablePort \/ StopWaitEnds \/ StopTimedOut \/ Stopped
Next == Adapter \/ UseBuffersReprocess \/ StartReprocess \/ StopImageCapture \/ PortAnswers \/ Capture

Spec == Init /\ [][Next]_reprocessVars /\ WF_reprocessVars(Adapter) /\ WF_reprocessVars(PortAnswers)
-----------------------------------------------------------------------------
TypeOK ==
  /\ reprocessing \in {"preview", "loaded", "reprocess", "capture", "dead"} /\ mUseReprocessSem \in 0 .. 1 /\ mStopReprocSem \in Nat
  /\ registered \subseteq {"PortEnable", "PortDisable"} /\ header \in {"none", "live", "freed"}

(* Between calls the port is enabled just when the adapter thinks so, and     *)
(* then its buffer is known to the component: unless a stop has failed or an  *)
(* answer has come right after the time-out.                                  *)
PortAsConfigured ==
  (reprocPc = "idle" /\ reprocessing # "dead" /\ ~halfStopped /\ ~answeredLate) =>
    /\ videoInPort = mReprocConfigured /\ (mReprocConfigured <=> header = "live") /\ ~usedFreed

(* No call waits with a semaphore another call has left behind, as long as no *)
(* stop has failed.                                                           *)
SemaphoresDrained == (reprocPc = "idle" /\ ~answeredLate /\ ~halfStopped) => mUseReprocessSem + mStopReprocSem = 0

ReprocessCallsReturn == (reprocPc # "idle") ~> (reprocPc = "idle")
=============================================================================
