------------------------------- MODULE Focus -------------------------------
(* Auto focus of the OMX camera adapter (OMXFocus.cpp) during preview: the    *)
(* application's call puts a message, the command thread starts the scan and  *)
(* waits under mDoAFMutex, the callback thread wakes it, and a cancel stops   *)
(* the scan and waits under mCancelAFMutex.  The component's focus control    *)
(* and status are external.  Touch focus and distances are left out.          *)
EXTENDS Naturals

CONSTANTS
  MaxAutoFocus,   \* calls of autoFocus() and cancelAutoFocus()
  FocusFaults     \* calls of the component that may fail, or answer too late

VARIABLES
  afState, afNext,   \* adapter state and next state: "preview", "af"
  afLock,            \* who is between setState() and commitState()
  halPc,             \* the application's call
  cmdPc,             \* the command thread, in doAutoFocus() and returnFocusStatus()
  timedOut,          \* timeoutReached of returnFocusStatus()
  afMsgs,            \* CAMERA_PERFORM_AUTOFOCUS messages on the way to it
  focusMode,         \* mParameters3A.Focus: "Auto" (continuous), "AutoLock", "Fixed"
  focusLock,         \* mParameters3A.FocusLock
  control, status,   \* the component's focus control and status
  focusEvents,       \* its callbacks on the way to the adapter
  seen,              \* the status that handleFocusCallback() has read
  afCalls, focusFaults

focusVars == <<afState, afNext, afLock, halPc, cmdPc, timedOut, afMsgs, focusMode, focusLock,
               control, status, focusEvents, seen, afCalls, focusFaults>>
adapterVars == <<afState, afNext, afLock>>
componentVars == <<control, status, focusEvents>>
modeVars == <<focusMode, focusLock>>

Modes == {"Auto", "AutoLock", "Fixed"}
Statuses == {"Off", "Request", "Reached", "Unable"}

Init ==
  /\ afState = "preview" /\ afNext = "preview" /\ afLock = "none" /\ halPc = "idle" /\ cmdPc = "idle"
  /\ timedOut = FALSE /\ afMsgs = 0 /\ focusMode \in Modes /\ focusLock = FALSE
  /\ control = focusMode /\ status = IF focusMode = "Auto" THEN "Reached" ELSE "Off"
  /\ focusEvents = 0 /\ seen = "none" /\ afCalls = 0 /\ focusFaults = 0

Faulty == focusFaults < FocusFaults /\ focusFaults' = focusFaults + 1
-----------------------------------------------------------------------------
(* The component.                                                             *)

(* Starting a scan, or stopping, is reported if it changes the status.        *)
Configure(to) ==
  LET new == IF to = "Off" THEN "Off" ELSE "Request"
  IN /\ control' = to /\ status' = new
     /\ focusEvents' = IF new = status THEN focusEvents ELSE focusEvents + 1

ScanEnds ==
  /\ status = "Request" /\ status' \in {"Reached", "Unable"} /\ focusEvents' = focusEvents + 1
  /\ UNCHANGED <<adapterVars, halPc, cmdPc, timedOut, afMsgs, modeVars, control, seen, afCalls, focusFaults>>

(* Continuous focus starts a scan of its own.                                 *)
Rescan ==
  /\ control = "Auto" /\ status \in {"Reached", "Unable"} /\ focusEvents = 0 /\ Configure("Auto")
  /\ UNCHANGED <<adapterVars, halPc, cmdPc, timedOut, afMsgs, modeVars, seen, afCalls, focusFaults>>
-----------------------------------------------------------------------------
(* The application's calls, one at a time under CameraHal's mLock.            *)

AutoFocus ==
  /\ halPc = "idle" /\ afCalls < MaxAutoFocus /\ afCalls' = afCalls + 1
  /\ afState # "af"    \* "Ignoring start-AF (already in progress)"
  /\ halPc' = "perform"
  /\ UNCHANGED <<adapterVars, cmdPc, timedOut, afMsgs, modeVars, componentVars, seen, focusFaults>>

(* setState(), autoFocus(), which fails if no frame comes, and the commit.    *)
Perform ==
  /\ halPc = "perform" /\ afLock = "none" /\ afState = "preview"
  /\ afNext' = "af" /\ afLock' = "hal" /\ halPc' = "put"
  /\ UNCHANGED <<afState, cmdPc, timedOut, afMsgs, modeVars, componentVars, seen, afCalls, focusFaults>>

Put ==
  /\ halPc = "put"
  /\ \/ afMsgs' = afMsgs + 1 /\ halPc' = "commit" /\ UNCHANGED focusFaults
     \/ Faulty /\ halPc' = "rollback" /\ UNCHANGED afMsgs
  /\ UNCHANGED <<adapterVars, cmdPc, timedOut, modeVars, componentVars, seen, afCalls>>

Commit ==
  /\ halPc \in {"commit", "rollback"} /\ halPc' = "idle" /\ afLock' = "none"
  /\ IF halPc = "commit" THEN afState' = afNext /\ UNCHANGED afNext
                         ELSE afNext' = afState /\ UNCHANGED afState
  /\ UNCHANGED <<cmdPc, timedOut, afMsgs, modeVars, componentVars, seen, afCalls, focusFaults>>

(* cancelAutoFocus() of CameraHal unlocks the focus with the parameters.      *)
CancelAutoFocus ==
  /\ halPc = "idle" /\ afCalls < MaxAutoFocus /\ afCalls' = afCalls + 1
  /\ focusLock' = FALSE /\ halPc' = "cancel"
  /\ UNCHANGED <<adapterVars, cmdPc, timedOut, afMsgs, focusMode, componentVars, seen, focusFaults>>

(* Both states accept it.  Only a scan that is not continuous is stopped; the *)
(* mutex is held from the stop to the wait.                                   *)
Cancel ==
  /\ halPc = "cancel" /\ afLock = "none" /\ afLock' = "hal" /\ afNext' = "preview"
  /\ halPc' = "getFocusMode"
  /\ UNCHANGED <<afState, cmdPc, timedOut, afMsgs, modeVars, componentVars, seen, afCalls, focusFaults>>

CancelStops ==
  /\ halPc = "getFocusMode"
  /\ \/ /\ control = "AutoLock" /\ Configure("Off") /\ halPc' = "waitCancel" /\ UNCHANGED focusFaults
     \/ /\ control # "AutoLock" /\ halPc' = "broadcast" /\ UNCHANGED <<componentVars, focusFaults>>
     \/ /\ Faulty /\ halPc' = "rollback" /\ UNCHANGED componentVars
  /\ UNCHANGED <<adapterVars, cmdPc, timedOut, afMsgs, modeVars, seen, afCalls>>

(* CANCEL_AF_TIMEOUT passes if no callback is left that may signal.           *)
CancelTimesOut ==
  /\ halPc = "waitCancel"
  /\ \/ focusEvents = 0 /\ seen = "none" /\ UNCHANGED focusFaults
     \/ Faulty
  /\ halPc' = "broadcastFailed"
  /\ UNCHANGED <<adapterVars, cmdPc, timedOut, afMsgs, modeVars, componentVars, seen, afCalls>>

Wakened == IF cmdPc = "wait" THEN "return" ELSE cmdPc

CancelSignals ==
  /\ halPc \in {"broadcast", "broadcastFailed"} /\ cmdPc' = Wakened
  /\ halPc' = IF halPc = "broadcast" THEN "commit" ELSE "rollback"
  /\ UNCHANGED <<adapterVars, timedOut, afMsgs, modeVars, componentVars, seen, afCalls, focusFaults>>

(* The focus mode of the parameters is configured unless an AF is active.     *)
SetFocusMode ==
  /\ halPc = "idle" /\ afState = "preview" /\ afCalls < MaxAutoFocus /\ afCalls' = afCalls + 1
  /\ focusMode' \in Modes \ {focusMode} /\ control' = focusMode'
  /\ focusLock' = (focusLock /\ focusMode' # "Fixed")
  /\ UNCHANGED <<adapterVars, halPc, cmdPc, timedOut, afMsgs, status, focusEvents, seen, focusFaults>>
-----------------------------------------------------------------------------
(* doAutoFocus() on the command thread.                                       *)

(* The locked accessors: it waits for a call that is changing the state.      *)
Check ==
  /\ cmdPc = "idle" /\ afMsgs > 0 /\ afLock = "none" /\ afMsgs' = afMsgs - 1
  /\ cmdPc' = IF afState # "af" THEN "idle" ELSE IF focusMode = "Fixed" THEN "return" ELSE "focus"
  /\ timedOut' = (cmdPc' = "return")
  /\ UNCHANGED <<adapterVars, halPc, modeVars, componentVars, seen, afCalls, focusFaults>>

(* Mutant: continuous focus that has settled is not answered.                 *)
ReturnsUnanswered(s) == focusMode = "Auto" /\ s \in {"Off", "Reached"} /\ cmdPc' = "idle"

(* In continuous focus a scan is made only if the last one went wrong; with   *)
(* the focus locked the status is not even read, and taken for Off.           *)
ReturnsAtOnce(s) == focusMode = "Auto" /\ s \in {"Off", "Reached"} /\ cmdPc' = "return"

Focus ==
  /\ cmdPc = "focus"
  /\ LET s == IF focusLock \/ focusMode # "Auto" THEN "Off" ELSE status
     IN \/ /\ ReturnsAtOnce(s) /\ timedOut' = TRUE /\ UNCHANGED <<componentVars, focusFaults>>
        \/ /\ ~(focusMode = "Auto" /\ s \in {"Off", "Reached"})
           /\ Configure(IF focusMode = "Auto" /\ s # "Unable" THEN "Auto" ELSE "AutoLock")
           /\ cmdPc' = "wait" /\ timedOut' = FALSE /\ UNCHANGED focusFaults
        \/ /\ Faulty /\ cmdPc' = "idle" /\ UNCHANGED <<timedOut, componentVars>>
  /\ focusLock' = FALSE
  /\ UNCHANGED <<adapterVars, halPc, afMsgs, focusMode, seen, afCalls>>

TimeOut ==
  /\ cmdPc = "wait" /\ cmdPc' = "return" /\ timedOut' = TRUE
  /\ UNCHANGED <<adapterVars, halPc, afMsgs, modeVars, componentVars, seen, afCalls, focusFaults>>

(* returnFocusStatus(): reads the states without the lock, so a cancel that   *)
(* has not been committed does not count, then the status.                    *)
Return ==
  /\ cmdPc = "return"
  /\ \/ /\ afState # "af" /\ afNext # "af" /\ cmdPc' = "idle"
        /\ UNCHANGED <<focusLock, componentVars, focusFaults>>
     \/ /\ afState = "af" \/ afNext = "af"
        /\ \/ timedOut /\ cmdPc' = "setState" /\ UNCHANGED <<focusLock, componentVars, focusFaults>>
           \/ /\ ~timedOut /\ status = "Off" /\ cmdPc' = "idle"
              /\ UNCHANGED <<focusLock, componentVars, focusFaults>>
           \/ /\ ~timedOut /\ status # "Off" /\ cmdPc' = "setState"
              /\ focusLock' = TRUE /\ Configure("Off") /\ UNCHANGED focusFaults
           \/ /\ ~timedOut /\ Faulty /\ cmdPc' = "setState" /\ UNCHANGED <<focusLock, componentVars>>
  /\ UNCHANGED <<adapterVars, halPc, timedOut, afMsgs, focusMode, seen, afCalls>>

(* setState(CAMERA_CANCEL_AUTOFOCUS), accepted in both states, commitState()  *)
(* and the event to the application.                                          *)
Notify ==
  /\ cmdPc = "setState" /\ afLock = "none" /\ cmdPc' = "idle"
  /\ afState' = "preview" /\ afNext' = "preview"
  /\ UNCHANGED <<afLock, halPc, timedOut, afMsgs, modeVars, componentVars, seen, afCalls, focusFaults>>
-----------------------------------------------------------------------------
(* handleFocusCallback(): reads the status, then takes a mutex to signal.     *)

HandleFocusCallback ==
  /\ focusEvents > 0 /\ seen = "none" /\ focusEvents' = focusEvents - 1
  /\ \/ seen' = status /\ UNCHANGED focusFaults
     \/ Faulty /\ seen' = IF afNext = "af" THEN "failed" ELSE "none"
  /\ UNCHANGED <<adapterVars, halPc, cmdPc, timedOut, afMsgs, modeVars, control, status, afCalls>>

Signal ==
  /\ seen # "none" /\ seen' = "none"
  /\ halPc' = IF seen = "Off" /\ halPc = "waitCancel" THEN "broadcast" ELSE halPc
  /\ cmdPc' = IF seen \in {"Reached", "Unable", "failed"} THEN Wakened ELSE cmdPc
  /\ UNCHANGED <<adapterVars, timedOut, afMsgs, modeVars, componentVars, afCalls, focusFaults>>

HalStep == Perform \/ Put \/ Commit \/ Cancel \/ CancelStops \/ CancelTimesOut \/ CancelSignals
CmdStep == Check \/ Focus \/ TimeOut \/ Return \/ Notify
CbStep == HandleFocusCallback \/ Signal

Next == AutoFocus \/ CancelAutoFocus \/ SetFocusMode \/ HalStep \/ CmdStep \/ CbStep \/ ScanEnds \/ Rescan

(* The threads run; a wait ends at its time out at the latest.                *)
Spec ==
  /\ Init /\ [][Next]_focusVars
  /\ WF_focusVars(HalStep) /\ WF_focusVars(CmdStep) /\ WF_focusVars(CbStep)
-----------------------------------------------------------------------------
TypeOK ==
  /\ {afState, afNext} \subseteq {"preview", "af"} /\ afLock \in {"none", "hal"}
  /\ afMsgs \in 0 .. MaxAutoFocus /\ focusMode \in Modes /\ control \in Modes \cup {"Off"}
  /\ status \in Statuses /\ seen \in Statuses \cup {"none", "failed"}
  /\ afCalls \in 0 .. MaxAutoFocus /\ focusFaults \in 0 .. FocusFaults

(* While no call is changing the state, somebody is going to leave AF_STATE:  *)
(* the message is on its way or doAutoFocus() runs.                           *)
NoFocusForgotten == focusFaults = 0 /\ afState = "af" /\ afLock = "none" => afMsgs > 0 \/ cmdPc # "idle"

(* Without faults every auto focus ends.                                      *)
Focusing == afState = "af" /\ focusFaults = 0
AutoFocusEnds == Focusing ~> ~Focusing
=============================================================================
