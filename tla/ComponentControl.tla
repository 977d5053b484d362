-------------------------- MODULE ComponentControl --------------------------
(* The OMX adapter drives the camera component through its states and ports:  *)
(* the application's thread and the thread of CommandHandler register for an  *)
(* event, send a command and wait for at most OMX_CMD_TIMEOUT; the component  *)
(* executes the commands in order and reports each one.  mComponentState is   *)
(* what the adapter believes, state what the component is in.                 *)
EXTENDS OmxEvents, FiniteSets

CONSTANTS Scenarios,     \* what may go wrong: the commands whose answer may come after
                         \* the time out, and whether the hardware may fail
          MaxPreviews    \* bound on the previews that are prepared

(* The waits, and what each one asks for.                                   *)
AppWaits == {"init", "useIdle", "useEnable", "start", "capture", "flushImage", "disableImage",
             "flush", "stopIdle", "loadIdle", "loaded", "enable"}
CmdWaits == {"execDisable", "execIdle", "execExecuting"}
Waits    == AppWaits \union CmdWaits

ASSUME ScenariosAssumption   == \A s \in Scenarios : s \in [late : SUBSET Waits, fatal : BOOLEAN]
ASSUME MaxPreviewsAssumption == MaxPreviews \in Nat

Asks(command, data, semaphore) == [command |-> command, data |-> data, semaphore |-> semaphore]
Requests ==
  [init         |-> Asks(OMX_CommandPortEnable, mPrevPortIndex, "mInitSem"),
   useIdle      |-> Asks(OMX_CommandStateSet, OMX_StateIdle, "mUsePreviewSem"),
   useEnable    |-> Asks(OMX_CommandPortEnable, mPrevPortIndex, "mUsePreviewSem"),
   start        |-> Asks(OMX_CommandStateSet, OMX_StateExecuting, "mStartPreviewSem"),
   capture      |-> Asks(OMX_CommandPortEnable, mImagePortIndex, "mUseCaptureSem"),
   flushImage   |-> Asks(OMX_CommandFlush, mImagePortIndex, "mFlushSem"),
   disableImage |-> Asks(OMX_CommandPortDisable, mImagePortIndex, "mStopCaptureSem"),
   flush        |-> Asks(OMX_CommandFlush, mPrevPortIndex, "mFlushSem"),
   stopIdle     |-> Asks(OMX_CommandStateSet, OMX_StateIdle, "mSwitchToLoadedSem"),
   loadIdle     |-> Asks(OMX_CommandStateSet, OMX_StateIdle, "mSwitchToLoadedSem"),
   loaded       |-> Asks(OMX_CommandStateSet, OMX_StateLoaded, "mSwitchToLoadedSem"),
   enable       |-> Asks(OMX_CommandPortEnable, mPrevPortIndex, "mSwitchToLoadedSem"),
   execDisable  |-> Asks(OMX_CommandPortDisable, mPrevPortIndex, "mSwitchToExecSem"),
   execIdle     |-> Asks(OMX_CommandStateSet, OMX_StateIdle, "mSwitchToExecSem"),
   execExecuting |-> Asks(OMX_CommandStateSet, OMX_StateExecuting, "mSwitchToExecSem")]
Semaphores == {Requests[w].semaphore : w \in Waits}

Threads   == {"app", "cmd"}
Rest      == {"new", "idle", "preview", "failed", "released", "crashed"}
AppSteps  == {"load", "query", "ready", "useSent", "prepared", "fill"}
AppPlaces == AppWaits \union AppSteps \union Rest
CmdPlaces == CmdWaits \union {"rest"}

VARIABLES mComponentState, mHandleComp, mErrorNotifier, mStateSwitchLock,
          mEventSignalQ, semaphores,           \* registrations and the tokens posted for them
          switchRequested,                     \* CAMERA_SWITCH_TO_EXECUTING in mCommandHandler
          pc, answer,                          \* places, and how the last wait ended
          caller, mPreviewStartInProgress, mCaptureConfigured, previews,
          clearing,                            \* EventHandler is between its walk and clear()
          state, enabled, supplied, sent, alive,       \* the component
          scenario

events    == <<mEventSignalQ, semaphores>>
adapter   == <<mComponentState, mHandleComp, mErrorNotifier>>
places    == <<pc, answer>>
calls     == <<caller, mPreviewStartInProgress, mCaptureConfigured, previews>>
switching == <<mStateSwitchLock, switchRequested>>
machine   == <<state, enabled>>
component == <<machine, supplied, sent, alive>>
fixed     == <<scenario, clearing>>
vars == <<events, adapter, places, calls, switching, component, fixed>>

Init ==
  /\ mComponentState = OMX_StateInvalid
  /\ mHandleComp = FALSE /\ mErrorNotifier = FALSE
  /\ mStateSwitchLock = FALSE /\ switchRequested = FALSE
  /\ mEventSignalQ = <<>> /\ semaphores = [s \in Semaphores |-> 0]
  /\ pc = [t \in Threads |-> IF t = "app" THEN "new" ELSE "rest"]
  /\ answer = [t \in Threads |-> "none"]
  /\ caller = "query" /\ mPreviewStartInProgress = FALSE /\ mCaptureConfigured = FALSE /\ previews = 0
  /\ clearing = FALSE
  /\ state = OMX_StateLoaded /\ enabled = Ports /\ supplied = {} /\ sent = <<>> /\ alive = FALSE
  /\ scenario \in Scenarios

-----------------------------------------------------------------------------
(* Commands and their answers.                                              *)

Goto(t, l) == pc' = [pc EXCEPT ![t] = l]

(* RegisterForEvent(), then OMX_SendCommand().                              *)
Ask(t, w, l, before) ==
  /\ mEventSignalQ' = Append(mEventSignalQ, Message(OMX_EventCmdComplete, Requests[w].command,
                                                    Requests[w].data, Requests[w].semaphore))
  /\ sent' = sent \o before \o <<[command |-> Requests[w].command, data |-> Requests[w].data]>>
  /\ Goto(t, l) /\ answer' = [answer EXCEPT ![t] = "none"]

(* A command for a handle that was freed goes through a null pointer.       *)
AskThen(t, w, l) ==
  IF mHandleComp THEN Ask(t, w, l, <<>>) ELSE Goto(t, "crashed") /\ UNCHANGED <<mEventSignalQ, sent, answer>>
AskComponent(t, w) == AskThen(t, w, w)

(* Mutant: a wait that does not test the count.                             *)
AnsweredUntested(t) ==
  /\ pc[t] \in Waits /\ answer[t] = "none"
  /\ semaphores' = [semaphores EXCEPT ![Requests[pc[t]].semaphore] = @ - 1]
  /\ answer' = [answer EXCEPT ![t] = "done"]
  /\ UNCHANGED <<mEventSignalQ, adapter, pc, calls, switching, component, fixed>>

(* WaitTimeout() takes the token of the semaphore ...                       *)
Answered(t) ==
  /\ pc[t] \in Waits /\ answer[t] = "none"
  /\ LET s == Requests[pc[t]].semaphore IN
       semaphores[s] > 0 /\ semaphores' = [semaphores EXCEPT ![s] = @ - 1]
  /\ answer' = [answer EXCEPT ![t] = "done"]
  /\ UNCHANGED <<mEventSignalQ, adapter, pc, calls, switching, component, fixed>>

(* ... or finds none in time, and makes it anew with none.                  *)
Expires(t, tokens) ==
  /\ pc[t] \in Waits /\ answer[t] = "none"
  /\ semaphores[Requests[pc[t]].semaphore] = 0
  /\ pc[t] \in scenario.late \/ ~alive
  /\ semaphores' = [semaphores EXCEPT ![Requests[pc[t]].semaphore] = tokens]
  /\ answer' = [answer EXCEPT ![t] = "expired"]
  /\ UNCHANGED <<mEventSignalQ, adapter, pc, calls, switching, component, fixed>>
Expired(t) == Expires(t, 0)

Over(t, w)    == pc[t] = w /\ answer[t] # "none"
Invalid       == mComponentState = OMX_StateInvalid
Succeeded(t)  == answer[t] = "done" /\ ~Invalid

(* A wait that failed: a registration that timed out is removed, one that a  *)
(* fatal error woke is left to the walk of EventHandler.                     *)
Withdraw(t) ==
  LET r == Requests[pc[t]] IN
  mEventSignalQ' = IF answer[t] = "expired" /\ ~Invalid
                   THEN WithoutMatch(mEventSignalQ, OMX_EventCmdComplete, r.command, r.data)
                   ELSE mEventSignalQ

(* performCleanupAfterError(): the handle is freed, no event comes any more. *)
Cleanup ==
  /\ mHandleComp' = FALSE /\ mComponentState' = OMX_StateInvalid
  /\ alive' = FALSE /\ sent' = <<>>
  /\ UNCHANGED mErrorNotifier

Believe(s) == mComponentState' = s /\ UNCHANGED <<mHandleComp, mErrorNotifier>>
Lock       == ~mStateSwitchLock /\ mStateSwitchLock' = TRUE
Unlock     == mStateSwitchLock' = FALSE

(* The call ends with a cleanup.  It returns the result of the wait, which is *)
(* NO_ERROR when a fatal error woke it: then the caller takes the call for    *)
(* done and goes on.                                                          *)
GiveUp(t, l) == Withdraw(t) /\ Cleanup /\ Goto(t, l)
Result(t, done, failed) == IF answer[t] = "done" THEN done ELSE failed

-----------------------------------------------------------------------------
(* The application's thread: one call of the adapter at a time.             *)

(* initialize(): all ports are disabled, which nobody waits for, and the     *)
(* preview port is enabled again.                                            *)
Initialize ==
  /\ pc["app"] = "new"
  /\ mHandleComp' = TRUE /\ mComponentState' = OMX_StateLoaded /\ alive' = TRUE
  /\ Ask("app", "init", "init", <<[command |-> OMX_CommandPortDisable, data |-> mPrevPortIndex],
                                  [command |-> OMX_CommandPortDisable, data |-> mImagePortIndex]>>)
  /\ UNCHANGED <<mErrorNotifier, semaphores, calls, switching, machine, supplied, fixed>>

(* A time out cleans up, but initialize() returns the OMX error, which is    *)
(* none: CameraHal goes on either way and sets the error handler.            *)
InitializeDone ==
  /\ Over("app", "init")
  /\ \/ answer["app"] = "done" /\ Goto("app", "idle") /\ UNCHANGED <<mEventSignalQ, adapter, sent, alive>>
     \/ answer["app"] = "expired" /\ GiveUp("app", "idle")
  /\ UNCHANGED <<semaphores, answer, calls, switching, machine, supplied, fixed>>

SetErrorHandler ==
  /\ pc["app"] = "idle" /\ ~mErrorNotifier
  /\ mErrorNotifier' = TRUE
  /\ UNCHANGED <<events, mComponentState, mHandleComp, places, calls, switching, component, fixed>>

(* CameraHal::startPreview(): the resolution is queried unless a start is in *)
(* progress, and the query leaves the Executing state when a setting asks    *)
(* for it (mOMXStateSwitch).                                                 *)
QueryResolution ==
  /\ pc["app"] = "idle" /\ mErrorNotifier /\ previews < MaxPreviews
  /\ previews' = previews + 1
  /\ caller' = "query"
  /\ \/ mPreviewStartInProgress /\ Goto("app", "ready")
     \/ ~mPreviewStartInProgress /\ \E l \in {"query", "load"} : Goto("app", l)
  /\ UNCHANGED <<events, adapter, answer, mPreviewStartInProgress, mCaptureConfigured>>
  /\ UNCHANGED <<switching, component, fixed>>

(* getFrameSize() configures the port, which fails without a component.      *)
ResolutionKnown ==
  /\ pc["app"] = "query"
  /\ \/ ~Invalid /\ Goto("app", "ready")
     \/ Invalid /\ Goto("app", "failed")
     \/ ~mHandleComp /\ Goto("app", "crashed")
  /\ UNCHANGED <<events, adapter, answer, calls, switching, component, fixed>>

(* There is no window yet: switchToExecuting() locks for CommandHandler.     *)
SwitchToExecuting ==
  /\ pc["app"] = "ready" /\ Lock
  /\ switchRequested' = TRUE /\ mPreviewStartInProgress' = TRUE
  /\ Goto("app", "idle")
  /\ UNCHANGED <<events, adapter, answer, caller, mCaptureConfigured, previews, component, fixed>>

(* CameraHal::stopPreview() of a preview that has no window yet.             *)
StopWithoutWindow ==
  /\ pc["app"] = "idle" /\ mErrorNotifier /\ mPreviewStartInProgress
  /\ mPreviewStartInProgress' = FALSE
  /\ UNCHANGED <<events, adapter, places, caller, mCaptureConfigured, previews, switching, component, fixed>>

(* Mutant: UseBuffersPreview() does not take the lock.                       *)
UseBuffersUnlocked ==
  /\ pc["app"] = "ready"
  /\ \/ /\ mComponentState = OMX_StateLoaded
        /\ AskThen("app", "useIdle", "useSent") /\ UNCHANGED supplied
     \/ /\ mComponentState # OMX_StateLoaded
        /\ AskComponent("app", "useEnable")
        /\ supplied' = supplied \union {mPrevPortIndex}
  /\ UNCHANGED <<semaphores, adapter, calls, switching, machine, alive, fixed>>

(* UseBuffersPreview(): from Loaded the buffers come with the switch to      *)
(* Idle, otherwise with the port.  The lock is kept for startPreview().      *)
UseBuffersPreview ==
  /\ pc["app"] = "ready" /\ Lock
  /\ \/ /\ mComponentState = OMX_StateLoaded
        /\ AskThen("app", "useIdle", "useSent") /\ UNCHANGED supplied
     \/ /\ mComponentState # OMX_StateLoaded
        /\ AskComponent("app", "useEnable")
        /\ supplied' = supplied \union {mPrevPortIndex}
  /\ UNCHANGED <<semaphores, adapter, calls, switchRequested, machine, alive, fixed>>

(* The command is sent, the state is noted before the answer is there.       *)
BelieveIdle ==
  /\ pc["app"] = "useSent" /\ Goto("app", "useIdle")
  /\ Believe(OMX_StateIdle)
  /\ supplied' = supplied \union {mPrevPortIndex}
  /\ UNCHANGED <<events, answer, calls, switching, machine, sent, alive, fixed>>

(* The wait for it.  When it times out, SignalEvent() of the port is called, *)
(* which takes the registration of either command out of the queue.          *)
WithdrawBuffers ==
  IF answer["app"] = "expired" /\ ~Invalid
  THEN LET matched == MatchedSemaphore(mEventSignalQ, OMX_EventCmdComplete,
                                       OMX_CommandPortEnable, mPrevPortIndex) IN
       /\ mEventSignalQ' = WithoutMatch(mEventSignalQ, OMX_EventCmdComplete,
                                        OMX_CommandPortEnable, mPrevPortIndex)
       /\ semaphores' = [s \in Semaphores |-> semaphores[s] + IF s \in matched THEN 1 ELSE 0]
  ELSE UNCHANGED events

BuffersUsed ==
  /\ Over("app", "useIdle") \/ Over("app", "useEnable")
  /\ \/ /\ Succeeded("app") /\ Goto("app", "prepared")
        /\ UNCHANGED <<events, adapter, mStateSwitchLock, sent, alive>>
     \/ /\ ~Succeeded("app") /\ WithdrawBuffers /\ Unlock /\ Cleanup
        /\ Goto("app", Result("app", "prepared", "failed"))
  /\ UNCHANGED <<answer, calls, switchRequested, machine, supplied, fixed>>

(* startPreview(): the switch to Executing if need be ...                    *)
StartPreview ==
  /\ pc["app"] = "prepared"
  /\ \/ mComponentState = OMX_StateIdle /\ AskComponent("app", "start")
     \/ mComponentState # OMX_StateIdle /\ Goto("app", "fill") /\ UNCHANGED <<mEventSignalQ, sent, answer>>
  /\ UNCHANGED <<semaphores, adapter, calls, switching, machine, supplied, alive, fixed>>

PreviewStarted ==
  /\ Over("app", "start")
  /\ \/ /\ Succeeded("app") /\ Believe(OMX_StateExecuting) /\ Goto("app", "fill")
        /\ UNCHANGED <<mEventSignalQ, mStateSwitchLock, sent, alive>>
        /\ UNCHANGED mPreviewStartInProgress
     \/ /\ ~Succeeded("app") /\ GiveUp("app", Result("app", "preview", "failed")) /\ Unlock
        /\ mPreviewStartInProgress' = (answer["app"] # "done" /\ mPreviewStartInProgress)
  /\ UNCHANGED <<semaphores, answer, caller, mCaptureConfigured, previews, switchRequested>>
  /\ UNCHANGED <<machine, supplied, fixed>>

(* The buffers are queued, which a component that is gone may refuse, and    *)
(* which goes through a null pointer when the handle was freed.              *)
Fill ==
  \/ /\ alive /\ Goto("app", "preview") /\ mPreviewStartInProgress' = FALSE
     /\ UNCHANGED <<adapter, sent, alive>>
  \/ /\ mHandleComp /\ ~alive /\ UNCHANGED <<adapter, sent, alive>>
     /\ \/ Goto("app", "preview") /\ mPreviewStartInProgress' = FALSE
        \/ Goto("app", "failed") /\ UNCHANGED mPreviewStartInProgress
  \/ mHandleComp /\ ~alive /\ Goto("app", "failed") /\ Cleanup /\ UNCHANGED mPreviewStartInProgress
  \/ /\ ~mHandleComp /\ Goto("app", "crashed")
     /\ UNCHANGED <<adapter, sent, alive, mPreviewStartInProgress>>

(* Mutant: the lock is only released when no buffer can be queued.           *)
QueueBuffersLocked ==
  /\ pc["app"] = "fill" /\ Fill
  /\ IF alive THEN UNCHANGED mStateSwitchLock ELSE Unlock
  /\ UNCHANGED <<events, answer, caller, mCaptureConfigured, previews, switchRequested, machine, supplied, fixed>>

(* ... then the lock is released and the buffers are queued; the error path   *)
(* unlocks once more.                                                         *)
QueueBuffers ==
  /\ pc["app"] = "fill" /\ Fill /\ Unlock
  /\ UNCHANGED <<events, answer, caller, mCaptureConfigured, previews, switchRequested, machine, supplied, fixed>>

(* UseBuffersCapture() of the first picture of a preview.                    *)
UseBuffersCapture ==
  /\ pc["app"] = "preview" /\ ~mCaptureConfigured
  /\ AskComponent("app", "capture")
  /\ supplied' = supplied \union {mImagePortIndex}
  /\ UNCHANGED <<semaphores, adapter, calls, switching, machine, alive, fixed>>

(* After a fatal error startImageCapture() finds no configured capture and    *)
(* returns NO_ERROR as well.                                                  *)
CaptureConfigured ==
  /\ Over("app", "capture")
  /\ \/ /\ Succeeded("app") /\ mCaptureConfigured' = TRUE /\ Goto("app", "preview")
        /\ UNCHANGED <<mEventSignalQ, adapter, sent, alive>>
     \/ /\ ~Succeeded("app") /\ GiveUp("app", Result("app", "preview", "failed"))
        /\ UNCHANGED mCaptureConfigured
  /\ UNCHANGED <<semaphores, answer, caller, mPreviewStartInProgress, previews, switching, machine, supplied, fixed>>

(* stopPreview() and destroyTunnel(): not from another state than Executing. *)
(* disableImagePort() flushes and disables the port of a capture first.      *)
StopPreview ==
  /\ pc["app"] = "preview"
  /\ \/ /\ mComponentState # OMX_StateExecuting /\ Goto("app", "failed")
        /\ UNCHANGED <<mEventSignalQ, sent, answer, mCaptureConfigured>>
     \/ /\ mComponentState = OMX_StateExecuting /\ mCaptureConfigured' = FALSE
        /\ AskComponent("app", IF mCaptureConfigured THEN "flushImage" ELSE "flush")
  /\ UNCHANGED <<semaphores, adapter, caller, mPreviewStartInProgress, previews, switching>>
  /\ UNCHANGED <<machine, supplied, alive, fixed>>

(* disableImagePort() does not look at the result of flushBuffers() and goes *)
(* on to send a command to a handle that was freed.                          *)
ImageFlushed ==
  /\ Over("app", "flushImage")
  /\ \/ /\ Succeeded("app") /\ AskComponent("app", "disableImage")
        /\ supplied' = supplied \ {mImagePortIndex}
        /\ UNCHANGED <<adapter, alive>>
     \/ ~Succeeded("app") /\ GiveUp("app", "crashed") /\ UNCHANGED <<supplied, answer>>
  /\ UNCHANGED <<semaphores, calls, switching, machine, fixed>>

(* A fatal error leaves disableImagePort() with the result of the wait.      *)
ImagePortDisabled ==
  /\ Over("app", "disableImage")
  /\ \/ answer["app"] = "done" /\ AskComponent("app", "flush") /\ UNCHANGED <<adapter, alive>>
     \/ answer["app"] = "expired" /\ GiveUp("app", "failed") /\ UNCHANGED answer
  /\ UNCHANGED <<semaphores, calls, switching, machine, supplied, fixed>>

(* flushBuffers() that a fatal error woke cleans up and returns no error: the *)
(* preview buffers are freed through the null handle.                         *)
PreviewFlushed ==
  /\ Over("app", "flush")
  /\ \/ Succeeded("app") /\ AskComponent("app", "stopIdle") /\ UNCHANGED <<adapter, alive>>
     \/ answer["app"] = "done" /\ Invalid /\ GiveUp("app", "crashed") /\ UNCHANGED answer
     \/ answer["app"] = "expired" /\ GiveUp("app", "failed") /\ UNCHANGED answer
  /\ UNCHANGED <<semaphores, calls, switching, machine, supplied, fixed>>

(* switchToIdle() and the buffers of the preview; its result is not used.    *)
PreviewStopped ==
  /\ Over("app", "stopIdle")
  /\ \/ /\ Succeeded("app") /\ Believe(OMX_StateIdle) /\ Goto("app", "load") /\ caller' = "stop"
        /\ supplied' = supplied \ {mPrevPortIndex}
        /\ UNCHANGED <<mEventSignalQ, sent, alive>>
     \/ ~Succeeded("app") /\ GiveUp("app", "crashed") /\ UNCHANGED <<supplied, caller>>
  /\ UNCHANGED <<semaphores, answer, mPreviewStartInProgress, mCaptureConfigured, previews>>
  /\ UNCHANGED <<switching, machine, fixed>>

-----------------------------------------------------------------------------
(* switchToLoaded(), of getFrameSize(), stopPreview() and the destructor.   *)

Loaded == [query |-> "query", stop |-> "idle", release |-> "released"]
Failed == [query |-> "failed", stop |-> "idle", release |-> "released"]

SwitchToLoaded ==
  /\ pc["app"] = "load" /\ ~mStateSwitchLock
  /\ \/ /\ mComponentState \in {OMX_StateLoaded, OMX_StateInvalid}
        /\ Goto("app", Loaded[caller])
        /\ UNCHANGED <<mEventSignalQ, sent, answer, mStateSwitchLock>>
     \/ mComponentState = OMX_StateExecuting /\ Lock /\ AskComponent("app", "loadIdle")
     \/ mComponentState = OMX_StateIdle /\ Lock /\ AskComponent("app", "loaded")
  /\ UNCHANGED <<semaphores, adapter, calls, switchRequested, machine, supplied, alive, fixed>>

(* switchToIdle() that a fatal error woke returns NO_ERROR: switchToLoaded()  *)
(* goes on with the handle that was freed.                                    *)
IdleToLoad ==
  /\ Over("app", "loadIdle")
  /\ \/ /\ Succeeded("app") /\ Believe(OMX_StateIdle) /\ AskComponent("app", "loaded")
        /\ UNCHANGED <<mStateSwitchLock, alive>>
     \/ /\ answer["app"] = "done" /\ Invalid /\ GiveUp("app", "crashed")
        /\ UNCHANGED <<mStateSwitchLock, answer>>
     \/ answer["app"] = "expired" /\ GiveUp("app", Failed[caller]) /\ Unlock /\ UNCHANGED answer
  /\ UNCHANGED <<semaphores, calls, switchRequested, machine, supplied, fixed>>

(* Mutant: the query leaves the preview port as it is.                       *)
LoadedReachedDisabled ==
  /\ Over("app", "loaded")
  /\ \/ /\ Succeeded("app") /\ Believe(OMX_StateLoaded)
        /\ Unlock /\ Goto("app", Loaded[caller])
        /\ UNCHANGED <<mEventSignalQ, sent, answer, alive>>
     \/ /\ ~Succeeded("app") /\ GiveUp("app", Result("app", Loaded[caller], Failed[caller])) /\ Unlock
        /\ UNCHANGED answer
  /\ UNCHANGED <<semaphores, calls, switchRequested, machine, supplied, fixed>>

(* The query enables the preview port again.                                 *)
LoadedReached ==
  /\ Over("app", "loaded")
  /\ \/ /\ Succeeded("app") /\ Believe(OMX_StateLoaded)
        /\ \/ caller = "query" /\ AskComponent("app", "enable") /\ UNCHANGED mStateSwitchLock
           \/ /\ caller # "query" /\ Unlock /\ Goto("app", Loaded[caller])
              /\ UNCHANGED <<mEventSignalQ, sent, answer>>
        /\ UNCHANGED alive
     \/ /\ ~Succeeded("app") /\ GiveUp("app", Result("app", Loaded[caller], Failed[caller])) /\ Unlock
        /\ UNCHANGED answer
  /\ UNCHANGED <<semaphores, calls, switchRequested, machine, supplied, fixed>>

(* prevPortEnable(), whose result is not used.                               *)
PortEnabled ==
  /\ Over("app", "enable") /\ Unlock
  /\ \/ Succeeded("app") /\ Goto("app", "query") /\ UNCHANGED <<mEventSignalQ, adapter, sent, alive>>
     \/ ~Succeeded("app") /\ GiveUp("app", "query")
  /\ UNCHANGED <<semaphores, answer, calls, switchRequested, machine, supplied, fixed>>

(* The destructor, once CameraHal is done with the adapter.                  *)
Release ==
  /\ pc["app"] \in {"idle", "failed"} /\ mErrorNotifier
  /\ caller' = "release" /\ Goto("app", "load")
  /\ UNCHANGED <<events, adapter, answer, mPreviewStartInProgress, mCaptureConfigured, previews>>
  /\ UNCHANGED <<switching, component, fixed>>

-----------------------------------------------------------------------------
(* The thread of CommandHandler: doSwitchToExecuting().                     *)

DoSwitchToExecuting ==
  /\ pc["cmd"] = "rest" /\ switchRequested
  /\ switchRequested' = FALSE
  /\ \/ /\ mComponentState \in {OMX_StateExecuting, OMX_StateInvalid} /\ Unlock
        /\ UNCHANGED <<mEventSignalQ, sent, places>>
     \/ /\ mComponentState \in {OMX_StateLoaded, OMX_StateIdle}
        /\ AskComponent("cmd", "execDisable") /\ UNCHANGED mStateSwitchLock
  /\ UNCHANGED <<semaphores, adapter, calls, machine, supplied, alive, fixed>>

(* Mutant: the switch to Idle does not wait for the port.                    *)
ExecPortNotAwaited ==
  /\ pc["cmd"] = "execDisable"
  /\ AskComponent("cmd", "execIdle")
  /\ UNCHANGED <<semaphores, adapter, calls, switching, machine, supplied, alive, fixed>>

(* A time out of the port is only logged, and its registration stays.        *)
ExecPortDisabled ==
  /\ Over("cmd", "execDisable")
  /\ AskComponent("cmd", "execIdle")
  /\ UNCHANGED <<semaphores, adapter, calls, switching, machine, supplied, alive, fixed>>

(* Nor is a fatal error looked for.                                          *)
ExecFails == Cleanup /\ Unlock /\ Goto("cmd", "rest") /\ UNCHANGED <<mEventSignalQ, answer>>

ExecIdleReached ==
  /\ Over("cmd", "execIdle")
  /\ \/ /\ answer["cmd"] = "done" /\ Believe(OMX_StateIdle) /\ AskComponent("cmd", "execExecuting")
        /\ UNCHANGED <<mStateSwitchLock, alive>>
     \/ answer["cmd"] = "expired" /\ ExecFails
  /\ UNCHANGED <<semaphores, calls, switchRequested, machine, supplied, fixed>>

ExecutingReached ==
  /\ Over("cmd", "execExecuting")
  /\ \/ /\ answer["cmd"] = "done" /\ Believe(OMX_StateExecuting) /\ Unlock /\ Goto("cmd", "rest")
        /\ UNCHANGED <<mEventSignalQ, answer, sent, alive>>
     \/ answer["cmd"] = "expired" /\ ExecFails
  /\ UNCHANGED <<semaphores, calls, switchRequested, machine, supplied, fixed>>

-----------------------------------------------------------------------------
(* The component, and the thread on which it calls EventHandler.            *)

MayEnter(s) ==
  \/ s = OMX_StateIdle /\ state = OMX_StateExecuting
  \/ s = OMX_StateIdle /\ state = OMX_StateLoaded /\ enabled \subseteq supplied
  \/ s = OMX_StateExecuting /\ state = OMX_StateIdle
  \/ s = OMX_StateLoaded /\ state = OMX_StateIdle /\ supplied = {}

CanComplete(c) ==
  \/ c.command = OMX_CommandStateSet /\ MayEnter(c.data)
  \/ c.command = OMX_CommandFlush
  \/ c.command = OMX_CommandPortDisable /\ c.data \notin supplied
  \/ c.command = OMX_CommandPortEnable /\ state = OMX_StateLoaded
  \/ c.command = OMX_CommandPortEnable /\ c.data \in supplied

(* SignalEvent() of a command that is complete.                              *)
SignalEvent(c) ==
  /\ mEventSignalQ' = WithoutMatch(mEventSignalQ, OMX_EventCmdComplete, c.command, c.data)
  /\ semaphores' = [s \in Semaphores |-> semaphores[s] +
       IF s \in MatchedSemaphore(mEventSignalQ, OMX_EventCmdComplete, c.command, c.data) THEN 1 ELSE 0]

CommandComplete ==
  /\ alive /\ sent # <<>>
  /\ LET c == Head(sent) IN
       /\ CanComplete(c) /\ SignalEvent(c)
       /\ state' = IF c.command = OMX_CommandStateSet THEN c.data ELSE state
       /\ enabled' = IF c.command = OMX_CommandPortEnable THEN enabled \union {c.data}
                     ELSE IF c.command = OMX_CommandPortDisable THEN enabled \ {c.data} ELSE enabled
  /\ sent' = Tail(sent)
  /\ UNCHANGED <<adapter, places, calls, switching, supplied, alive, fixed>>

(* OMX_ErrorHardware: EventHandler walks over the queue and posts every      *)
(* semaphore, without mEventLock, and clears the queue afterwards.           *)
FatalError ==
  /\ scenario.fatal /\ alive /\ mErrorNotifier /\ ~Invalid
  /\ mComponentState' = OMX_StateInvalid /\ alive' = FALSE
  /\ semaphores' = [s \in Semaphores |->
       semaphores[s] + Cardinality({i \in DOMAIN mEventSignalQ : mEventSignalQ[i].arg3 = s})]
  /\ clearing' = TRUE
  /\ UNCHANGED <<mEventSignalQ, mHandleComp, mErrorNotifier, places, calls, switching>>
  /\ UNCHANGED <<machine, supplied, sent, scenario>>

ClearEvents ==
  /\ clearing /\ clearing' = FALSE
  /\ mEventSignalQ' = <<>>
  /\ UNCHANGED <<semaphores, adapter, places, calls, switching, component, scenario>>

-----------------------------------------------------------------------------
(* What runs on its own inside a call, and the calls.                       *)
InCall ==
  \/ InitializeDone \/ SetErrorHandler \/ ResolutionKnown \/ SwitchToExecuting \/ UseBuffersPreview
  \/ BelieveIdle \/ BuffersUsed \/ StartPreview \/ PreviewStarted \/ QueueBuffers \/ CaptureConfigured
  \/ ImageFlushed \/ ImagePortDisabled \/ PreviewFlushed \/ PreviewStopped
  \/ SwitchToLoaded \/ IdleToLoad \/ LoadedReached \/ PortEnabled
Calls ==
  \/ Initialize \/ QueryResolution \/ StopWithoutWindow \/ UseBuffersCapture \/ StopPreview \/ Release
Switch    == DoSwitchToExecuting \/ ExecPortDisabled \/ ExecIdleReached \/ ExecutingReached
Component == CommandComplete \/ FatalError \/ ClearEvents
Wait(t)   == Answered(t) \/ Expired(t)

Next == Calls \/ InCall \/ Switch \/ Component \/ \E t \in Threads : Wait(t)

(* Threads go on, a component that is alive executes what it can, and a wait *)
(* for one that is gone times out.                                           *)
Fairness ==
  /\ WF_vars(InCall) /\ WF_vars(Switch) /\ WF_vars(CommandComplete) /\ WF_vars(ClearEvents)
  /\ \A t \in Threads : WF_vars(Answered(t)) /\ WF_vars(Expired(t) /\ ~alive)

Spec     == Init /\ [][Next]_vars
FairSpec == Spec /\ Fairness

-----------------------------------------------------------------------------
Commands == {c \in [command : Nat, data : Nat] : c.command = OMX_CommandPortEnable => c.data \in Ports}

TypeOK ==
  /\ mComponentState \in States /\ mHandleComp \in BOOLEAN /\ mErrorNotifier \in BOOLEAN
  /\ mStateSwitchLock \in BOOLEAN /\ switchRequested \in BOOLEAN
  /\ mEventSignalQ \in Seq([command : {OMX_EventCmdComplete}, arg1 : Nat, arg2 : Nat, arg3 : Semaphores])
  /\ semaphores \in [Semaphores -> Nat]
  /\ pc \in [Threads -> AppPlaces \union CmdPlaces]
  /\ answer \in [Threads -> {"none", "done", "expired"}]
  /\ caller \in {"query", "stop", "release"} /\ mPreviewStartInProgress \in BOOLEAN
  /\ mCaptureConfigured \in BOOLEAN /\ previews \in Nat
  /\ clearing \in BOOLEAN /\ alive \in BOOLEAN
  /\ state \in States /\ enabled \subseteq Ports /\ supplied \subseteq Ports
  /\ sent \in Seq(Commands)
  /\ scenario \in Scenarios

(* The two threads never wait for the component at the same time, though only *)
(* some of the calls take mStateSwitchLock: an answer goes to the one that    *)
(* asked.                                                                     *)
OneAtATime == pc["cmd"] # "rest" => pc["app"] \notin AppWaits

(* No thread is in the middle of a command.                                   *)
Settled == pc["app"] \in {"idle", "ready", "prepared", "preview"} /\ pc["cmd"] = "rest" /\ ~Invalid

(* Between commands mComponentState is the state of the component, whatever   *)
(* answers came late, as long as the hardware did not fail; the preview port  *)
(* is enabled exactly in Loaded, where UseBuffersPreview() leaves it; and no  *)
(* command and no registration is left for the next one.                      *)
StateAgrees ==
  Settled /\ ~scenario.fatal =>
    /\ mComponentState = state
    /\ pc["app"] \in {"idle", "ready"} => (state = OMX_StateLoaded <=> mPrevPortIndex \in enabled)
    /\ sent = <<>> /\ mEventSignalQ = <<>>

(* A semaphore has at most one token, and only while somebody waits for it,   *)
(* even when the hardware fails, until a wait times out: the Count() tests at *)
(* the head of the calls never fail, and no wait takes an earlier answer.     *)
TokensAwaited ==
  (\A t \in Threads : answer[t] # "expired") =>
    \A s \in Semaphores : semaphores[s] > 0 =>
      /\ semaphores[s] = 1
      /\ \/ \E t \in Threads : pc[t] \in Waits /\ answer[t] = "none" /\ Requests[pc[t]].semaphore = s
         \/ pc["app"] = "useSent" /\ s = "mUsePreviewSem"

(* Every call ends, whatever fails: the application's thread does not wait    *)
(* for the lock or for the component for ever.  It comes back to "new", "idle", *)
(* "preview", "failed" or "released", or, after a failure, it goes through    *)
(* the handle that a cleanup freed ("crashed").  When nothing goes wrong it   *)
(* succeeds.                                                                  *)
Calm == scenario.late = {} /\ ~scenario.fatal


CallsReturn ==
  /\ pc["app"] \notin Rest ~> pc["app"] \in Rest
  /\ pc["app"] \notin Rest /\ Calm ~> pc["app"] \in Rest \ {"failed", "crashed"}
=============================================================================
