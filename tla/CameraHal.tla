----------------------------- MODULE CameraHal -----------------------------
(* CameraHal: the calls of the camera service, each a sequence of steps on   *)
(* the camera adapter, the display adapter, the notifier and the buffers,    *)
(* against the threads of the adapter that end pictures and focusing.        *)
(* The adapter is its transition table; a command may also fail in its hook. *)
EXTENDS Integers, Sequences, FiniteSets, AdapterTransitions

CONSTANTS Services,   \* the calls the camera service makes
          TakeModes,  \* of takePicture(): "single", "burst"
          MaxCalls,   \* bound: how many of them
          MaxFaults   \* bound: how many commands and allocations fail

ASSUME CameraHalAssumption ==
  TakeModes \subseteq {"single", "burst"} /\ MaxCalls \in Nat /\ MaxFaults \in Nat

Flags == {"mPreviewEnabled", "mPreviewStartInProgress", "mDisplayPaused",
          "mPreviewInitializationDone", "mSetPreviewWindowCalled", "mRecordingEnabled",
          "mBracketingEnabled", "mBracketingRunning"}

VARIABLES
  adapter,   \* the state of the camera adapter
  flags,     \* the members of CameraHal that are true
  buffers,   \* mPreviewBuffers, mImageBuffers, mVideoBuffers: who allocated them
  display,   \* the display adapter: how many there were, is there one, is it on, paused
  tapout,    \* is there a mBufferSourceAdapter_Out?
  taken,     \* did another tap free the image buffers, and none were allocated since?
  notifier,  \* what AppCallbackNotifier is doing
  mLock,     \* free, or held by the service's thread
  todo, ret, \* what is left of the call, and what it is going to return
  call,      \* the call
  calls, faults,
  shot, owed, \* the pictures started so far; the one whose end is to be signalled
  misfreed   \* buffers given to something that did not allocate them

vars == <<adapter, flags, buffers, display, tapout, taken, notifier, mLock, todo, ret, call,
          calls, faults, shot, owed, misfreed>>
taps == <<tapout, taken>>
hal  == <<flags, buffers, display, taps, notifier>>
app  == <<call, calls>>
pics == <<shot, owed>>

Kinds  == {"preview", "image", "video"}
(* Whoever allocated buffers: one of the display adapters, or              *)
Nobody    == 0
MemoryMgr == -1
Gralloc   == -2
Tap       == -3
Is(f)  == f \in flags

Init ==
  /\ adapter = "INITIALIZED" /\ flags = {} /\ buffers = [k \in Kinds |-> Nobody]
  /\ display = [made |-> 0, alive |-> FALSE, on |-> FALSE, paused |-> FALSE]
  /\ tapout = FALSE /\ taken = FALSE
  /\ notifier = {"started"}
  /\ mLock = "free" /\ todo = <<>> /\ ret = "ok" /\ call = "none"
  /\ calls = 0 /\ faults = 0 /\ shot = 0 /\ owed = 0 /\ misfreed = FALSE

(* Steps: a command whose failure ends the function, a command whose result  *)
(* is ignored, a step of CameraHal's own, and the end of a function.         *)
Must(c) == <<"must", c>>
Try(c)  == <<"try", c>>
Do(s)   == <<"do", s>>
End(f)  == <<"end", f>>

Rest == Tail(todo)
(* Mutant: an early return leaves mLock locked.                              *)
ReturnLocked == <<todo[Len(todo)]>>

(* Mutant: an early return is one of the callers too, and unnoticed.         *)
ReturnUnnoticed == <<>>

(* What is left when the function that is running returns: its end is next.  *)
Return ==
  LET e == CHOOSE i \in 1..Len(todo) : /\ todo[i][1] = "end"
                                       /\ \A j \in 1..i - 1 : todo[j][1] # "end"
  IN SubSeq(todo, e, Len(todo))
At(s) == todo # <<>> /\ Head(todo) = Do(s)

(* previewEnabled()                                                          *)
PreviewEnabled == Is("mPreviewEnabled") \/ Is("mPreviewStartInProgress")

(* The bits of the states that CameraHal looks at.                           *)
Capturing == adapter \in {"CAPTURE", "BRACKETING", "VIDEO_CAPTURE", "REPROCESS"}

-----------------------------------------------------------------------------
(* The sequences that make up the calls.                                     *)

(* Mutant: the buffers are freed before the adapter is rolled back.          *)
ForceStopFreesFirst ==
  (IF Is("mBracketingRunning") THEN <<Do("stop bracketing")>> ELSE <<>>)
  \o <<Do("disable display"), Do("stop callbacks"), Do("free preview buffers"),
       Do("rollback"), Do("preview is off")>>

(* Mutant: the preview still counts as enabled.                              *)
ForceStopKeepsFlags ==
  (IF Is("mBracketingRunning") THEN <<Do("stop bracketing")>> ELSE <<>>)
  \o <<Do("disable display"), Do("stop callbacks"), Do("rollback"),
       Do("free preview buffers")>>

(* forceStopPreview()                                                        *)
ForceStopPreview ==
  (IF Is("mBracketingRunning") THEN <<Do("stop bracketing")>> ELSE <<>>)
  \o <<Do("disable display"), Do("stop callbacks"), Do("rollback"),
       Do("free preview buffers"), Do("preview is off")>>

(* startPreview() and restartPreview()                                       *)
StartPreview ==
  <<Do("initialization"), Do("initialized"), Must("START_PREVIEW"), Do("preview is on"),
    End("startPreview")>>

RestartPreview ==
  ForceStopPreview \o <<Do("lock"), Do("unlock")>> \o StartPreview

(* signalEndImageCapture()                                                   *)
SignalEndImageCapture == <<Do("lock"), Do("end capture"), Do("unlock")>>

(* The resume of a preview that a picture had paused.                        *)
ResumePreview == <<Do("resume display")>> \o SignalEndImageCapture

(* cameraPreviewInitialization(): nothing to do, no window yet, resume, or   *)
(* buffers for the display and the adapter.                                  *)
PreviewInitialization ==
  (IF Is("mPreviewStartInProgress") \/ Is("mDisplayPaused")
   THEN <<>> ELSE <<Must("QUERY_RESOLUTION_PREVIEW")>>)
  \o IF ~Is("mSetPreviewWindowCalled") \/ ~display.alive THEN <<Do("wait for window")>>
     ELSE IF Is("mDisplayPaused") THEN ResumePreview
     ELSE <<Do("allocate preview buffers"), Must("USE_BUFFERS_PREVIEW"), Do("start callbacks")>>

(* The cleanup after an error: freePreviewBufs() comes first.                *)
Cleanup ==
  <<Do("free preview buffers"), Try("STOP_PREVIEW"), Do("drop display"),
    Do("cleaned up")>>

(* What a function does about a step that failed before it returns.          *)
OnError(s) ==
  IF s \in {"allocate preview buffers", "START_PREVIEW"} THEN Cleanup
  ELSE IF s = "USE_BUFFERS_PREVIEW" THEN <<Do("free preview buffers")>>
  ELSE <<>>

(* cancelAutoFocus(), and __takePicture()'s use of it                        *)
CancelAutoFocus == <<Do("lock"), Try("CANCEL_AUTOFOCUS"), Do("unlock")>>
CancelFocusFirst == IF adapter = "AF" THEN CancelAutoFocus ELSE <<>>

(* Mutant: the adapter is given the buffers before they are allocated.       *)
BuffersTooLate ==
  <<Must("QUERY_BUFFER_SIZE_IMAGE_CAPTURE"), Must("USE_BUFFERS_IMAGE_CAPTURE"),
    Do("allocate image buffers")>>

(* The buffers of a picture, which the adapter says the size of.             *)
PictureBuffers ==
  <<Must("QUERY_BUFFER_SIZE_IMAGE_CAPTURE"), Do("allocate image buffers"),
    Must("USE_BUFFERS_IMAGE_CAPTURE")>>

(* __takePicture(): nothing while a picture is taken; in bracketing and when *)
(* reprocessing, the adapter gets another shot to take; otherwise            *)
(* the preview is paused (not in a burst, and not when recording) and the    *)
(* adapter is given buffers.  The CP_CAM capture mode is left out.           *)
TakePicture(mode) ==
  IF \/ ~PreviewEnabled /\ ~Is("mDisplayPaused")
     \/ adapter \in {"CAPTURE", "VIDEO_CAPTURE"}
  THEN <<Do("refuse")>>
  ELSE (IF Capturing \/ Is("mBracketingRunning") THEN <<>>
        ELSE (IF display.alive /\ mode # "burst" /\ adapter # "VIDEO"
              THEN <<Do("pause preview")>> ELSE <<>>)
             \o PictureBuffers)
       \o <<Must("START_IMAGE_CAPTURE")>>

(* startImageBracketing()                                                    *)
StartImageBracketing ==
  IF ~PreviewEnabled /\ ~Is("mDisplayPaused") THEN <<>>
  ELSE <<Do("bracketing is on")>> \o PictureBuffers
       \o <<Must("START_BRACKET_CAPTURE"), End("startImageBracketing")>>

(* startRecording(), from where the preview has been restarted if need be    *)
StartRecording(ownBuffers) ==
  (IF ownBuffers THEN <<Do("allocate video buffers")>> ELSE <<>>)
  \o <<Do("start recording"), Must("START_VIDEO"), Do("recording is on")>>

-----------------------------------------------------------------------------
(* The service calls, one at a time.                                         *)

Begin(c, steps) ==
  /\ call = "none" /\ calls < MaxCalls /\ c \in Services
  /\ call' = c /\ calls' = calls + 1 /\ ret' = "ok"
  /\ todo' = steps \o <<End(c)>>

Refuse(c) ==
  /\ call = "none" /\ calls < MaxCalls /\ c \in Services
  /\ calls' = calls + 1
  /\ UNCHANGED <<call, ret, todo>>

Elsewhere == UNCHANGED <<adapter, mLock, faults, pics, misfreed>>

CallStartPreview == Begin("startPreview", StartPreview) /\ Elsewhere /\ UNCHANGED hal

(* stopPreview(): a paused preview is left alone unless a picture is taken.  *)
(* (state & CAPTURE_STATE) is not zero in any state, so that only the next   *)
(* state counts.                                                             *)
CallStopPreview ==
  /\ LET idle == \/ ~PreviewEnabled /\ ~Is("mDisplayPaused")
                 \/ Is("mRecordingEnabled")
                 \/ Is("mDisplayPaused") /\ adapter = "PREVIEW"
     IN IF idle THEN Refuse("stopPreview") ELSE Begin("stopPreview", ForceStopPreview)
  /\ Elsewhere /\ UNCHANGED hal

(* setPreviewWindow(): no window, the first one, or another one.  The        *)
(* destructor of the display adapter switches it off.                        *)
CallSetNoWindow ==
  /\ Refuse("setPreviewWindow NULL")
  /\ flags' = IF display.alive THEN flags \ {"mSetPreviewWindowCalled"}
              ELSE flags \cup {"mSetPreviewWindowCalled"}
  /\ display' = [display EXCEPT !.alive = FALSE, !.on = FALSE, !.paused = FALSE]
  /\ Elsewhere /\ UNCHANGED <<buffers, taps, notifier>>

CallSetFirstWindow ==
  /\ ~display.alive
  /\ Begin("setPreviewWindow", IF Is("mPreviewStartInProgress") THEN StartPreview ELSE <<>>)
  /\ display' = [made |-> display.made + 1, alive |-> TRUE, on |-> FALSE, paused |-> FALSE]
  /\ flags' = flags \cup {"mSetPreviewWindowCalled"}
  /\ Elsewhere /\ UNCHANGED <<buffers, taps, notifier>>

CallSetOtherWindow ==
  /\ display.alive
  /\ Begin("setPreviewWindow", IF PreviewEnabled THEN RestartPreview ELSE <<>>)
  /\ display' = [display EXCEPT !.on = FALSE, !.paused = FALSE]
  /\ flags' = flags \cup {"mSetPreviewWindowCalled"}
  /\ Elsewhere /\ UNCHANGED <<buffers, taps, notifier>>

(* setParameters(): the parameters are taken over under mLock; bracketing    *)
(* may be switched; the preview is restarted or stopped when they need it.   *)
CallSetParameters ==
  /\ \E bracketing \in {Is("mBracketingEnabled"), TRUE, FALSE} :
       Begin("setParameters",
             <<Do("lock")>>
             \o (IF bracketing THEN <<Do("enable bracketing")>>
                 ELSE <<Do("disable bracketing")>>
                      \o IF Is("mBracketingRunning") THEN <<Do("stop bracketing")>> ELSE <<>>)
             \o <<Do("unlock"), Do("bracket")>>)
  /\ Elsewhere /\ UNCHANGED hal

CallSetParametersRestart ==
  /\ Begin("setParameters restart",
           <<Do("lock"), Do("unlock")>>
           \o (IF Is("mRecordingEnabled") THEN <<>>
               ELSE IF PreviewEnabled THEN RestartPreview
               ELSE IF Is("mDisplayPaused") THEN ForceStopPreview
               ELSE <<>>)
           \o <<Do("bracket")>>)
  /\ Elsewhere /\ UNCHANGED hal

(* takePicture(): mLock is held all along, and cancelAutoFocus(), which      *)
(* takes it too, comes first when the camera is focusing.                    *)
CallTakePicture ==
  /\ \E mode \in TakeModes :
       Begin("takePicture",
             <<Do("lock")>> \o CancelFocusFirst \o <<<<"take", mode>>, End("__takePicture"),
                                                    Do("unlock")>>)
  /\ Elsewhere /\ UNCHANGED hal

CallCancelPicture == Begin("cancelPicture", SignalEndImageCapture) /\ Elsewhere /\ UNCHANGED hal

(* autoFocus() and cancelAutoFocus()                                         *)
CallAutoFocus ==
  /\ Begin("autoFocus",
           <<Do("lock")>> \o (IF adapter = "AF" THEN <<>> ELSE <<Try("PERFORM_AUTOFOCUS")>>)
           \o <<Do("unlock")>>)
  /\ Elsewhere /\ UNCHANGED hal

CallCancelAutoFocus ==
  /\ Begin("cancelAutoFocus", CancelAutoFocus)
  /\ Elsewhere /\ UNCHANGED hal

(* startRecording() and stopRecording()                                      *)
CallStartRecording ==
  /\ IF ~PreviewEnabled THEN Refuse("startRecording")
     ELSE \E restart, ownBuffers \in BOOLEAN :
            Begin("startRecording",
                  (IF restart THEN RestartPreview \o <<Do("check")>> ELSE <<>>)
                  \o StartRecording(ownBuffers))
  /\ Elsewhere /\ UNCHANGED hal

CallStopRecording ==
  /\ IF ~Is("mRecordingEnabled") THEN Refuse("stopRecording")
     ELSE Begin("stopRecording",
                <<Do("lock")>>
                \o (IF adapter = "VIDEO_CAPTURE" THEN <<Try("STOP_IMAGE_CAPTURE")>> ELSE <<>>)
                \o <<Try("STOP_VIDEO"), Do("stop recording"), Do("unlock")>>)
  /\ Elsewhere /\ UNCHANGED hal

(* setBufferSource(), and reprocess() with its own picture                   *)
CallSetBufferSource ==
  /\ CpCam
  /\ \E out \in BOOLEAN :
       Begin("setBufferSource",
             IF ~out /\ tapout THEN SignalEndImageCapture \o <<Do("drop tap")>>
             ELSE IF out THEN <<Do("set tap")>> ELSE <<>>)
  /\ Elsewhere /\ UNCHANGED hal

CallReprocess ==
  /\ CpCam
  /\ Begin("reprocess", <<Do("lock"), Must("USE_BUFFERS_REPROCESS"), <<"take", "burst">>,
                          End("__takePicture"), Do("unlock")>>)
  /\ Elsewhere /\ UNCHANGED hal

(* sendCommand(): the zoom goes to the adapter, where face detection changes *)
(* no state; with VTC the preview is initialized ahead of startPreview().    *)
CallSendCommand ==
  /\ IF ~PreviewEnabled THEN Refuse("sendCommand")
     ELSE \E c \in {"START_SMOOTH_ZOOM", "STOP_SMOOTH_ZOOM"} :
            Begin("sendCommand", <<Try(c)>>)
  /\ Elsewhere /\ UNCHANGED hal

CallInitializePreview ==
  /\ Begin("sendCommand", <<Do("initialization")>>)
  /\ Elsewhere /\ UNCHANGED hal

(* release() is deinitialize(); the destructor then frees what is left.      *)
CallRelease ==
  /\ Begin("release", (IF Is("mPreviewEnabled") \/ Is("mDisplayPaused")
                       THEN ForceStopPreview ELSE <<>>) \o <<Do("destroy")>>)
  /\ Elsewhere /\ UNCHANGED hal

ServiceCall ==
  \/ CallStartPreview \/ CallStopPreview \/ CallSetNoWindow \/ CallSetFirstWindow
  \/ CallSetOtherWindow \/ CallSetParameters \/ CallSetParametersRestart \/ CallTakePicture
  \/ CallCancelPicture \/ CallAutoFocus \/ CallCancelAutoFocus \/ CallStartRecording
  \/ CallStopRecording \/ CallSetBufferSource \/ CallReprocess \/ CallRelease
  \/ CallSendCommand \/ CallInitializePreview

-----------------------------------------------------------------------------
(* The steps.                                                               *)

Goes(s) == At(s) /\ todo' = Rest

Lock ==
  /\ Goes("lock") /\ mLock = "free" /\ mLock' = "app"
  /\ UNCHANGED <<adapter, hal, ret, app, faults, pics, misfreed>>

Unlock ==
  /\ Goes("unlock") /\ mLock' = "free"
  /\ UNCHANGED <<adapter, hal, ret, app, faults, pics, misfreed>>

(* Who allocates and frees the buffers of pictures: the tap, or the memory   *)
(* manager; freed by somebody else they are lost.                            *)
ImageAllocator == IF tapout THEN Tap ELSE MemoryMgr
FreeImageBufs ==
  /\ buffers' = [buffers EXCEPT !["image"] = Nobody]
  /\ misfreed' = (misfreed \/ buffers["image"] \notin {Nobody, ImageAllocator})

(* A command the adapter accepts.  The end of a capture frees the buffers.   *)
Accepted(c) ==
  /\ \E s \in States : <<adapter, c, s>> \in Edges /\ adapter' = s
  /\ IF c \in {"STOP_IMAGE_CAPTURE", "STOP_BRACKET_CAPTURE"}
     THEN FreeImageBufs ELSE UNCHANGED <<buffers, misfreed>>
  /\ shot' = IF c \in {"START_BRACKET_CAPTURE", "START_IMAGE_CAPTURE"} /\ ~Capturing
             THEN shot + 1 ELSE shot
  /\ UNCHANGED <<faults, owed>>

(* A command the adapter refuses, or fails in carrying out.                  *)
Refused(c) ==
  /\ IF Accepts(adapter, c) THEN faults < MaxFaults /\ faults' = faults + 1
     ELSE UNCHANGED faults
  /\ UNCHANGED <<adapter, buffers, misfreed, pics>>

SendOk ==
  /\ todo # <<>> /\ Head(todo)[1] \in {"must", "try"}
  /\ Accepted(Head(todo)[2])
  /\ todo' = Rest
  /\ UNCHANGED <<flags, display, taps, notifier, mLock, ret, app>>

SendFails ==
  /\ todo # <<>> /\ Head(todo)[1] \in {"must", "try"}
  /\ Refused(Head(todo)[2])
  /\ IF Head(todo)[1] = "try" THEN todo' = Rest /\ UNCHANGED ret
     ELSE todo' = OnError(Head(todo)[2]) \o Return /\ ret' = "error"
  /\ UNCHANGED <<flags, display, taps, notifier, mLock, app>>

(* The function that was called returns; the call itself returns last.       *)
EndFunction ==
  /\ todo # <<>> /\ Head(todo)[1] = "end"
  /\ todo' = Rest
  /\ call' = IF Rest = <<>> THEN "none" ELSE call
  /\ UNCHANGED <<adapter, hal, mLock, ret, calls, faults, pics, misfreed>>

(* Allocations, which may fail, and what was allocated already is kept.      *)
Allocate(k, step, owner) ==
  /\ At(step)
  /\ \/ /\ buffers' = [buffers EXCEPT ![k] = IF @ = Nobody THEN owner ELSE @]
        /\ taken' = IF k = "image" THEN FALSE ELSE taken
        /\ todo' = Rest
        /\ UNCHANGED <<ret, faults>>
     \/ /\ faults < MaxFaults /\ faults' = faults + 1
        /\ todo' = OnError(step) \o Return /\ ret' = "error"
        /\ UNCHANGED <<buffers, taken>>
  /\ UNCHANGED <<adapter, flags, display, tapout, notifier, mLock, app, pics, misfreed>>

AllocPreviewBufs == Allocate("preview", "allocate preview buffers", display.made)
AllocImageBufs   == Allocate("image", "allocate image buffers", ImageAllocator)
AllocVideoBufs   == Allocate("video", "allocate video buffers", Gralloc)

(* freePreviewBufs(): the provider that allocated them may be gone.          *)
FreePreviewBufs ==
  /\ Goes("free preview buffers")
  /\ misfreed' = (misfreed \/ buffers["preview"] \notin
                               {Nobody} \cup (IF display.alive THEN {display.made} ELSE {}))
  /\ buffers' = [buffers EXCEPT !["preview"] = Nobody]
  /\ UNCHANGED <<adapter, flags, display, taps, notifier, mLock, ret, app, faults, pics>>

(* What the steps make of the flags, the display and the notifier.           *)
Set(s, on, off) ==
  /\ Goes(s) /\ flags' = (flags \cup on) \ off

Initialization ==
  /\ At("initialization")
  /\ IF Is("mPreviewInitializationDone") THEN todo' = Rest
     ELSE IF Is("mPreviewEnabled") THEN todo' = Return
     ELSE todo' = PreviewInitialization \o Rest
  /\ UNCHANGED <<adapter, hal, mLock, ret, app, faults, pics, misfreed>>

(* startPreview() goes on only when the initialization was done; it then     *)
(* switches the display on.                                                  *)
Initialized ==
  /\ At("initialized")
  /\ todo' = IF Is("mPreviewInitializationDone") THEN Rest ELSE Return
  /\ flags' = flags \ {"mPreviewInitializationDone"}
  /\ display' = IF Is("mPreviewInitializationDone") /\ display.alive
                THEN [display EXCEPT !.on = TRUE] ELSE display
  /\ UNCHANGED <<adapter, buffers, taps, notifier, mLock, ret, app, faults, pics, misfreed>>

StartCallbacks ==
  /\ Set("start callbacks", {"mPreviewInitializationDone"}, {})
  /\ notifier' = notifier \cup {"previewing", "started"}
  /\ UNCHANGED <<adapter, buffers, display, taps, mLock, ret, app, faults, pics, misfreed>>

FlagSteps ==
  /\ \/ Set("preview is on", {"mPreviewEnabled"}, {"mPreviewStartInProgress"})
     \/ Set("preview is off", {}, {"mPreviewEnabled", "mDisplayPaused", "mPreviewStartInProgress"})
     \/ Set("wait for window", {"mPreviewStartInProgress"}, {})
     \/ Set("recording is on", {"mRecordingEnabled"}, {})
     \/ Set("bracketing is on", {"mBracketingRunning"}, {})
     \/ Set("enable bracketing", {"mBracketingEnabled"}, {})
     \/ Set("disable bracketing", {}, {"mBracketingEnabled"})
  /\ UNCHANGED <<adapter, buffers, display, taps, notifier, mLock, ret, app, faults, pics, misfreed>>

(* Steps that turn into others by what they find when they are reached.      *)
Becomes(s, steps) ==
  /\ At(s) /\ todo' = steps
  /\ UNCHANGED <<adapter, hal, mLock, ret, app, faults, pics, misfreed>>

Expansions ==
  \/ Becomes("check", IF ret = "error" THEN Return ELSE Rest)
  \/ Becomes("bracket", (IF Is("mBracketingEnabled") /\ ~Is("mBracketingRunning")
                         THEN StartImageBracketing ELSE <<>>) \o Rest)
  \/ Becomes("end capture", (IF Is("mBracketingRunning") THEN <<Do("stop bracketing")>>
                             ELSE <<Try("STOP_IMAGE_CAPTURE")>>) \o Rest)

(* stopImageBracketing(): mBracketingRunning stays when the preview is off.  *)
StopImageBracketing ==
  /\ At("stop bracketing")
  /\ todo' = IF PreviewEnabled THEN <<Try("STOP_BRACKET_CAPTURE")>> \o Rest ELSE Rest
  /\ flags' = IF PreviewEnabled THEN flags \ {"mBracketingRunning"} ELSE flags
  /\ UNCHANGED <<adapter, buffers, display, taps, notifier, mLock, ret, app, faults, pics, misfreed>>

TakePictureStep ==
  /\ todo # <<>> /\ Head(todo)[1] = "take"
  /\ todo' = TakePicture(Head(todo)[2]) \o Rest
  /\ UNCHANGED <<adapter, hal, mLock, ret, app, faults, pics, misfreed>>

RefuseStep ==
  /\ At("refuse") /\ todo' = Return /\ ret' = "error"
  /\ UNCHANGED <<adapter, hal, mLock, app, faults, pics, misfreed>>

(* The display is paused for a picture, resumed by startPreview().           *)
PausePreview ==
  /\ Set("pause preview", {"mDisplayPaused"}, {"mPreviewEnabled"})
  /\ display' = [display EXCEPT !.paused = TRUE]
  /\ UNCHANGED <<adapter, buffers, taps, notifier, mLock, ret, app, faults, pics, misfreed>>

ResumeDisplay ==
  /\ Set("resume display", {"mPreviewEnabled"}, {"mDisplayPaused"})
  /\ display' = [display EXCEPT !.paused = FALSE]
  /\ UNCHANGED <<adapter, buffers, taps, notifier, mLock, ret, app, faults, pics, misfreed>>

(* disableDisplay(), also with the buffers left where they are               *)
DisableDisplay ==
  /\ Goes("disable display") \/ Goes("drop display")
  /\ display' = [display EXCEPT !.on = FALSE, !.paused = @ /\ ~display.on]
  /\ UNCHANGED <<adapter, flags, buffers, taps, notifier, mLock, ret, app, faults, pics, misfreed>>

StopCallbacks ==
  /\ Goes("stop callbacks")
  /\ notifier' = notifier \ {"started", "previewing"}
  /\ UNCHANGED <<adapter, flags, buffers, display, taps, mLock, ret, app, faults, pics, misfreed>>

CleanedUp ==
  /\ Set("cleaned up", {}, {"mPreviewEnabled", "mPreviewStartInProgress"})
  /\ notifier' = notifier \ {"started"}
  /\ UNCHANGED <<adapter, buffers, display, taps, mLock, ret, app, faults, pics, misfreed>>

(* rollbackToInitializedState(): one command after the other, until one      *)
(* fails or there is none for the state.                                     *)
Rollback ==
  /\ At("rollback")
  /\ \/ /\ \E c \in Commands : <<adapter, c>> \in RollbackCommands /\ Accepted(c)
        /\ UNCHANGED todo
     \/ /\ \/ \E c \in Commands : <<adapter, c>> \in RollbackCommands /\ Refused(c)
           \/ /\ \A c \in Commands : <<adapter, c>> \notin RollbackCommands
              /\ UNCHANGED <<adapter, buffers, misfreed, faults, pics>>
        /\ todo' = Rest
  /\ UNCHANGED <<flags, display, taps, notifier, mLock, ret, app>>

(* The notifier refuses to record twice, and the buffers go after it.        *)
StartNotifierRecording ==
  /\ At("start recording")
  /\ IF "recording" \in notifier THEN todo' = Return /\ ret' = "error" /\ UNCHANGED notifier
     ELSE todo' = Rest /\ notifier' = notifier \cup {"recording"} /\ UNCHANGED ret
  /\ UNCHANGED <<adapter, flags, buffers, display, taps, mLock, app, faults, pics, misfreed>>

StopNotifierRecording ==
  /\ Set("stop recording", {}, {"mRecordingEnabled"})
  /\ notifier' = notifier \ {"recording"}
  /\ buffers' = [buffers EXCEPT !["video"] = Nobody]
  /\ UNCHANGED <<adapter, display, taps, mLock, ret, app, faults, pics, misfreed>>

(* A tap that is set or dropped; another tap frees the buffers of the first. *)
SetTap ==
  /\ \/ /\ Goes("set tap") /\ tapout' = TRUE
        /\ IF tapout THEN FreeImageBufs /\ taken' = TRUE
           ELSE UNCHANGED <<buffers, taken, misfreed>>
     \/ /\ Goes("drop tap") /\ tapout' = FALSE
        /\ UNCHANGED <<buffers, taken, misfreed>>
  /\ UNCHANGED <<adapter, flags, display, notifier, mLock, ret, app, faults, pics>>

(* ~CameraHal(): freeImageBufs() and freeRawBufs(), the latter by the memory *)
(* manager.  The camera service opens the camera anew.                       *)
Destroy ==
  /\ Goes("destroy")
  /\ misfreed' = (misfreed \/ buffers["video"] # Nobody
                           \/ buffers["image"] \notin {Nobody, MemoryMgr})
  /\ buffers' = [k \in Kinds |-> Nobody]
  /\ flags' = {} /\ adapter' = "INITIALIZED" /\ notifier' = {"started"}
  /\ tapout' = FALSE /\ taken' = FALSE
  /\ display' = [display EXCEPT !.alive = FALSE, !.on = FALSE, !.paused = FALSE]
  /\ shot' = 0 /\ owed' = 0
  /\ UNCHANGED <<mLock, ret, app, faults>>

Step ==
  \/ Lock \/ Unlock \/ SendOk \/ SendFails \/ EndFunction \/ AllocPreviewBufs
  \/ AllocImageBufs \/ AllocVideoBufs \/ FreePreviewBufs \/ Initialization \/ Initialized
  \/ StartCallbacks \/ FlagSteps \/ Expansions \/ StopImageBracketing \/ TakePictureStep
  \/ RefuseStep \/ PausePreview \/ ResumeDisplay \/ DisableDisplay \/ StopCallbacks
  \/ CleanedUp \/ Rollback \/ StartNotifierRecording \/ StopNotifierRecording \/ SetTap
  \/ Destroy

-----------------------------------------------------------------------------
(* The threads of the adapter.                                              *)

(* The last frame of the picture came back, and no bracketing is under way:  *)
(* endImageCapture(), which needs mLock.                                     *)
CaptureEnds ==
  /\ adapter \in {"CAPTURE", "VIDEO_CAPTURE", "REPROCESS"} /\ owed = 0
  /\ owed' = shot
  /\ UNCHANGED <<adapter, hal, mLock, todo, ret, app, faults, shot, misfreed>>

SignalEnd ==
  /\ owed # 0 /\ mLock = "free"
  /\ owed' = 0
  /\ \/ /\ Is("mBracketingRunning") /\ PreviewEnabled
        /\ flags' = flags \ {"mBracketingRunning"}
        /\ IF Accepts(adapter, "STOP_BRACKET_CAPTURE")
           THEN adapter' = "PREVIEW" /\ FreeImageBufs
           ELSE UNCHANGED <<adapter, buffers, misfreed>>
     \/ /\ ~(Is("mBracketingRunning") /\ PreviewEnabled)
        /\ UNCHANGED flags
        /\ IF Accepts(adapter, "STOP_IMAGE_CAPTURE") /\ ~Is("mBracketingRunning")
           THEN /\ \E s \in States : /\ <<adapter, "STOP_IMAGE_CAPTURE", s>> \in Edges
                                      /\ adapter' = s
                /\ FreeImageBufs
           ELSE UNCHANGED <<adapter, buffers, misfreed>>
  /\ UNCHANGED <<display, taps, notifier, mLock, todo, ret, app, faults, shot>>

(* The focus is found, or not: the adapter ends focusing.                    *)
FocusEnds ==
  /\ adapter \in {"AF", "VIDEO_AF"}
  /\ adapter' = IF adapter = "AF" THEN "PREVIEW" ELSE "VIDEO"
  /\ UNCHANGED <<hal, mLock, todo, ret, app, faults, pics, misfreed>>

AdapterThread == CaptureEnds \/ SignalEnd \/ FocusEnds

Next == ServiceCall \/ Step \/ AdapterThread

Spec == Init /\ [][Next]_vars /\ WF_vars(Step) /\ WF_vars(AdapterThread)

-----------------------------------------------------------------------------
TypeOK ==
  /\ adapter \in States /\ flags \subseteq Flags
  /\ buffers \in [Kinds -> {Nobody, MemoryMgr, Gralloc, Tap} \cup (1..MaxCalls)]
  /\ display \in [made : 0..MaxCalls, alive : BOOLEAN, on : BOOLEAN, paused : BOOLEAN]
  /\ tapout \in BOOLEAN /\ taken \in BOOLEAN /\ notifier \subseteq {"started", "previewing", "recording"}
  /\ mLock \in {"free", "app"} /\ ret \in {"ok", "error"}
  /\ call \in Services \cup {"none"} /\ (call = "none" <=> todo = <<>>)
  /\ calls \in 0..MaxCalls /\ faults \in 0..MaxFaults /\ shot \in 0..MaxCalls
  /\ owed \in 0..MaxCalls /\ misfreed \in BOOLEAN

Idle == call = "none"

(* The states rollbackToPreviousState() knows no command for.                *)
Stranded == {st \in States \ {"INITIALIZED"} : \A c \in Commands : <<st, c>> \notin RollbackCommands}

(* The frames of the preview are written by the adapter until it is back in  *)
(* its initial state: unless a command failed, the buffers are never freed   *)
(* before that, except under an adapter that cannot be rolled back.          *)
BuffersOutliveAdapter ==
  faults = 0 /\ buffers["preview"] = Nobody => adapter \in {"INITIALIZED"} \cup Stranded

(* Pictures have buffers from the moment the adapter is given them until the *)
(* picture is over, whichever way it ends; only another tap takes them away, *)
(* until there are new ones (setBufferSource() calls freeImageBufs()).       *)
PicturesHaveBuffers ==
  adapter \in {"LOADED_CAPTURE", "CAPTURE", "BRACKETING", "VIDEO_LOADED_CAPTURE", "VIDEO_CAPTURE"}
    => buffers["image"] # Nobody \/ taken

(* Between calls, unless a command failed: what CameraHal thinks of the      *)
(* preview is what the adapter does, and no call leaves the adapter halfway  *)
(* into a picture.  Recording and reprocessing it may: bracketing that would *)
(* not start leaves mBracketingRunning true.                                 *)
FlagsFollowAdapter ==
  Idle /\ faults = 0 =>
    /\ Is("mPreviewEnabled") => adapter \notin {"INITIALIZED", "LOADED_PREVIEW"}
    /\ adapter # "LOADED_CAPTURE"

(* takePicture() waits for itself: it holds mLock and takes it again.        *)
WaitsForItself == mLock = "app" /\ At("lock")

(* Every call returns, whatever fails on the way, and gives mLock back, but   *)
(* for a takePicture() that waits for itself.                                 *)
CallsReturn == call # "none" ~> (Idle \/ (WaitsForItself /\ call = "takePicture"))

(* __takePicture() "cancel AF state if needed (before any operation and      *)
(* mutex lock)" (CameraHal.cpp): it never waits for a lock it holds.         *)
NeverWaitsForItself == ~WaitsForItself

(* startPreview() says of its error path "Do all the cleanup": after a       *)
(* failed start the adapter can be started again.                            *)
FailedStartIsUndone ==
  Idle /\ ~PreviewEnabled /\ ~Is("mDisplayPaused") => adapter = "INITIALIZED"
=============================================================================
