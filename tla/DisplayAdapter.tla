--------------------------- MODULE DisplayAdapter ---------------------------
(* ANativeWindowDisplayAdapter: the preview buffers belong to a native window *)
(* and travel from the camera adapter to the window (PostFrame(), on the      *)
(* adapter's callback thread, under its subscriber lock) and back             *)
(* (handleFrameReturn(), on the display thread).  CameraHal's thread enables, *)
(* disables and pauses.                                                       *)
EXTENDS Naturals, FiniteSets, Sequences

CONSTANTS
  DisplayBufs,      \* the buffers CameraHal asks for
  MinUndequeued,    \* those the window keeps
  DisplayFaults     \* calls of the window that may fail

VARIABLES
  mANativeWindow,   \* is there a window: TRUE, FALSE
  abandoned,        \* the window answers NO_INIT
  mBuffers,         \* "none", "fresh" ones, or those that were "shown"
  mDisplayState,    \* "INIT", "STARTED", "STOPPED", "EXITED"
  mDisplayEnabled, subscribed, mPaused,
  mDisplayQ,        \* messages: frames to get back from the window
  displayMsgQ,      \* command for the display thread, or "none"
  inWindow,         \* buffers the window has: "queued" ones and "free" ones
  withAdapter,      \* mFramesWithCameraAdapterMap
  leftover,         \* it has entries of buffers that were freed, too
  atCamera,         \* buffers the camera adapter really has
  mFramesType,      \* buffer -> type, or "none"
  posting,          \* buffer PostFrame() is at work on, with its decision
  fetching,         \* is the display thread in dequeue_buffer()
  returning,        \* buffer handleFrameReturn() has given back, not yet untyped
  halPc,            \* CameraHal's thread
  raced,            \* a frame came back before handleFrameReturn() had forgotten it
  displayCrashed,   \* a window that is gone was used
  windowFaults

displayVars ==
  <<mANativeWindow, abandoned, mBuffers, mDisplayState, mDisplayEnabled, subscribed, mPaused,
    mDisplayQ, displayMsgQ, inWindow, withAdapter, leftover, atCamera, mFramesType, posting, fetching,
    returning, halPc, raced, displayCrashed, windowFaults>>
stateVars == <<mBuffers, mDisplayState, mDisplayEnabled, subscribed, mPaused, displayMsgQ, halPc>>
windowVars == <<mANativeWindow, abandoned, inWindow, leftover, displayCrashed, windowFaults>>

None == "none"
Types == {"PREVIEW_FRAME_SYNC", "SNAPSHOT_FRAME"}
Untyped == [b \in DisplayBufs |-> None]
NoWindow == [b \in DisplayBufs |-> None]

Init ==
  /\ mANativeWindow = FALSE /\ abandoned = FALSE /\ mBuffers = "none"
  /\ mDisplayState = "INIT" /\ mDisplayEnabled = FALSE /\ subscribed = FALSE /\ mPaused = FALSE
  /\ mDisplayQ = 0 /\ displayMsgQ = None
  /\ inWindow = NoWindow /\ withAdapter = {} /\ leftover = FALSE /\ atCamera = {} /\ mFramesType = Untyped
  /\ posting = <<>> /\ fetching = FALSE /\ returning = None /\ halPc = "idle" /\ raced = FALSE
  /\ displayCrashed = FALSE /\ windowFaults = 0

Dequeued == {b \in DisplayBufs : inWindow[b] = None}
Fail == windowFaults < DisplayFaults /\ windowFaults' = windowFaults + 1
NoFault == UNCHANGED windowFaults
-----------------------------------------------------------------------------
(* CameraHal's thread.                                                        *)

(* setPreviewWindow(): another window; destroy() disables the display.        *)
SetPreviewWindow ==
  /\ halPc = "idle" /\ ~mDisplayEnabled /\ mBuffers = "none"
  /\ mANativeWindow' = TRUE /\ abandoned' = FALSE /\ inWindow' = NoWindow
  /\ UNCHANGED <<stateVars, mDisplayQ, withAdapter, leftover, atCamera, mFramesType, posting, fetching,
                 returning, raced, displayCrashed, windowFaults>>

(* allocateBufferList(): every buffer is dequeued, those the window needs are *)
(* cancelled again and typed, as they will come back as preview frames.       *)
Cancelled == CHOOSE kept \in SUBSET DisplayBufs : Cardinality(kept) = MinUndequeued

AllocateBufferList ==
  /\ halPc = "idle" /\ mANativeWindow /\ ~abandoned /\ mBuffers = "none" /\ ~mDisplayEnabled
  /\ mBuffers' = "fresh"
  /\ inWindow' = [b \in DisplayBufs |-> IF b \in Cancelled THEN "free" ELSE None]
  /\ withAdapter' = DisplayBufs \ Cancelled /\ atCamera' = DisplayBufs \ Cancelled
  /\ leftover' = (leftover \/ withAdapter # {})
  /\ mFramesType' = [b \in DisplayBufs |-> IF b \in Cancelled THEN "PREVIEW_FRAME_SYNC" ELSE None]
  /\ UNCHANGED <<mANativeWindow, abandoned, mDisplayState, mDisplayEnabled, subscribed, mPaused, mDisplayQ,
                 displayMsgQ, posting, fetching, returning, halPc, raced, displayCrashed, windowFaults>>

(* A call that fails: what was dequeued is cancelled, the list is freed and   *)
(* the error handler told, unless that fails as well.  A window that is found *)
(* abandoned after the first buffer is forgotten before the buffer is         *)
(* cancelled through it.                                                      *)
AllocateFails ==
  /\ halPc = "idle" /\ mANativeWindow /\ mBuffers = "none" /\ ~mDisplayEnabled
  /\ \/ /\ abandoned /\ mANativeWindow' = FALSE /\ withAdapter' = {} /\ leftover' = FALSE
        /\ NoFault /\ UNCHANGED <<abandoned, displayCrashed>>
     \/ /\ ~abandoned /\ Fail
        /\ \/ UNCHANGED withAdapter /\ leftover' \in {leftover, TRUE}
           \/ withAdapter' = {} /\ leftover' = FALSE
        /\ UNCHANGED <<mANativeWindow, abandoned, displayCrashed>>
     \/ /\ ~abandoned /\ Fail /\ abandoned' = TRUE /\ mANativeWindow' = FALSE /\ displayCrashed' = TRUE
        /\ UNCHANGED <<withAdapter, leftover>>
  /\ UNCHANGED <<stateVars, mDisplayQ, inWindow, atCamera, mFramesType, posting, fetching, returning, raced>>

(* enableDisplay(): the display thread is started, then the frames.           *)
(* CameraHal frees the buffers with each disable and enables after it has     *)
(* allocated others.                                                          *)
EnableDisplay ==
  /\ halPc = "idle" /\ ~mDisplayEnabled /\ mBuffers = "fresh" /\ mANativeWindow
  /\ halPc' = "enable" /\ displayMsgQ' = "DISPLAY_START"
  /\ UNCHANGED <<windowVars, mBuffers, mDisplayState, mDisplayEnabled, subscribed, mPaused,
                 mDisplayQ, withAdapter, atCamera, mFramesType, posting, fetching, returning, raced>>

Enabled ==
  /\ halPc = "enable" /\ displayMsgQ = None
  /\ subscribed' = TRUE /\ mDisplayEnabled' = TRUE /\ mBuffers' = "shown" /\ halPc' = "idle"
  /\ UNCHANGED <<windowVars, mDisplayState, mPaused, mDisplayQ, displayMsgQ, withAdapter,
                 atCamera, mFramesType, posting, fetching, returning, raced>>

(* disableDisplay(): frames are unsubscribed, which waits for a callback that *)
(* is under way, then the display thread is stopped.                          *)
DisableDisplay(kind) ==
  /\ halPc = "idle" /\ mDisplayEnabled /\ posting = <<>>
  /\ subscribed' = FALSE /\ displayMsgQ' = "DISPLAY_STOP" /\ halPc' = kind
  /\ UNCHANGED <<windowVars, mBuffers, mDisplayState, mDisplayEnabled, mPaused, mDisplayQ,
                 withAdapter, atCamera, mFramesType, posting, fetching, returning, raced>>

(* returnBuffersToWindow() cancels what the map says the camera adapter has,  *)
(* and clears the map if there is no window or every cancel succeeds.  One    *)
(* that fails, as it may for an entry of a buffer that was freed, ends it.    *)
Return(gone) == [b \in DisplayBufs |-> IF b \in gone THEN "free" ELSE inWindow[b]]

(* Mutant: the map is cleared before its buffers are cancelled.               *)
ReturnNothing ==
  withAdapter' = {} /\ leftover' = FALSE /\ UNCHANGED <<mANativeWindow, inWindow, windowFaults>>

ReturnBuffersToWindow ==
  \/ /\ ~mANativeWindow \/ ~abandoned \/ withAdapter = {}
     /\ inWindow' = IF mANativeWindow THEN Return(withAdapter) ELSE inWindow
     /\ withAdapter' = {} /\ leftover' = FALSE
     /\ UNCHANGED mANativeWindow /\ NoFault
  \/ /\ mANativeWindow /\ abandoned /\ mANativeWindow' = FALSE
     /\ UNCHANGED <<inWindow, withAdapter, leftover>> /\ NoFault
  \/ /\ mANativeWindow /\ ~abandoned /\ (Fail \/ (leftover /\ NoFault))
     /\ \E gone \in SUBSET withAdapter : inWindow' = Return(gone)
     /\ UNCHANGED <<mANativeWindow, withAdapter, leftover>>

Disabled ==
  /\ halPc \in {"cancel", "destroy"} /\ displayMsgQ = None
  /\ mDisplayEnabled' = FALSE /\ mPaused' = FALSE /\ halPc' = "idle"
  /\ IF halPc = "cancel"
     THEN ReturnBuffersToWindow
     ELSE mANativeWindow' = FALSE /\ withAdapter' = {} /\ leftover' = FALSE /\ UNCHANGED inWindow /\ NoFault
  /\ UNCHANGED <<abandoned, mBuffers, mDisplayState, subscribed, mDisplayQ, displayMsgQ, atCamera,
                 mFramesType, posting, fetching, returning, raced, displayCrashed>>

PauseDisplay(pause) ==
  /\ halPc = "idle" /\ mDisplayEnabled /\ mPaused # pause /\ mPaused' = pause
  /\ UNCHANGED <<windowVars, mBuffers, mDisplayState, mDisplayEnabled, subscribed, mDisplayQ,
                 displayMsgQ, withAdapter, atCamera, mFramesType, posting, fetching, returning, halPc, raced>>

(* freeBufferList(), once the camera adapter has stopped.                     *)
FreeBufferList ==
  /\ halPc = "idle" /\ mBuffers # "none" /\ ~mDisplayEnabled
  /\ mBuffers' = "none" /\ atCamera' = {} /\ mFramesType' = Untyped
  /\ ReturnBuffersToWindow
  /\ UNCHANGED <<abandoned, mDisplayState, mDisplayEnabled, subscribed, mPaused, mDisplayQ, displayMsgQ,
                 posting, fetching, returning, halPc, raced, displayCrashed>>

(* The destructor sends DISPLAY_EXIT and joins the thread.                    *)
Destroy ==
  /\ halPc = "idle" /\ ~mDisplayEnabled /\ mBuffers = "none"
  /\ halPc' = "exit" /\ displayMsgQ' = "DISPLAY_EXIT"
  /\ UNCHANGED <<windowVars, mBuffers, mDisplayState, mDisplayEnabled, subscribed, mPaused,
                 mDisplayQ, withAdapter, atCamera, mFramesType, posting, fetching, returning, raced>>

Destroyed ==
  /\ halPc = "exit" /\ displayMsgQ = None /\ mDisplayState = "EXITED" /\ halPc' = "gone"
  /\ UNCHANGED <<windowVars, mBuffers, mDisplayState, mDisplayEnabled, subscribed, mPaused, mDisplayQ,
                 displayMsgQ, withAdapter, atCamera, mFramesType, posting, fetching, returning, raced>>
-----------------------------------------------------------------------------
(* The callback thread: frameCallbackRelay(), frameCallback(), PostFrame().   *)

Frame(b, type) ==
  /\ subscribed /\ posting = <<>> /\ b \in atCamera
  /\ atCamera' = atCamera \ {b}
  /\ IF mANativeWindow
     THEN /\ mFramesType' = [mFramesType EXCEPT ![b] = type]
          /\ raced' = (raced \/ returning = b)
          /\ posting' = <<b, mDisplayState = "STARTED" /\ (~mPaused \/ type = "SNAPSHOT_FRAME")>>
     ELSE UNCHANGED <<mFramesType, raced, posting>>
  /\ UNCHANGED <<stateVars, windowVars, mDisplayQ, withAdapter, fetching, returning>>

(* The buffer is queued or, when it is not to be shown, cancelled; it leaves  *)
(* the map and the display thread gets a message whatever the window says.    *)
(* The window was asked for before; the display thread may have forgotten it. *)
Post ==
  /\ posting # <<>> /\ posting' = <<>>
  /\ IF mANativeWindow
     THEN /\ \/ inWindow' = [inWindow EXCEPT ![posting[1]] = IF posting[2] THEN "queued" ELSE "free"] /\ NoFault
             \/ Fail /\ UNCHANGED inWindow
          /\ withAdapter' = withAdapter \ {posting[1]}
          /\ mDisplayQ' = mDisplayQ + 1
          /\ UNCHANGED displayCrashed
     ELSE displayCrashed' = TRUE /\ UNCHANGED <<inWindow, withAdapter, mDisplayQ, windowFaults>>
  /\ UNCHANGED <<mANativeWindow, abandoned, leftover, stateVars, atCamera, mFramesType, fetching, returning, raced>>
-----------------------------------------------------------------------------
(* The display thread.                                                        *)

(* processHalMsg(): a stop drops the messages of frames still in the window.  *)
ProcessHalMsg ==
  /\ displayMsgQ # None /\ ~fetching /\ returning = None /\ mDisplayState # "EXITED"
  /\ displayMsgQ' = None
  /\ mDisplayState' = CASE displayMsgQ = "DISPLAY_START" -> "STARTED"
                        [] displayMsgQ = "DISPLAY_STOP"  -> "STOPPED"
                        [] displayMsgQ = "DISPLAY_EXIT"  -> "EXITED"
  /\ mDisplayQ' = IF displayMsgQ = "DISPLAY_STOP" THEN 0 ELSE mDisplayQ
  /\ UNCHANGED <<windowVars, mBuffers, mDisplayEnabled, subscribed, mPaused, withAdapter, atCamera,
                 mFramesType, posting, fetching, returning, halPc, raced>>

CanHandle == displayMsgQ = None /\ ~fetching /\ returning = None /\ mDisplayQ > 0 /\ mDisplayState = "STARTED"

(* A message is taken, and the thread goes into dequeue_buffer() if there is  *)
(* a window; there it serves no command.                                      *)
TakeMessage ==
  /\ CanHandle
  /\ mDisplayQ' = mDisplayQ - 1 /\ fetching' = mANativeWindow
  /\ UNCHANGED <<stateVars, windowVars, withAdapter, atCamera, mFramesType, posting, returning, raced>>

Noted(b) == withAdapter \cup {b}

(* dequeue_buffer() waits until the window has a buffer it need not keep.     *)
Gives == Cardinality(Dequeued) < Cardinality(DisplayBufs) - MinUndequeued

(* handleFrameReturn(): one message, one buffer.  If the buffer can not be    *)
(* locked, the thread forgets it, and the window as well if it is gone.       *)
HandleFrameReturn ==
  /\ fetching /\ ~abandoned /\ Gives /\ fetching' = FALSE
  /\ \E b \in DisplayBufs :
       /\ inWindow[b] = "free"
       /\ inWindow' = [inWindow EXCEPT ![b] = None]
       /\ \/ /\ NoFault /\ UNCHANGED mANativeWindow
             /\ withAdapter' = Noted(b)
             /\ IF mFramesType[b] # None THEN atCamera' = atCamera \cup {b} /\ returning' = b
                                         ELSE UNCHANGED <<atCamera, returning>>
          \/ /\ Fail /\ mANativeWindow' \in BOOLEAN
             /\ UNCHANGED <<withAdapter, atCamera, returning>>
  /\ UNCHANGED <<abandoned, leftover, displayCrashed, stateVars, mDisplayQ, mFramesType, posting, raced>>

FrameReturned ==
  /\ returning # None /\ returning' = None
  /\ mFramesType' = [mFramesType EXCEPT ![returning] = None]
  /\ UNCHANGED <<stateVars, windowVars, mDisplayQ, withAdapter, atCamera, posting, fetching, raced>>

(* dequeue_buffer() fails, or finds the window gone: no frame comes.          *)
NothingReturned ==
  /\ fetching /\ fetching' = FALSE
  /\ \/ abandoned /\ mANativeWindow' = FALSE /\ NoFault
     \/ ~abandoned /\ Fail /\ UNCHANGED mANativeWindow
  /\ UNCHANGED <<abandoned, inWindow, leftover, displayCrashed, stateVars, mDisplayQ, withAdapter, atCamera,
                 mFramesType, posting, returning, raced>>

(* The consumer of the window shows a frame and is done with it.              *)
Compose(b) ==
  /\ inWindow[b] = "queued" /\ inWindow' = [inWindow EXCEPT ![b] = "free"]
  /\ UNCHANGED <<mANativeWindow, abandoned, leftover, displayCrashed, windowFaults, stateVars, mDisplayQ,
                 withAdapter, atCamera, mFramesType, posting, fetching, returning, raced>>

Abandon ==
  /\ mANativeWindow /\ ~abandoned /\ Fail /\ abandoned' = TRUE
  /\ UNCHANGED <<mANativeWindow, inWindow, leftover, displayCrashed, stateVars, mDisplayQ, withAdapter, atCamera,
                 mFramesType, posting, fetching, returning, raced>>

DisplayThread == ProcessHalMsg \/ TakeMessage \/ HandleFrameReturn \/ FrameReturned \/ NothingReturned
HalWaits == Enabled \/ Disabled \/ Destroyed
HalCalls ==
  \/ SetPreviewWindow \/ AllocateBufferList \/ AllocateFails \/ EnableDisplay
  \/ DisableDisplay("cancel") \/ DisableDisplay("destroy")
  \/ (\E pause \in BOOLEAN : PauseDisplay(pause)) \/ FreeBufferList \/ Destroy

(* Nothing happens any more once the process has died.                        *)
DisplayLives == ~displayCrashed

Next ==
  /\ DisplayLives
  /\ \/ HalCalls \/ HalWaits \/ DisplayThread \/ Post
     \/ \E b \in DisplayBufs : Compose(b) \/ \E type \in Types : Frame(b, type)
     \/ Abandon

Displays == DisplayLives /\ DisplayThread
Proceeds == DisplayLives /\ (HalWaits \/ Post)
Compositor == DisplayLives /\ \E b \in DisplayBufs : Compose(b)
Spec ==
  /\ Init /\ [][Next]_displayVars
  /\ WF_displayVars(Displays) /\ WF_displayVars(Proceeds) /\ WF_displayVars(Compositor)
-----------------------------------------------------------------------------
TypeOK ==
  /\ mBuffers \in {"none", "fresh", "shown"}
  /\ mDisplayState \in {"INIT", "STARTED", "STOPPED", "EXITED"}
  /\ mDisplayQ \in 0 .. Cardinality(DisplayBufs)
  /\ displayMsgQ \in {None, "DISPLAY_START", "DISPLAY_STOP", "DISPLAY_EXIT"}
  /\ inWindow \in [DisplayBufs -> {None, "queued", "free"}]
  /\ withAdapter \subseteq DisplayBufs /\ atCamera \subseteq DisplayBufs
  /\ mFramesType \in [DisplayBufs -> Types \cup {None}]
  /\ returning \in DisplayBufs \cup {None}
  /\ halPc \in {"idle", "enable", "cancel", "destroy", "exit", "gone"}

(* The map of the frames with the camera adapter is what a disable cancels:   *)
(* while the display runs it names no buffer the window has, and every buffer *)
(* the camera adapter has or is just handing over, whatever has failed.       *)
Posting == IF posting = <<>> THEN {} ELSE {posting[1]}
MapIsExact ==
  mDisplayEnabled => /\ \A b \in withAdapter : inWindow[b] = None
                     /\ atCamera \cup Posting \subseteq withAdapter

(* While the display runs and the window answers, each message for the        *)
(* display thread, and the one it has taken, stands for one buffer the window *)
(* owes, so that it neither waits for a buffer that never comes nor leaves    *)
(* one behind.                                                                *)
MessagesMatchWindow ==
  mDisplayState = "STARTED" /\ mDisplayEnabled /\ windowFaults = 0
    => mDisplayQ + (IF fetching THEN 1 ELSE 0)
         = (Cardinality(DisplayBufs) - MinUndequeued) - Cardinality(Dequeued)

(* While the display is off, the buffers dequeued from the window are those   *)
(* the map names: after a disable with cancel there are none.                 *)
AllReturned ==
  ~mDisplayEnabled /\ halPc = "idle" /\ mBuffers # "none" /\ mANativeWindow /\ windowFaults = 0
    => Dequeued = withAdapter

(* A buffer of the window comes back to the camera adapter while the display  *)
(* runs, unless the window fails or the buffer has overtaken the bookkeeping  *)
(* of its last return.                                                        *)
Stalled == ~mDisplayEnabled \/ windowFaults > 0 \/ raced \/ halPc # "idle"
CameraStarves == mDisplayEnabled /\ atCamera = {}
CameraIsFed == atCamera # {} \/ Stalled
FramesComeBack == CameraStarves ~> CameraIsFed

(* CameraHal's commands are answered, unless the process has died or the      *)
(* display thread waits for a buffer that a failed call of the window lost:   *)
(* its message was sent all the same, and disableDisplay() waits with it.     *)
WaitsInVain == fetching /\ windowFaults > 0 /\ ~abandoned /\ ~Gives
DisplayAsked == halPc \in {"enable", "cancel", "destroy", "exit"}
DisplayAnswered == halPc \in {"idle", "gone"} \/ displayCrashed \/ WaitsInVain
DisplayAnswers == DisplayAsked ~> DisplayAnswered
=============================================================================
