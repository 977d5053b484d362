--------------------------- MODULE CaptureControl ---------------------------
(* Taking pictures with the OMX adapter: the application's thread, the thread *)
(* of CommandHandler, the thread of OMXCallbackHandler, the threads that      *)
(* return images, and the component.  A capture is started by a message to    *)
(* CommandHandler and stopped by a command of the thread that returns the     *)
(* last image (or by stopRecording()), which holds mLock while it waits for   *)
(* mImageCaptureLock, the image and the callback thread.                      *)
EXTENDS Integers, Sequences, FiniteSets, SequencesExt

CONSTANTS Buffers,      \* image buffers
          Returners,    \* threads that return images to the adapter
          Plans,        \* what the application may be up to: the mode, the buffers of
                        \* each burst, a bound on its pictures, whether it may stop one
          NoThread, NoBuffer

Modes == {"high_quality", "high_speed", "video"}
PlanType == [mode : Modes, images : (SUBSET Buffers) \ {{}}, pictures : Nat, cancels : BOOLEAN]

ASSUME BuffersAssumption   == IsFiniteSet(Buffers) /\ NoBuffer \notin Buffers
ASSUME ReturnersAssumption == Returners \cap {"app", "cmd", NoThread} = {}
ASSUME PlansAssumption     == \A p \in Plans : p \in PlanType /\ (p.cancels => p.mode = "video")
ASSUME NoThreadAssumption  == NoThread \notin {"app", "cmd"}

Threads  == {"app", "cmd"} \union Returners
Stoppers == {"app"} \union Returners
Waiting  == {"idle", "use", "start", "query", "fill", "hal", "stop", "lock"}
Stopping == {"wait", "disable", "flush", "check", "drain", "unlock"}
Starting == {"next", "queue", "shutter"}
Places   == Waiting \union Starting \union Stopping \union {"stop_capture"}

VARIABLES mAdapterState, mNextState,               \* PREVIEW, LOADED_CAPTURE, CAPTURE (or VIDEO_*)
          mLock, mImageCaptureLock, halLock,       \* who holds which mutex
          pc, commandQ, job, captures,             \* places, queued starts, the one being handled
          mCaptureConfigured, mCapturedFrames,
          mBurstFramesQueued, mBurstFramesAccum, mStatus,
          mCaptureSignalled, mCaptureSem, mStartCaptureSem,
          capturing, atComponent, shutterDue,      \* the component
          callbackQ, cb, mIsProcessed,             \* OMXCallbackHandler
          held, frameBuf, delivered,               \* images at the application: with a reference
                                                   \* count, and in the hands of each returner
          plan,                                    \* chosen at the start
          ended                                    \* history: the captures that were stopped

locks     == <<mLock, mImageCaptureLock, halLock>>
control   == <<mAdapterState, mNextState, locks, pc>>
requests  == <<commandQ, job, captures>>
burst     == <<mCaptureConfigured, mCapturedFrames, mBurstFramesQueued, mBurstFramesAccum, mStatus>>
signals   == <<mCaptureSignalled, mCaptureSem, mStartCaptureSem>>
component == <<capturing, atComponent, shutterDue>>
callbacks == <<callbackQ, cb, mIsProcessed>>
client    == <<held, frameBuf, delivered>>
history   == <<plan, ended>>
data == <<requests, burst, signals, component, callbacks, client, history>>
vars == <<control, data>>

Free(l)     == l = NoThread
Goto(t, l)  == pc' = [pc EXCEPT ![t] = l]
HighQuality == plan.mode = "high_quality"
Video       == plan.mode = "video"
Burst       == Cardinality(plan.images)

Init ==
  /\ mAdapterState = "preview" /\ mNextState = "preview"
  /\ mLock = NoThread /\ mImageCaptureLock = NoThread /\ halLock = NoThread
  /\ pc = [t \in Threads |-> "idle"]
  /\ commandQ = <<>> /\ job = 0 /\ captures = 0
  /\ mCaptureConfigured = FALSE /\ mCapturedFrames = 0
  /\ mBurstFramesQueued = 0 /\ mBurstFramesAccum = 0
  /\ mStatus = [b \in Buffers |-> "idle"]
  /\ mCaptureSignalled = FALSE /\ mCaptureSem = 0 /\ mStartCaptureSem = 0
  /\ capturing = FALSE /\ atComponent = {} /\ shutterDue = FALSE
  /\ callbackQ = <<>> /\ cb = [buffer |-> NoBuffer, state |-> "preview"] /\ mIsProcessed = TRUE
  /\ held = {} /\ frameBuf = [t \in Returners |-> NoBuffer] /\ delivered = 0
  /\ plan \in Plans /\ ended = {}

-----------------------------------------------------------------------------
(* The application's thread.                                                *)

(* CameraHal::takePicture(): refused while a capture is on.                 *)
TakePicture ==
  /\ pc["app"] = "idle" /\ captures < plan.pictures
  /\ Free(halLock) /\ mAdapterState = "preview"
  /\ halLock' = "app" /\ Goto("app", "use")
  /\ UNCHANGED <<mAdapterState, mNextState, mLock, mImageCaptureLock>>
  /\ UNCHANGED data

(* The command CAMERA_USE_BUFFERS_IMAGE_CAPTURE, under mLock throughout: the *)
(* reference counts start anew, so that an image that is still out will not  *)
(* come back; a port that is already configured only gets new counts.        *)
UseBuffers(frames, queued) ==
  /\ pc["app"] = "use" /\ Free(mLock) /\ mAdapterState = "preview"
  /\ mAdapterState' = "loaded" /\ mNextState' = "loaded"
  /\ mCapturedFrames' = frames /\ mBurstFramesQueued' = queued
  /\ mBurstFramesAccum' = IF mCaptureConfigured THEN mBurstFramesAccum ELSE Burst
  /\ mCaptureConfigured' = TRUE
  /\ held' = {}
  /\ Goto("app", "start")
  /\ UNCHANGED <<locks, mStatus, frameBuf, delivered>>
  /\ UNCHANGED <<requests, signals, component, callbacks, history>>

(* Mutant: one image too few is expected.                                    *)
UseBuffersOneShort    == UseBuffers(Burst - 1, 0)

UseBuffersCapture == UseBuffers(Burst, 0)

(* The command CAMERA_START_IMAGE_CAPTURE: takePicture() leaves a message.   *)
StartCommand ==
  /\ pc["app"] = "start" /\ Free(mLock)
  /\ mAdapterState' = "capture" /\ mNextState' = "capture"
  /\ captures' = captures + 1
  /\ commandQ' = Append(commandQ, captures + 1)
  /\ halLock' = NoThread /\ Goto("app", "idle")
  /\ UNCHANGED <<mLock, mImageCaptureLock, job>>
  /\ UNCHANGED <<burst, signals, component, callbacks, client, history>>

(* CameraHal::stopRecording() in the middle of a video snapshot.             *)
StopRecording ==
  /\ plan.cancels /\ pc["app"] = "idle" /\ Free(halLock)
  /\ halLock' = "app" /\ Goto("app", "query")
  /\ UNCHANGED <<mAdapterState, mNextState, mLock, mImageCaptureLock>>
  /\ UNCHANGED data

QueryState ==
  /\ pc["app"] = "query" /\ Free(mLock)
  /\ IF mAdapterState = "capture"
     THEN Goto("app", "stop") /\ UNCHANGED halLock
     ELSE Goto("app", "idle") /\ halLock' = NoThread
  /\ UNCHANGED <<mAdapterState, mNextState, mLock, mImageCaptureLock>>
  /\ UNCHANGED data

-----------------------------------------------------------------------------
(* The thread of CommandHandler: startImageCapture().                       *)

GetCommand ==
  /\ pc["cmd"] = "idle" /\ commandQ # <<>>
  /\ job' = Head(commandQ) /\ commandQ' = Tail(commandQ)
  /\ Goto("cmd", "lock")
  /\ UNCHANGED <<mAdapterState, mNextState, locks, captures>>
  /\ UNCHANGED <<burst, signals, component, callbacks, client, history>>

LockImageCapture ==
  /\ pc["cmd"] = "lock" /\ Free(mImageCaptureLock)
  /\ IF mCaptureConfigured /\ mStartCaptureSem = 0
     THEN mImageCaptureLock' = "cmd" /\ Goto("cmd", "next")
     ELSE Goto("cmd", "idle") /\ UNCHANGED mImageCaptureLock
  /\ UNCHANGED <<mAdapterState, mNextState, mLock, halLock>>
  /\ UNCHANGED data

(* Mutant: the capture starts without a look at the next state.              *)
StartsBlindly ==
  /\ pc["cmd"] = "next" /\ Goto("cmd", "queue")
  /\ UNCHANGED <<mAdapterState, mNextState, locks, data>>

(* getNextState() locks mLock, while mImageCaptureLock is held.              *)
GetNextState ==
  /\ pc["cmd"] = "next" /\ Free(mLock)
  /\ IF mNextState = "capture"
     THEN Goto("cmd", "queue") /\ UNCHANGED mImageCaptureLock
     ELSE Goto("cmd", "idle") /\ mImageCaptureLock' = NoThread
  /\ UNCHANGED <<mAdapterState, mNextState, mLock, halLock>>
  /\ UNCHANGED data

(* More images of a capture that already has buffers queued: the idle        *)
(* buffers are queued up to the total.                                       *)
Accumulate ==
  LET total == mBurstFramesAccum + Burst
      idle  == {b \in plan.images : mStatus[b] = "idle"}
      room  == total - mBurstFramesQueued
  IN  \E some \in SUBSET idle :
        /\ Cardinality(some) = IF room < Cardinality(idle) THEN room ELSE Cardinality(idle)
        /\ mStatus' = [b \in Buffers |-> IF b \in some THEN "fill" ELSE mStatus[b]]
        /\ atComponent' = atComponent \union some
        /\ mBurstFramesQueued' = mBurstFramesQueued + Cardinality(some)
        /\ mCapturedFrames' = mCapturedFrames + Burst
        /\ mBurstFramesAccum' = total
        /\ UNCHANGED <<mCaptureSignalled, capturing>>

(* The first images: every buffer is queued and capturing is switched on.    *)
QueueAll ==
  /\ mStatus' = [b \in Buffers |-> IF b \in plan.images THEN "fill" ELSE mStatus[b]]
  /\ atComponent' = plan.images
  /\ mBurstFramesQueued' = Burst
  /\ mCaptureSignalled' = FALSE
  /\ capturing' = (capturing \/ ~Video)
  /\ UNCHANGED <<mCapturedFrames, mBurstFramesAccum>>

QueueImageBuffers ==
  /\ pc["cmd"] = "queue"
  /\ IF mBurstFramesQueued > 0 THEN Accumulate ELSE QueueAll
  /\ shutterDue' = HighQuality
  /\ IF HighQuality
     THEN Goto("cmd", "shutter") /\ UNCHANGED mImageCaptureLock
     ELSE Goto("cmd", "idle") /\ mImageCaptureLock' = NoThread
  /\ UNCHANGED <<mAdapterState, mNextState, mLock, halLock, mCaptureConfigured>>
  /\ UNCHANGED <<requests, mCaptureSem, mStartCaptureSem, callbacks, client, history>>

(* Mutant: the wait returns without a token.                                 *)
ShutterNotAwaited ==
  /\ pc["cmd"] = "shutter"
  /\ mStartCaptureSem' = mStartCaptureSem - 1
  /\ mImageCaptureLock' = NoThread /\ Goto("cmd", "idle")
  /\ UNCHANGED <<mAdapterState, mNextState, mLock, halLock, mCaptureSignalled, mCaptureSem>>
  /\ UNCHANGED <<requests, burst, component, callbacks, client, history>>

WaitForShutter ==
  /\ pc["cmd"] = "shutter" /\ mStartCaptureSem > 0
  /\ mStartCaptureSem' = mStartCaptureSem - 1
  /\ mImageCaptureLock' = NoThread /\ Goto("cmd", "idle")
  /\ UNCHANGED <<mAdapterState, mNextState, mLock, halLock, mCaptureSignalled, mCaptureSem>>
  /\ UNCHANGED <<requests, burst, component, callbacks, client, history>>

-----------------------------------------------------------------------------
(* The component.                                                           *)

Put(images) == callbackQ' = callbackQ \o images /\ mIsProcessed' = (mIsProcessed /\ images = <<>>)

ShutterEvent ==
  /\ shutterDue /\ capturing
  /\ shutterDue' = FALSE /\ mStartCaptureSem' = mStartCaptureSem + 1
  /\ UNCHANGED <<capturing, atComponent, mCaptureSignalled, mCaptureSem>>
  /\ UNCHANGED <<control, requests, burst, callbacks, client, history>>

FillImage(b) ==
  /\ b \in atComponent /\ (capturing \/ Video)
  /\ atComponent' = atComponent \ {b} /\ Put(<<b>>)
  /\ UNCHANGED <<capturing, shutterDue, cb>>
  /\ UNCHANGED <<control, requests, burst, signals, client, history>>

-----------------------------------------------------------------------------
(* The thread of OMXCallbackHandler.                                        *)

TakeCallback ==
  /\ cb.buffer = NoBuffer /\ callbackQ # <<>>
  /\ cb' = [buffer |-> Head(callbackQ), state |-> mAdapterState]
  /\ callbackQ' = Tail(callbackQ) /\ mIsProcessed' = FALSE
  /\ UNCHANGED <<control, requests, burst, signals, component, client, history>>

(* The image branch of OMXCameraAdapterFillBufferDone(), and the end of the  *)
(* handler's turn, which wakes the thread waiting in flush().                *)
ImageDone(first) ==
  /\ cb.buffer # NoBuffer
  /\ mStatus' = [mStatus EXCEPT ![cb.buffer] = "done"]
  /\ mCaptureSignalled' = (mCaptureSignalled \/ first)
  /\ mCaptureSem' = IF first THEN mCaptureSem + 1 ELSE mCaptureSem
  /\ IF cb.state = "capture" /\ mCapturedFrames >= 1
     THEN /\ mCapturedFrames' = mCapturedFrames - 1
          /\ held' = held \union {cb.buffer} /\ delivered' = delivered + 1
     ELSE UNCHANGED <<mCapturedFrames, held, delivered>>
  /\ cb' = [cb EXCEPT !.buffer = NoBuffer]
  /\ mIsProcessed' = (callbackQ = <<>>)
  /\ pc' = [t \in Threads |-> IF pc[t] = "drain" /\ callbackQ = <<>> THEN "unlock" ELSE pc[t]]
  /\ UNCHANGED <<mAdapterState, mNextState, locks, callbackQ, mCaptureConfigured>>
  /\ UNCHANGED <<mBurstFramesQueued, mBurstFramesAccum, mStartCaptureSem>>
  /\ UNCHANGED <<requests, component, frameBuf, plan, ended>>

(* Mutant: every image signals mCaptureSem.                                  *)
SignalsEveryImage == ImageDone(mCapturedFrames > 0)

FillBufferDone == ImageDone(mCapturedFrames > 0 /\ ~mCaptureSignalled)

-----------------------------------------------------------------------------
(* A thread that returns an image: returnFrame() takes the reference ...    *)

ReturnFrame(t, b) ==
  /\ pc[t] = "idle" /\ b \in held
  /\ held' = held \ {b} /\ frameBuf' = [frameBuf EXCEPT ![t] = b]
  /\ Goto(t, "fill")
  /\ UNCHANGED <<mAdapterState, mNextState, locks, delivered>>
  /\ UNCHANGED <<requests, burst, signals, component, callbacks, history>>

(* ... and the image branch of fillThisBuffer() ends the capture when no more *)
(* images are expected, or queues the buffer if the burst needs it.          *)
FillThisBuffer(t) ==
  /\ pc[t] = "fill"
  /\ IF mCapturedFrames < 1
     THEN Goto(t, "hal") /\ UNCHANGED <<mStatus, mBurstFramesQueued, atComponent>>
     ELSE /\ IF mBurstFramesQueued >= mBurstFramesAccum
             THEN mStatus' = [mStatus EXCEPT ![frameBuf[t]] = "idle"] /\ UNCHANGED <<mBurstFramesQueued, atComponent>>
             ELSE /\ mStatus' = [mStatus EXCEPT ![frameBuf[t]] = "fill"]
                  /\ mBurstFramesQueued' = mBurstFramesQueued + 1
                  /\ atComponent' = atComponent \union {frameBuf[t]}
          /\ Goto(t, "idle")
  /\ frameBuf' = [frameBuf EXCEPT ![t] = NoBuffer]
  /\ UNCHANGED <<mAdapterState, mNextState, locks, capturing, shutterDue>>
  /\ UNCHANGED <<mCaptureConfigured, mCapturedFrames, mBurstFramesAccum, held, delivered>>
  /\ UNCHANGED <<requests, signals, callbacks, history>>

(* CameraHal::signalEndImageCapture().                                       *)
SignalEndImageCapture(t) ==
  /\ pc[t] = "hal" /\ Free(halLock)
  /\ halLock' = t /\ Goto(t, "stop")
  /\ UNCHANGED <<mAdapterState, mNextState, mLock, mImageCaptureLock>>
  /\ UNCHANGED data

-----------------------------------------------------------------------------
(* The command CAMERA_STOP_IMAGE_CAPTURE.                                   *)

(* setState(): refused unless a capture is on.                               *)
StopCommand(t) ==
  /\ pc[t] = "stop" /\ Free(mLock)
  /\ IF mAdapterState = "capture"
     THEN mLock' = t /\ mNextState' = "preview" /\ Goto(t, "stop_capture") /\ UNCHANGED halLock
     ELSE halLock' = NoThread /\ Goto(t, "idle") /\ UNCHANGED <<mLock, mNextState>>
  /\ UNCHANGED <<mAdapterState, mImageCaptureLock>>
  /\ UNCHANGED data

StopImageCapture(t) ==
  /\ pc[t] = "stop_capture" /\ Free(mImageCaptureLock)
  /\ IF mCaptureConfigured
     THEN /\ mImageCaptureLock' = t /\ Goto(t, "wait")
          /\ mStartCaptureSem' = IF HighQuality THEN 0 ELSE mStartCaptureSem
     ELSE Goto(t, "unlock") /\ UNCHANGED <<mImageCaptureLock, mStartCaptureSem>>
  /\ UNCHANGED <<mAdapterState, mNextState, mLock, halLock, mCaptureSignalled, mCaptureSem>>
  /\ UNCHANGED <<requests, burst, component, callbacks, client, history>>

(* The wait for the capture to be done: the token of FillBufferDone, or the  *)
(* time is up and the semaphore is created anew.                             *)
CaptureDone(t) ==
  /\ pc[t] = "wait" /\ mCaptureSem > 0
  /\ mCaptureSem' = mCaptureSem - 1 /\ Goto(t, "disable")
  /\ UNCHANGED <<mAdapterState, mNextState, locks>>
  /\ UNCHANGED <<mCaptureSignalled, mStartCaptureSem>>
  /\ UNCHANGED <<requests, burst, component, callbacks, client, history>>

CaptureTimesOut(t) ==
  /\ pc[t] = "wait" /\ mCaptureSem = 0
  /\ Goto(t, "disable")
  /\ UNCHANGED <<mAdapterState, mNextState, locks, data>>

DisableCapturing(t) ==
  /\ pc[t] = "disable"
  /\ capturing' = FALSE /\ mCaptureSignalled' = TRUE
  /\ Goto(t, "flush")
  /\ UNCHANGED <<mAdapterState, mNextState, locks>>
  /\ UNCHANGED <<atComponent, shutterDue, mCaptureSem, mStartCaptureSem>>
  /\ UNCHANGED <<requests, burst, callbacks, client, history>>

(* flushBuffers(): the component gives back every buffer, then completes.    *)
FlushBuffers(t) ==
  /\ pc[t] = "flush"
  /\ \E images \in SetToSeqs(atComponent) : Put(images)
  /\ atComponent' = {}
  /\ Goto(t, "check")
  /\ UNCHANGED <<mAdapterState, mNextState, locks>>
  /\ UNCHANGED <<capturing, shutterDue, cb>>
  /\ UNCHANGED <<requests, burst, signals, client, history>>

(* Mutant: flush() does not wait for the callbacks in progress.              *)
FlushWithoutWaiting(t) ==
  /\ pc[t] = "check" /\ Goto(t, "unlock")
  /\ UNCHANGED <<mAdapterState, mNextState, locks, data>>

(* Mutant: flush() waits although the queue was already processed.           *)
FlushAlwaysWaits(t) ==
  /\ pc[t] = "check" /\ Goto(t, "drain")
  /\ UNCHANGED <<mAdapterState, mNextState, locks, data>>

(* OMXCallbackHandler::flush(): return, or wait to be woken.                 *)
FlushCallbacks(t) ==
  /\ pc[t] = "check"
  /\ Goto(t, IF mIsProcessed THEN "unlock" ELSE "drain")
  /\ UNCHANGED <<mAdapterState, mNextState, locks, data>>

CommitState == mAdapterState' = mNextState /\ mLock' = NoThread /\ UNCHANGED mNextState

(* Mutant: mImageCaptureLock is not given back.                              *)
StopKeepsLock(t) ==
  /\ pc[t] = "unlock"
  /\ CommitState /\ halLock' = NoThread /\ Goto(t, "idle")
  /\ ended' = ended \union {captures}
  /\ UNCHANGED <<mImageCaptureLock, plan>>
  /\ UNCHANGED <<requests, burst, signals, component, callbacks, client>>

(* The end of stopImageCapture() and commitState().                          *)
StopDone(t) ==
  /\ pc[t] = "unlock"
  /\ mImageCaptureLock' = IF mImageCaptureLock = t THEN NoThread ELSE mImageCaptureLock
  /\ CommitState /\ halLock' = NoThread /\ Goto(t, "idle")
  /\ ended' = ended \union {captures}
  /\ UNCHANGED plan
  /\ UNCHANGED <<requests, burst, signals, component, callbacks, client>>

-----------------------------------------------------------------------------
Application == TakePicture \/ UseBuffersCapture \/ StartCommand \/ StopRecording \/ QueryState
Command     == GetCommand \/ LockImageCapture \/ GetNextState \/ QueueImageBuffers \/ WaitForShutter
Component   == ShutterEvent \/ \E b \in Buffers : FillImage(b)
Callback    == TakeCallback \/ FillBufferDone
Return(t)   == (\E b \in Buffers : ReturnFrame(t, b)) \/ FillThisBuffer(t) \/ SignalEndImageCapture(t)
Stop(t)     == \/ StopCommand(t) \/ StopImageCapture(t) \/ CaptureDone(t) \/ CaptureTimesOut(t)
               \/ DisableCapturing(t) \/ FlushBuffers(t) \/ FlushCallbacks(t) \/ StopDone(t)

Next ==
  \/ Application \/ Command \/ Component \/ Callback
  \/ \E t \in Returners : Return(t)
  \/ \E t \in Stoppers : Stop(t)

(* Every thread that can go on does so, the component fills its buffers and  *)
(* every client returns its images; nothing makes the application call.      *)
Fairness ==
  /\ WF_vars(Command) /\ WF_vars(Component) /\ WF_vars(Callback)
  /\ WF_vars(UseBuffersCapture) /\ WF_vars(StartCommand) /\ WF_vars(QueryState)
  /\ \A t \in Returners : WF_vars(Return(t))
  /\ \A t \in Stoppers : WF_vars(Stop(t))

Spec     == Init /\ [][Next]_vars
FairSpec == Spec /\ Fairness

-----------------------------------------------------------------------------
InQueue == {callbackQ[i] : i \in DOMAIN callbackQ} \union ({cb.buffer} \ {NoBuffer})

TypeOK ==
  /\ mAdapterState \in {"preview", "loaded", "capture"}
  /\ mNextState \in {"preview", "loaded", "capture"}
  /\ mLock \in Threads \union {NoThread}
  /\ mImageCaptureLock \in Threads \union {NoThread}
  /\ halLock \in Threads \union {NoThread}
  /\ pc \in [Threads -> Places]
  /\ commandQ \in Seq(Nat) /\ job \in Nat /\ captures \in Nat
  /\ mCaptureConfigured \in BOOLEAN /\ mCapturedFrames \in Nat
  /\ mBurstFramesQueued \in Nat /\ mBurstFramesAccum \in Nat
  /\ mStatus \in [Buffers -> {"idle", "fill", "done"}]
  /\ mCaptureSignalled \in BOOLEAN /\ mCaptureSem \in Nat /\ mStartCaptureSem \in Nat
  /\ capturing \in BOOLEAN /\ atComponent \subseteq Buffers /\ shutterDue \in BOOLEAN
  /\ callbackQ \in Seq(Buffers) /\ mIsProcessed \in BOOLEAN
  /\ cb \in [buffer : Buffers \union {NoBuffer}, state : {"preview", "loaded", "capture"}]
  /\ held \subseteq Buffers /\ delivered \in Nat
  /\ frameBuf \in [Returners -> Buffers \union {NoBuffer}]
  /\ plan \in Plans /\ ended \subseteq Nat

(* A thread holds mLock exactly from setState() to the commit, and           *)
(* mImageCaptureLock inside startImageCapture() and stopImageCapture(): in   *)
(* particular no thread waits for the component or for the callbacks of a    *)
(* stop with a lock somebody else thinks it has.                             *)
LocksHeld ==
  /\ \A t \in Threads : mLock = t <=> pc[t] \in Stopping \union {"stop_capture"}
  /\ \A t \in Threads : pc[t] \in Starting \union (Stopping \ {"unlock"}) => mImageCaptureLock = t
  /\ mImageCaptureLock # NoThread => pc[mImageCaptureLock] \in Starting \union Stopping
  /\ \A t \in Stoppers : pc[t] \in Stopping \union {"use", "start", "query", "stop", "stop_capture"} => halLock = t

(* The images of one capture are back before the next one is asked for: there *)
(* is one capture only, or every capture has one image and nobody stops it.  *)
(* Otherwise a return that is late meets the counts of the next capture.     *)
OneByOne == plan.pictures <= 1 \/ (Burst = 1 /\ ~plan.cancels)

(* Once a capture is stopped no buffer is left at the component or on its    *)
(* way up: the flush of stopImageCapture() took them all.                    *)
StopLeavesNothing == OneByOne /\ mAdapterState # "capture" => atComponent = {} /\ InQueue = {}

(* The time between two captures that nobody stops starts with an empty      *)
(* mCaptureSem, so that the wait of the next stop, "for the capture to be done", takes the token  *)
(* of an image of its own capture.                                           *)
SemaphoreEmptyBetween == OneByOne /\ ~plan.cancels /\ mAdapterState # "capture" => mCaptureSem = 0

(* A capture that was stopped before CommandHandler got to it does not start *)
(* afterwards.                                                               *)
StoppedNeverStarts == OneByOne /\ pc["cmd"] = "queue" => job \notin ended

(* The unlocked accessors exist so that code in the middle of a transition   *)
(* does not wait for mLock: nobody waits for mLock with the mutex that the   *)
(* holder of mLock waits for.                                                *)
NoLockCycle == ~(pc["cmd"] = "next" /\ \E t \in Stoppers : pc[t] = "stop_capture")

(* Refinement: what the application sees of takePicture() when it stops no   *)
(* picture.                                                                  *)
Watched == OneByOne /\ ~plan.cancels
Picture == INSTANCE PictureTaking WITH
  Sizes  <- {Cardinality(p.images) : p \in Plans},
  taking <- Watched /\ mAdapterState = "capture",
  owed   <- IF Watched THEN captures * Burst - delivered ELSE 0
TakesPictures == Picture!Spec

(* Every capture that nobody stops comes to its end and preview goes on.     *)
CaptureEnds == Watched /\ mAdapterState = "capture" ~> mAdapterState = "preview"
=============================================================================
