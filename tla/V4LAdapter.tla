------------------------------- MODULE V4LAdapter -------------------------------
(* The adapter of USB cameras (V4LCameraAdapter.cpp).  The preview thread     *)
(* dequeues the driver's buffers, converts each into the window's buffer of   *)
(* the same index and sends that to the subscribers; whoever returns a frame  *)
(* queues the driver's buffer again; a picture stops the preview's stream and *)
(* starts one of its own.  One v4l2_buffer, mVideoInfo->buf, serves every     *)
(* call of every thread, and no lock guards it.                               *)
EXTENDS Naturals, FiniteSets

CONSTANTS
  V4LBufs,        \* preview buffers, as numbers from 0
  V4LPictures,    \* pictures taken
  V4LFaults       \* calls of the driver that may fail, frames that cannot be sent

VARIABLES
  mPreviewing, mCapturing, isStreaming,
  mapped,         \* the driver's buffers are mapped
  known,          \* mPreviewBufs has the buffers
  driver,         \* the buffers queued with the driver
  bufIndex,       \* mVideoInfo->buf.index
  subscribers,    \* the buffers the subscribers hold
  threadPc, threadBuf, threadGot,   \* the preview thread: step, index it has read, index it was given
  returnPc, returnBuf,              \* a thread that returns a frame
  v4lHalPc,       \* "idle", a step of takePicture(), "taken", "join" or "failing" in stopPreview(), "stuck"
  dropped,        \* buffers dequeued whose frame could not be sent, or not queued while a picture was taken
  v4lRaced,       \* two threads have met in mVideoInfo->buf
  twice,          \* a stream was started again with frames still at the subscribers
  stolen,         \* the preview thread has dequeued the picture
  crashed,        \* a read of unmapped memory, a look-up of a buffer no longer known
  pictures, v4lFaults

v4lVars == <<mPreviewing, mCapturing, isStreaming, mapped, known, driver, bufIndex, subscribers, threadPc, threadBuf,
             threadGot, returnPc, returnBuf, v4lHalPc, dropped, v4lRaced, twice, stolen, crashed, pictures, v4lFaults>>
flags == <<mPreviewing, mCapturing>>
stream == <<isStreaming, mapped, driver>>
thread == <<threadPc, threadBuf, threadGot>>
returner == <<returnPc, returnBuf>>
marks == <<v4lRaced, twice, stolen, crashed>>
counts == <<pictures, v4lFaults>>

Init ==
  /\ mPreviewing = FALSE /\ mCapturing = FALSE /\ isStreaming = FALSE /\ mapped = FALSE /\ known = FALSE
  /\ driver = {} /\ bufIndex = 0 /\ subscribers = {} /\ threadPc = "none" /\ threadBuf = 0 /\ threadGot = 0
  /\ returnPc = "none" /\ returnBuf = 0 /\ v4lHalPc = "idle" /\ dropped = {}
  /\ v4lRaced = FALSE /\ twice = FALSE /\ stolen = FALSE /\ crashed = FALSE /\ pictures = 0 /\ v4lFaults = 0

V4LFault == v4lFaults < V4LFaults /\ v4lFaults' = v4lFaults + 1
Alive == ~crashed
-----------------------------------------------------------------------------
(* v4lInitMmap(), the VIDIOC_QBUF calls and v4lStartStreaming(); any of them  *)
(* may fail and leaves what those before it have done.                        *)
Last(bufs) == Cardinality(bufs) - 1
Stream(bufs) == isStreaming' = TRUE /\ mapped' = TRUE /\ driver' = bufs /\ bufIndex' = Last(bufs)
QueuedOnly(bufs) ==
  /\ mapped' = TRUE
  /\ \/ bufIndex' \in bufs /\ driver' = 0 .. bufIndex' - 1
     \/ bufIndex' = Last(bufs) /\ driver' = bufs
NotStreamed(bufs) ==
  V4LFault /\ UNCHANGED isStreaming /\ (QueuedOnly(bufs) \/ (mapped' = FALSE /\ driver' = {} /\ UNCHANGED bufIndex))

(* v4lStopStreaming(): the driver gives up its buffers and every waiting call *)
(* of VIDIOC_DQBUF; they are unmapped.  It fails before with the stream left  *)
(* on, or when the driver does not free its buffers at the end.               *)
StopStreaming == isStreaming' = FALSE /\ mapped' = FALSE /\ driver' = {}
StopStreamingFails == V4LFault /\ (StopStreaming \/ UNCHANGED stream)

(* useBuffers() and startPreview().  The stream that cannot be started leaves *)
(* the thread running and mPreviewing set.  After a failing startPreview()    *)
(* the state machine stays in LOADED_PREVIEW_STATE, where it refuses all that *)
(* CameraHal sends before and after: the adapter is stuck.                    *)
StartPreview ==
  /\ Alive /\ v4lHalPc = "idle" /\ ~mPreviewing /\ ~mCapturing
  /\ \/ /\ Stream(V4LBufs) /\ known' = TRUE /\ threadPc' = "loop" /\ mPreviewing' = TRUE /\ dropped' = {}
        /\ twice' = (twice \/ subscribers # {} \/ returnPc # "none")
        /\ UNCHANGED <<v4lHalPc, v4lFaults>>
     \/ /\ V4LFault /\ QueuedOnly(V4LBufs) /\ known' = TRUE /\ v4lHalPc' = "stuck"
        /\ mPreviewing' = (driver' = V4LBufs) /\ threadPc' = IF mPreviewing' THEN "loop" ELSE threadPc
        /\ UNCHANGED <<isStreaming, dropped, twice>>
     \/ V4LFault /\ UNCHANGED <<stream, known, threadPc, mPreviewing, dropped, twice, bufIndex, v4lHalPc>>
  /\ UNCHANGED <<mCapturing, subscribers, threadBuf, threadGot, returner, v4lRaced, stolen, crashed, pictures>>

(* stopPreview(): the stream ends and the buffers are forgotten before the    *)
(* preview thread is waited for.  A stream that does not end is only logged,  *)
(* but the call fails, the state machine stays in PREVIEW_STATE and CameraHal *)
(* does not ask again.                                                        *)
StopPreview ==
  /\ Alive /\ v4lHalPc = "idle" /\ mPreviewing /\ mPreviewing' = FALSE /\ known' = FALSE
  /\ \/ StopStreaming /\ v4lHalPc' = "join" /\ UNCHANGED v4lFaults
     \/ StopStreamingFails /\ v4lHalPc' = "failing"
  /\ UNCHANGED <<mCapturing, bufIndex, subscribers, thread, returner, dropped, marks, pictures>>

Joining == v4lHalPc \in {"join", "failing"}
Join ==
  /\ Alive /\ Joining /\ threadPc = "none" /\ v4lHalPc' = IF v4lHalPc = "join" THEN "idle" ELSE "stuck"
  /\ UNCHANGED <<flags, stream, known, bufIndex, subscribers, thread, returner, dropped, marks, counts>>
-----------------------------------------------------------------------------
(* previewThread()                                                            *)

Loop ==
  /\ Alive /\ threadPc = "loop" /\ (mPreviewing \/ Joining)
  /\ threadPc' = IF mPreviewing THEN "dequeue" ELSE "none"
  /\ UNCHANGED <<flags, stream, known, bufIndex, subscribers, threadBuf, threadGot, returner, v4lHalPc, dropped, marks, counts>>

(* GetFrame(): VIDIOC_DQBUF fails without a stream, or by itself, and waits   *)
(* with no buffer.                                                            *)
Dequeue ==
  /\ Alive /\ threadPc = "dequeue"
  /\ \/ /\ (~isStreaming /\ UNCHANGED v4lFaults) \/ (isStreaming /\ V4LFault)
        /\ threadPc' = "loop" /\ UNCHANGED <<driver, bufIndex, threadGot, v4lRaced, stolen>>
     \/ /\ isStreaming /\ UNCHANGED v4lFaults
        /\ \E b \in driver : driver' = driver \ {b} /\ bufIndex' = b /\ threadGot' = b
        /\ threadPc' = "got" /\ v4lRaced' = (v4lRaced \/ returnPc = "queue")
        /\ stolen' = (stolen \/ v4lHalPc = "frame")
  /\ UNCHANGED <<flags, isStreaming, mapped, known, subscribers, threadBuf, returner, v4lHalPc, dropped, twice, crashed, pictures>>

(* It reads the index back from the shared structure.                         *)
ReadIndex ==
  /\ Alive /\ threadPc = "got" /\ threadPc' = "convert" /\ threadBuf' = bufIndex
  /\ UNCHANGED <<flags, stream, known, bufIndex, subscribers, threadGot, returner, v4lHalPc, dropped, marks, counts>>

(* A frame that is not in the queue, has no subscriber or no reference count  *)
(* is not sent, and its buffer not queued again.                              *)
SendFrame ==
  /\ Alive /\ threadPc = "convert"
  /\ IF ~mapped \/ ~known
       THEN crashed' = TRUE /\ UNCHANGED <<thread, subscribers, dropped, v4lFaults>>
       ELSE /\ threadPc' = "loop" /\ threadBuf' = 0 /\ threadGot' = 0 /\ UNCHANGED crashed
            /\ \/ subscribers' = subscribers \cup {threadBuf} /\ UNCHANGED <<dropped, v4lFaults>>
               \/ V4LFault /\ dropped' = dropped \cup {threadBuf} /\ UNCHANGED subscribers
  /\ UNCHANGED <<flags, stream, known, bufIndex, returner, v4lHalPc, v4lRaced, twice, stolen, pictures>>
-----------------------------------------------------------------------------
(* fillThisBuffer() on the thread of a subscriber.                            *)

ReturnFrame ==
  /\ Alive /\ returnPc = "none"
  /\ \E b \in subscribers :
       /\ subscribers' = subscribers \ {b}
       /\ IF ~isStreaming THEN dropped' = dropped \cup {b} /\ UNCHANGED returner
          ELSE returnPc' = "lookup" /\ returnBuf' = b /\ UNCHANGED dropped
  /\ UNCHANGED <<flags, stream, known, bufIndex, thread, v4lHalPc, marks, counts>>

(* mPreviewBufs.valueFor() aborts when the buffer is not there.               *)
LookUp ==
  /\ Alive /\ returnPc = "lookup"
  /\ IF known THEN returnPc' = "queue" /\ bufIndex' = returnBuf /\ v4lRaced' = (v4lRaced \/ threadPc = "got") /\ UNCHANGED crashed
     ELSE crashed' = TRUE /\ UNCHANGED <<returnPc, bufIndex, v4lRaced>>
  /\ UNCHANGED <<flags, stream, known, subscribers, thread, returnBuf, v4lHalPc, dropped, twice, stolen, counts>>

(* VIDIOC_QBUF of whatever index is there by now; the driver refuses a buffer *)
(* it has, and one that is not allocated, which in the stream of a picture    *)
(* depends on the number of images.                                           *)
PictureStream == mCapturing /\ v4lHalPc \in {"frame", "stuck"}
Queue ==
  /\ Alive /\ returnPc = "queue" /\ returnPc' = "none" /\ returnBuf' = 0
  /\ \/ mapped /\ bufIndex \notin driver /\ driver' = driver \cup {bufIndex} /\ UNCHANGED <<dropped, v4lFaults>>
     \/ /\ ~mapped \/ bufIndex \in driver \/ PictureStream
        /\ dropped' = (IF bufIndex \in driver THEN dropped ELSE dropped \cup {returnBuf}) /\ UNCHANGED <<driver, v4lFaults>>
     \/ V4LFault /\ dropped' = dropped \cup {returnBuf} /\ UNCHANGED driver
  /\ UNCHANGED <<flags, isStreaming, mapped, known, bufIndex, subscribers, thread, v4lHalPc, marks, pictures>>
-----------------------------------------------------------------------------
(* takePicture(), on the application's thread, and its steps.  A step that    *)
(* fails ends the call with mCapturing set.  The state machine is left in     *)
(* LOADED_CAPTURE_STATE, where it refuses CAMERA_STOP_IMAGE_CAPTURE and all   *)
(* else but a further takePicture(), which mCapturing refuses: stuck.         *)

TakePicture ==
  /\ Alive /\ v4lHalPc = "idle" /\ mPreviewing /\ ~mCapturing /\ pictures < V4LPictures /\ pictures' = pictures + 1
  /\ mCapturing' = TRUE /\ mPreviewing' = FALSE
  /\ \/ StopStreaming /\ v4lHalPc' = "picture" /\ UNCHANGED v4lFaults
     \/ StopStreamingFails /\ v4lHalPc' = "stuck"
  /\ UNCHANGED <<known, bufIndex, subscribers, thread, returner, dropped, marks>>

(* The stream of the picture, with one buffer.                                *)
StartPicture ==
  /\ Alive /\ v4lHalPc = "picture"
  /\ \/ Stream({0}) /\ v4lHalPc' = "frame" /\ UNCHANGED v4lFaults
     \/ NotStreamed({0}) /\ v4lHalPc' = "stuck"
  /\ UNCHANGED <<flags, known, subscribers, thread, returner, dropped, marks, pictures>>

(* GetFrame(), then the picture is sent and its stream stopped.  Without a    *)
(* frame the stream of the picture stays on.                                  *)
GetPicture ==
  /\ Alive /\ v4lHalPc = "frame"
  /\ \/ /\ bufIndex' \in driver /\ v4lRaced' = (v4lRaced \/ returnPc = "queue")
        /\ \/ StopStreaming /\ v4lHalPc' = "restart" /\ UNCHANGED v4lFaults
           \/ /\ V4LFault /\ v4lHalPc' = "stuck"
              /\ StopStreaming \/ (driver' = driver \ {bufIndex'} /\ UNCHANGED <<isStreaming, mapped>>)
     \/ V4LFault /\ v4lHalPc' = "stuck" /\ UNCHANGED <<stream, bufIndex, v4lRaced>>
  /\ UNCHANGED <<flags, known, subscribers, thread, returner, dropped, twice, stolen, crashed, pictures>>

(* restartPreview() queues all the preview's buffers, whoever has them.       *)
RestartPreview ==
  /\ Alive /\ v4lHalPc = "restart"
  /\ \/ /\ Stream(V4LBufs) /\ v4lHalPc' = "taken"
        /\ dropped' = {} /\ twice' = (twice \/ subscribers # {} \/ returnPc # "none" \/ threadPc \in {"got", "convert"})
        /\ UNCHANGED v4lFaults
     \/ NotStreamed(V4LBufs) /\ v4lHalPc' = "stuck" /\ UNCHANGED <<dropped, twice>>
  /\ UNCHANGED <<flags, known, subscribers, thread, returner, v4lRaced, stolen, crashed, pictures>>

(* stopImageCapture(), when the image of a picture that was taken is returned *)
(* or the application cancels.                                                *)
StopImageCapture ==
  /\ Alive /\ v4lHalPc = "taken" /\ v4lHalPc' = "idle" /\ mCapturing' = FALSE /\ mPreviewing' = TRUE
  /\ UNCHANGED <<stream, known, bufIndex, subscribers, thread, returner, dropped, marks, counts>>
-----------------------------------------------------------------------------
PreviewThread == Loop \/ Dequeue \/ ReadIndex \/ SendFrame
Returner == ReturnFrame \/ LookUp \/ Queue
Hal == Join \/ StartPicture \/ GetPicture \/ RestartPreview
Next == PreviewThread \/ Returner \/ Hal \/ StopImageCapture \/ StartPreview \/ StopPreview \/ TakePicture

Spec == Init /\ [][Next]_v4lVars /\ WF_v4lVars(PreviewThread) /\ WF_v4lVars(Returner) /\ WF_v4lVars(Hal)
-----------------------------------------------------------------------------
TypeOK ==
  /\ driver \subseteq V4LBufs /\ subscribers \subseteq V4LBufs /\ dropped \subseteq V4LBufs /\ bufIndex \in V4LBufs
  /\ (mCapturing => ~mPreviewing) /\ (isStreaming => mapped)

WithThread == IF threadPc \in {"got", "convert"} THEN {threadGot} ELSE {}
WithReturner == IF returnPc # "none" THEN {returnBuf} ELSE {}

(* A preview that streams has each of its buffers in exactly one place: with  *)
(* the driver, the preview thread, the subscribers, on the way back, or left  *)
(* out since its frame could not be sent; unless two threads have met in      *)
(* mVideoInfo->buf or a stream was started with frames outside.               *)
EachBufferOnce ==
  (mPreviewing /\ isStreaming /\ ~crashed /\ ~v4lRaced /\ ~twice /\ ~stolen) =>
    /\ UNION {driver, subscribers, WithThread, WithReturner, dropped} = V4LBufs
    /\ Cardinality(driver) + Cardinality(subscribers) + Cardinality(WithThread) + Cardinality(WithReturner)
         + Cardinality(dropped) = Cardinality(V4LBufs)

(* stopPreview() and takePicture() return, unless the preview thread took the *)
(* picture, or waits for a frame of a stream that stopPreview() did not end.  *)
V4LCalled == v4lHalPc \notin {"idle", "taken", "stuck"}
ThreadLeftWaiting == v4lHalPc = "failing" /\ isStreaming /\ driver = {} /\ threadPc = "dequeue"
V4LReturned == ~V4LCalled \/ stolen \/ crashed \/ ThreadLeftWaiting
V4LCallsReturn == V4LCalled ~> V4LReturned
=============================================================================
