------------------------------ MODULE Notifier ------------------------------
(* AppCallbackNotifier: the thread of the camera adapter puts frames and      *)
(* events into its queues, its own thread takes them out and calls the        *)
(* application, pictures are encoded on threads of their own, and CameraHal   *)
(* starts, stops and flushes it all.                                          *)
EXTENDS Integers, Sequences, FiniteSets, FiniteSetsExt, SequencesExt

CONSTANTS Plans,     \* what the application may be up to
          MaxStarts  \* bound: how often the preview, and a recording, is started

(* A plan: the frames of the adapter by their type, in the order of their    *)
(* buffers' addresses, and what the application calls.  YUV is an image that *)
(* the notifier has to encode, JPEG one that the adapter has encoded.        *)
FrameTypes == {"PREVIEW", "VIDEO", "JPEG", "YUV"}
PlanType == [frames : Seq(FrameTypes), stops : BOOLEAN, records : BOOLEAN,
             focuses : BOOLEAN, flushes : BOOLEAN]

ASSUME NotifierAssumption == MaxStarts \in Nat /\ \A p \in Plans : p \in PlanType

Queues == {"msg", "event", "frame"}

VARIABLES
  plan,
  mNotifierState, mPreviewing, mPreviewMemory, mRecording, focusEnabled,
  subs,                  \* the frame types the notifier is subscribed to
  msgQ, eventQ, frameQ, hasMsg,
  mLock,                 \* free, or held by the notification thread
  nt, polled, job,       \* notification thread: place, what poll() said, its frame
  out,                   \* the frames the adapter counts as handed out
  held, late,            \* video frames the application has: of this recording, of earlier ones
  gEncoderQueue, enc,    \* queued encoders by frame; the place of each encoder's thread
  canceled,              \* mCancelEncoding
  app, victim, starts, recordings,   \* the application's thread
  focusing,              \* the adapter owes a focus event
  crashed                \* "no", or what the process died of

notifier == <<mNotifierState, mPreviewing, mPreviewMemory, mRecording, focusEnabled, subs>>
queues   == <<msgQ, eventQ, frameQ, hasMsg, mLock>>
thread   == <<nt, polled, job>>
videos   == <<held, late>>
handed   == <<out, videos>>
encoders == <<gEncoderQueue, enc, canceled>>
client   == <<app, victim, starts, recordings, focusing>>
vars == <<plan, notifier, queues, thread, handed, encoders, client, crashed>>

Frames  == 1..Len(plan.frames)
Type(f) == plan.frames[f]
Started == mNotifierState = "started"
Free    == ~mLock
None    == 0

Init ==
  /\ plan \in Plans
  /\ mNotifierState = "stopped" /\ mPreviewing = FALSE /\ mPreviewMemory = FALSE
  /\ mRecording = FALSE /\ focusEnabled = FALSE
  /\ subs = {"JPEG", "YUV"}
  /\ msgQ = <<>> /\ eventQ = <<>> /\ frameQ = <<>>
  /\ hasMsg = [q \in Queues |-> FALSE] /\ mLock = FALSE
  /\ nt = "wait" /\ polled = {} /\ job = None
  /\ out = {} /\ held = [f \in Frames |-> 0] /\ late = [f \in Frames |-> 0]
  /\ gEncoderQueue = {} /\ enc = [f \in Frames |-> "none"] /\ canceled = {}
  /\ app = "idle" /\ victim = None /\ starts = 0 /\ recordings = 0 /\ focusing = FALSE
  /\ crashed = "no"

(* returnFrame(): of a frame that is not out it changes nothing.             *)
Return(f) == out' = out \ {f}

-----------------------------------------------------------------------------
(* The adapter's thread.                                                    *)

(* A frame of a subscribed type; the queue takes it without a lock.          *)
FrameCallback(f) ==
  /\ f \notin out /\ Type(f) \in subs /\ mPreviewing
  /\ out' = out \union {f}
  /\ frameQ' = Append(frameQ, f)
  /\ UNCHANGED <<plan, notifier, msgQ, eventQ, hasMsg, mLock, thread, videos, encoders, client, crashed>>

EventCallback ==
  /\ focusing /\ Free
  /\ focusing' = FALSE
  /\ eventQ' = Append(eventQ, "focus")
  /\ UNCHANGED <<plan, notifier, msgQ, frameQ, hasMsg, mLock, thread, handed, encoders>>
  /\ UNCHANGED <<app, victim, starts, recordings, crashed>>

-----------------------------------------------------------------------------
(* The notification thread.                                                 *)

Nonempty == {q \in Queues : \/ q = "msg" /\ msgQ # <<>>
                            \/ q = "event" /\ eventQ # <<>>
                            \/ q = "frame" /\ frameQ # <<>>}

(* waitForMsg(): the poll, then the flags of the queues that were readable.  *)
Poll ==
  /\ nt = "wait" /\ Nonempty # {}
  /\ polled' = Nonempty /\ nt' = "flags"
  /\ UNCHANGED <<plan, notifier, queues, job, handed, encoders, client, crashed>>

SetMsg ==
  /\ nt = "flags"
  /\ hasMsg' = [q \in Queues |-> hasMsg[q] \/ q \in polled]
  /\ polled' = {}
  /\ nt' = "message"
  /\ UNCHANGED <<plan, notifier, msgQ, eventQ, frameQ, mLock, job, handed, encoders, client, crashed>>

(* Mutant: the message is read and the thread goes on.                       *)
ExitIgnored ==
  /\ nt = "message" /\ nt' = "event"
  /\ IF hasMsg["msg"]
     THEN msgQ' = Tail(msgQ) /\ hasMsg' = [hasMsg EXCEPT !["msg"] = FALSE]
     ELSE UNCHANGED <<msgQ, hasMsg>>
  /\ UNCHANGED <<plan, notifier, eventQ, frameQ, mLock, polled, job, handed, encoders, client, crashed>>

(* processMessage(): NOTIFIER_EXIT is the only message.                      *)
ProcessMessage ==
  /\ nt = "message"
  /\ IF hasMsg["msg"]
     THEN /\ msgQ' = Tail(msgQ) /\ hasMsg' = [hasMsg EXCEPT !["msg"] = FALSE]
          /\ mNotifierState' = "exited" /\ nt' = "exited"
     ELSE nt' = "event" /\ UNCHANGED <<msgQ, hasMsg, mNotifierState>>
  /\ UNCHANGED <<plan, mPreviewing, mPreviewMemory, mRecording, focusEnabled, subs>>
  /\ UNCHANGED <<eventQ, frameQ, mLock, polled, job, handed, encoders, client, crashed>>

(* Mutant: the event is read without mLock.                                  *)
GetEventUnlocked ==
  /\ nt = "event"
  /\ IF ~hasMsg["event"]
     THEN nt' = "frame" /\ UNCHANGED <<eventQ, hasMsg>>
     ELSE IF eventQ = <<>>
     THEN nt' = "read" /\ UNCHANGED <<eventQ, hasMsg>>
     ELSE /\ eventQ' = Tail(eventQ) /\ hasMsg' = [hasMsg EXCEPT !["event"] = FALSE]
          /\ nt' = IF Started THEN "notify" ELSE "frame"
  /\ UNCHANGED <<plan, notifier, msgQ, frameQ, mLock, polled, job, handed, encoders, client, crashed>>

(* notifyEvent(): the event is read under mLock when hasMsg says there is    *)
(* one; a read from an empty queue waits for the next event, mLock held.     *)
GetEvent ==
  /\ nt = "event" /\ (hasMsg["event"] => Free)
  /\ IF ~hasMsg["event"]
     THEN nt' = "frame" /\ UNCHANGED <<eventQ, hasMsg, mLock>>
     ELSE IF eventQ = <<>>
     THEN nt' = "read" /\ mLock' = TRUE /\ UNCHANGED <<eventQ, hasMsg>>
     ELSE /\ eventQ' = Tail(eventQ) /\ hasMsg' = [hasMsg EXCEPT !["event"] = FALSE]
          /\ nt' = IF Started THEN "notify" ELSE "frame"
          /\ UNCHANGED mLock
  /\ UNCHANGED <<plan, notifier, msgQ, frameQ, polled, job, handed, encoders, client, crashed>>

(* The answer to autoFocus(), told once.                                     *)
NotifyFocus ==
  /\ nt = "notify"
  /\ focusEnabled' = FALSE
  /\ nt' = "frame"
  /\ UNCHANGED <<plan, mNotifierState, mPreviewing, mPreviewMemory, mRecording, subs>>
  /\ UNCHANGED <<queues, polled, job, handed, encoders, client, crashed>>

(* notifyFrame(): the frame is read under mLock if the pipe has one.  The    *)
(* branches, by its type, are the actions below.                             *)
GetFrame ==
  /\ nt = "frame" /\ (hasMsg["frame"] => Free)
  /\ IF hasMsg["frame"] /\ frameQ # <<>>
     THEN /\ job' = Head(frameQ) /\ frameQ' = Tail(frameQ)
          /\ nt' = Type(Head(frameQ))
     ELSE nt' = "wait" /\ UNCHANGED <<job, frameQ>>
  /\ hasMsg' = [hasMsg EXCEPT !["frame"] = FALSE]
  /\ UNCHANGED <<plan, notifier, msgQ, eventQ, mLock, polled, handed, encoders, client, crashed>>

(* Mutant: a notifier that was stopped returns no frame.                     *)
CopyOnlyStarted ==
  /\ nt \in {"PREVIEW", "JPEG"} /\ Free
  /\ IF Started THEN Return(job) ELSE UNCHANGED out
  /\ nt' = IF Started THEN "send" ELSE "wait"
  /\ UNCHANGED <<plan, notifier, queues, polled, job, videos, encoders, client, crashed>>

(* copyAndSendPreviewFrame(), copyAndSendPictureFrame(): a copy under mLock  *)
(* if the notifier is started (and has its preview memory), then the frame   *)
(* is returned either way.                                                   *)
CopyFrame ==
  /\ nt \in {"PREVIEW", "JPEG"} /\ Free
  /\ Return(job)
  /\ nt' = IF Started /\ (nt = "PREVIEW" => mPreviewMemory) THEN "send" ELSE "wait"
  /\ UNCHANGED <<plan, notifier, queues, polled, job, videos, encoders, client, crashed>>

(* The data callback, for a preview frame under mLock and with the memory    *)
(* still there.                                                              *)
SendCopy ==
  /\ nt = "send" /\ (Type(job) = "PREVIEW" => Free)
  /\ nt' = "wait"
  /\ UNCHANGED <<plan, notifier, queues, polled, job, handed, encoders, client, crashed>>

(* A frame to encode: the thumbnail is as large as the preview memory says,  *)
(* through a null pointer when that is gone, and the state of the notifier   *)
(* is not asked for.                                                         *)
StartEncoder ==
  /\ nt = "YUV"
  /\ crashed' = IF mPreviewMemory THEN crashed ELSE "thumbnail"
  /\ gEncoderQueue' = gEncoderQueue \union {job}
  /\ enc' = [enc EXCEPT ![job] = "encoding"]
  /\ canceled' = canceled \ {job}
  /\ nt' = "wait"
  /\ UNCHANGED <<plan, notifier, queues, polled, job, handed, client>>

(* A video frame goes to the application while a recording is on, if only    *)
(* the next one.  Else it goes nowhere.                                      *)
SendVideo ==
  /\ nt = "VIDEO"
  /\ held' = IF mRecording THEN [held EXCEPT ![job] = @ + 1] ELSE held
  /\ nt' = "wait"
  /\ UNCHANGED <<plan, notifier, queues, polled, job, out, late, encoders, client, crashed>>

-----------------------------------------------------------------------------
(* The thread of an encoder, and EncoderDoneCb().                            *)

Goto(f, place) == enc' = [enc EXCEPT ![f] = place]

(* threadLoop(): encode() ends, maybe early; the callback does nothing more   *)
(* for an encoder that was cancelled.                                        *)
EncodeDone(f) ==
  /\ enc[f] = "encoding"
  /\ Goto(f, IF f \in canceled THEN "none" ELSE "picture")
  /\ UNCHANGED <<plan, notifier, queues, thread, handed, gEncoderQueue, canceled, client, crashed>>

(* The picture is copied under mLock, then sent if the notifier is started.  *)
CopyPicture(f) ==
  /\ enc[f] = "picture" /\ Free
  /\ Goto(f, "deliver")
  /\ UNCHANGED <<plan, notifier, queues, thread, handed, gEncoderQueue, canceled, client, crashed>>

(* The exit of EncoderDoneCb() asks for the state once more.  A notifier     *)
(* that was stopped keeps the frame.                                         *)
DeliverPicture(f) ==
  /\ enc[f] = "deliver"
  /\ Goto(f, IF Started THEN "exit" ELSE "none")
  /\ UNCHANGED <<plan, notifier, queues, thread, handed, gEncoderQueue, canceled, client, crashed>>

RemoveEncoder(f) ==
  /\ enc[f] = "exit"
  /\ gEncoderQueue' = gEncoderQueue \ {f}
  /\ Return(f) /\ Goto(f, "none")
  /\ UNCHANGED <<plan, notifier, queues, thread, videos, canceled, client, crashed>>

-----------------------------------------------------------------------------
(* The application's thread, in CameraHal.                                  *)

(* startPreviewCallbacks() and start().                                      *)
StartPreview ==
  /\ app = "idle" /\ starts < MaxStarts /\ ~mPreviewing /\ Free
  /\ starts' = starts + 1
  /\ mPreviewing' = TRUE /\ mPreviewMemory' = TRUE
  /\ subs' = subs \union {"PREVIEW"}
  /\ mNotifierState' = "started" /\ gEncoderQueue' = {}
  /\ UNCHANGED <<plan, mRecording, focusEnabled, queues, thread, handed, enc, canceled>>
  /\ UNCHANGED <<app, victim, recordings, focusing, crashed>>

(* forceStopPreview(): stop(), flushAndReturnFrames(), stopPreviewCallbacks(). *)
Stop ==
  /\ plan.stops /\ app = "idle" /\ Started /\ ~mRecording /\ Free
  /\ mNotifierState' = "stopped"
  /\ app' = "cancel"
  /\ UNCHANGED <<plan, mPreviewing, mPreviewMemory, mRecording, focusEnabled, subs>>
  /\ UNCHANGED <<queues, thread, handed, encoders, victim, starts, recordings, focusing, crashed>>

(* One encoder after the other is cancelled, and the first one of the queue  *)
(* removed: nothing is locked.                                               *)
CancelEncoder ==
  /\ app = "cancel"
  /\ IF gEncoderQueue = {}
     THEN app' = "flush" /\ UNCHANGED <<victim, canceled>>
     ELSE /\ victim' = Min(gEncoderQueue) /\ app' = "remove"
          /\ canceled' = canceled \union {victim'}
  /\ UNCHANGED <<plan, notifier, queues, thread, handed, gEncoderQueue, enc, starts, recordings, focusing, crashed>>

RemoveItemsAt ==
  /\ app = "remove"
  /\ gEncoderQueue' = IF gEncoderQueue = {} THEN {} ELSE gEncoderQueue \ {Min(gEncoderQueue)}
  /\ app' = "cancel" /\ victim' = None
  /\ UNCHANGED <<plan, notifier, queues, thread, handed, enc, canceled, starts, recordings, focusing, crashed>>

(* Mutant: the queue is emptied and the frames are forgotten.                *)
FlushForgetsFrames ==
  /\ app = "flush" /\ Free
  /\ frameQ' = <<>> /\ hasMsg' = [hasMsg EXCEPT !["frame"] = FALSE]
  /\ app' = "callbacks"
  /\ UNCHANGED <<plan, notifier, msgQ, eventQ, mLock, thread, handed, encoders, victim, starts, recordings, focusing, crashed>>

FlushAndReturnFrames ==
  /\ app = "flush" /\ Free
  /\ out' = out \ Range(frameQ)
  /\ frameQ' = <<>> /\ hasMsg' = [hasMsg EXCEPT !["frame"] = FALSE]
  /\ app' = "callbacks"
  /\ UNCHANGED <<plan, notifier, msgQ, eventQ, mLock, thread, videos, encoders, victim, starts, recordings, focusing, crashed>>

StopPreviewCallbacks ==
  /\ app = "callbacks" /\ Free
  /\ subs' = subs \ {"PREVIEW"}
  /\ mPreviewMemory' = FALSE /\ mPreviewing' = FALSE
  /\ app' = "idle"
  /\ UNCHANGED <<plan, mNotifierState, mRecording, focusEnabled>>
  /\ UNCHANGED <<queues, thread, handed, encoders, victim, starts, recordings, focusing, crashed>>

StartRecording ==
  /\ plan.records /\ app = "idle" /\ Started /\ ~mRecording /\ recordings < MaxStarts
  /\ mRecording' = TRUE /\ subs' = subs \union {"VIDEO"}
  /\ recordings' = recordings + 1
  /\ UNCHANGED <<plan, mNotifierState, mPreviewing, mPreviewMemory, focusEnabled>>
  /\ UNCHANGED <<queues, thread, handed, encoders, app, victim, starts, focusing, crashed>>

(* stopRecording() forgets the frames that the application still has ...      *)
StopRecording ==
  /\ app = "idle" /\ mRecording
  /\ mRecording' = FALSE /\ subs' = subs \ {"VIDEO"}
  /\ late' = [f \in Frames |-> late[f] + held[f]] /\ held' = [f \in Frames |-> 0]
  /\ app' = "recorded"
  /\ UNCHANGED <<plan, mNotifierState, mPreviewing, mPreviewMemory, focusEnabled>>
  /\ UNCHANGED <<queues, thread, out, encoders, victim, starts, recordings, focusing, crashed>>

(* ... and stopVideoCapture() takes back every frame that counts as out,      *)
(* wherever it is.                                                            *)
TakeBack ==
  /\ app = "recorded" /\ app' = "idle"
  /\ out' = {f \in out : Type(f) # "VIDEO"}
  /\ UNCHANGED <<plan, notifier, queues, thread, videos, encoders, victim, starts, recordings, focusing, crashed>>

(* The application gives back a video frame.                                 *)
ReleaseRecordingFrame(f) ==
  /\ held[f] > 0 /\ held' = [held EXCEPT ![f] = @ - 1]
  /\ Return(f)
  /\ UNCHANGED <<plan, notifier, queues, thread, late, encoders, client, crashed>>

(* It gives back a frame of a recording that was stopped: the release had     *)
(* found its frame before, or does not find it any more, or is dropped by     *)
(* CameraHal, which records no longer.                                        *)
LateRelease(f) ==
  /\ late[f] > 0 /\ late' = [late EXCEPT ![f] = @ - 1]
  /\ \/ Return(f) /\ UNCHANGED crashed
     \/ (mRecording \/ app = "recorded") /\ crashed' = "release" /\ UNCHANGED out
     \/ ~mRecording /\ app # "recorded" /\ UNCHANGED <<out, crashed>>
  /\ UNCHANGED <<plan, notifier, queues, thread, held, encoders, client>>

AutoFocus ==
  /\ plan.focuses /\ app = "idle" /\ Started /\ ~focusEnabled /\ ~focusing
  /\ focusEnabled' = TRUE /\ focusing' = TRUE
  /\ UNCHANGED <<plan, mNotifierState, mPreviewing, mPreviewMemory, mRecording, subs>>
  /\ UNCHANGED <<queues, thread, handed, encoders, app, victim, starts, recordings, crashed>>

(* cancelAutoFocus(): the events are flushed under mLock.                    *)
FlushEventQueue ==
  /\ plan.flushes /\ app = "idle" /\ focusEnabled /\ Free
  /\ focusEnabled' = FALSE
  /\ eventQ' = <<>> /\ hasMsg' = [hasMsg EXCEPT !["event"] = FALSE]
  /\ UNCHANGED <<plan, mNotifierState, mPreviewing, mPreviewMemory, mRecording, subs>>
  /\ UNCHANGED <<msgQ, frameQ, mLock, thread, handed, encoders, client, crashed>>

(* The destructor, once the preview is stopped: the message, and the join.   *)
PostExit ==
  /\ plan.stops /\ app = "idle" /\ mNotifierState = "stopped" /\ ~mPreviewing /\ starts > 0
  /\ subs' = {}
  /\ msgQ' = Append(msgQ, "exit") /\ app' = "join"
  /\ UNCHANGED <<plan, mNotifierState, mPreviewing, mPreviewMemory, mRecording, focusEnabled>>
  /\ UNCHANGED <<eventQ, frameQ, hasMsg, mLock, thread, handed, encoders, victim, starts, recordings, focusing, crashed>>

Join ==
  /\ app = "join" /\ nt = "exited"
  /\ app' = "gone"
  /\ UNCHANGED <<plan, notifier, queues, thread, handed, encoders, victim, starts, recordings, focusing, crashed>>

-----------------------------------------------------------------------------
NotificationThread ==
  \/ Poll \/ SetMsg \/ ProcessMessage \/ GetEvent \/ NotifyFocus \/ GetFrame
  \/ CopyFrame \/ SendCopy \/ StartEncoder \/ SendVideo

EncoderThread(f) == EncodeDone(f) \/ CopyPicture(f) \/ DeliverPicture(f) \/ RemoveEncoder(f)

(* The rest of a call the application has begun.                             *)
Stopping == CancelEncoder \/ RemoveItemsAt \/ FlushAndReturnFrames \/ StopPreviewCallbacks
            \/ TakeBack \/ Join

Application == StartPreview \/ Stop \/ StartRecording \/ StopRecording \/ AutoFocus
               \/ FlushEventQueue \/ PostExit

Releases(f) == ReleaseRecordingFrame(f) \/ LateRelease(f)

(* The process goes on until it dies.                                        *)
Lives == crashed = "no"

Next ==
  /\ Lives
  /\ \/ EventCallback \/ NotificationThread \/ Stopping \/ Application
     \/ \E f \in Frames : FrameCallback(f) \/ EncoderThread(f) \/ Releases(f)

(* The threads run, encoders end, the adapter answers autoFocus(), and video *)
(* frames are given back, as long as the process lives.                      *)
Fairness ==
  /\ WF_vars(Lives /\ NotificationThread) /\ WF_vars(Lives /\ Stopping) /\ WF_vars(Lives /\ EventCallback)
  /\ \A i \in 1..2 : WF_vars(Lives /\ i \in Frames /\ EncoderThread(i))
  /\ \A i \in 1..2 : WF_vars(Lives /\ i \in Frames /\ Releases(i))

Spec == Init /\ [][Next]_vars /\ Fairness

-----------------------------------------------------------------------------
TypeOK ==
  /\ plan \in Plans
  /\ mNotifierState \in {"stopped", "started", "exited"}
  /\ {mPreviewing, mPreviewMemory, mRecording, focusEnabled, mLock, focusing} \subseteq BOOLEAN
  /\ subs \subseteq FrameTypes
  /\ msgQ \in Seq({"exit"}) /\ eventQ \in Seq({"focus"}) /\ frameQ \in Seq(Frames)
  /\ hasMsg \in [Queues -> BOOLEAN] /\ (mLock <=> nt = "read")
  /\ nt \in {"wait", "flags", "message", "event", "read", "notify", "frame", "send", "exited"} \union FrameTypes
  /\ polled \subseteq Queues /\ job \in Frames \union {None}
  /\ out \subseteq Frames /\ held \in [Frames -> Nat] /\ late \in [Frames -> Nat]
  /\ gEncoderQueue \subseteq Frames /\ canceled \subseteq Frames
  /\ enc \in [Frames -> {"none", "encoding", "picture", "deliver", "exit"}]
  /\ app \in {"idle", "cancel", "remove", "flush", "callbacks", "recorded", "join", "gone"}
  /\ victim \in Frames \union {None} /\ starts \in 0..MaxStarts /\ recordings \in 0..MaxStarts
  /\ crashed \in {"no", "thumbnail", "release"}

(* Where a frame is.  A recording that was stopped leaves entries of its      *)
(* frames in the queue and with the application.                              *)
InQueue(f)   == \E i \in DOMAIN frameQ : frameQ[i] = f
InHand(f)    == nt \in FrameTypes /\ job = f
Somewhere(f) == InQueue(f) \/ InHand(f) \/ enc[f] # "none" \/ held[f] > 0
AtOnePlace(f) ==
  /\ \A i, j \in DOMAIN frameQ : frameQ[i] = f /\ frameQ[j] = f => i = j
  /\ InQueue(f) => ~InHand(f) /\ enc[f] = "none" /\ held[f] = 0
  /\ InHand(f) => enc[f] = "none" /\ held[f] = 0
  /\ enc[f] # "none" => held[f] = 0
  /\ held[f] <= 1
Recorded == recordings > 1 \/ (recordings = 1 /\ ~mRecording)

(* A frame goes astray only where the code lets it: a video frame until the   *)
(* stop of its recording takes it back, an image that was with its encoder    *)
(* when the notifier was stopped.  Every other frame that is out is on its    *)
(* way through notifyFrame(), flushAndReturnFrames(), EncoderDoneCb() or the  *)
(* application, and only one of them has it, until a recording was stopped:   *)
(* its frames may then be queued and sent a second time.                      *)
NoFrameLost ==
  /\ \A f \in out : \/ Somewhere(f)
                    \/ Type(f) = "VIDEO" /\ app = "recorded"
                    \/ Type(f) = "YUV" /\ plan.stops
  /\ \A f \in Frames : Type(f) # "VIDEO" \/ ~Recorded =>
       (Somewhere(f) => f \in out) /\ AtOnePlace(f)

(* What the process may die of: a picture that is encoded when the preview    *)
(* was stopped (notifyFrame()), a video frame that is released when its       *)
(* recording was (releaseRecordingFrame()).                                   *)
Dies ==
  \/ crashed = "thumbnail" /\ plan.stops /\ \E f \in Frames : Type(f) = "YUV"
  \/ crashed = "release" /\ Recorded

(* Every frame comes back to the adapter again and again: a stop in between   *)
(* does not keep one, unless an encoder has it, or the process dies.          *)
FramesComeBack ==
  \A i \in 1..2 : (i \in Frames /\ ~(Type(i) = "YUV" /\ plan.stops) /\ ~plan.flushes)
                  ~> (i \in Frames => i \notin out \/ nt = "exited" \/ Dies)

(* Calls are answered: autoFocus() as long as nobody stops the notifier, and  *)
(* the destructor, whatever else is in the queues when NOTIFIER_EXIT comes    *)
(* (the flag waitForMsg() sets and get() resets never hides a message),       *)
(* unless the process dies first.                                             *)
CallsAnswered ==
  /\ focusEnabled /\ ~plan.stops /\ ~plan.flushes ~> ~focusEnabled \/ Dies
  /\ app = "join" /\ ~plan.flushes ~> app = "gone" \/ Dies
=============================================================================
