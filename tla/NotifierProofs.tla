--------------------------- MODULE NotifierProofs ---------------------------
(* Proofs about Notifier for any plans of the application: types, and that a  *)
(* frame that is handed out has one place on its way back.                    *)
EXTENDS Notifier, WellFoundedInduction, TLAPS

(* A message that waitForMsg() or a flag speaks of is there: only the thread  *)
(* itself takes messages.                                                     *)
Messages ==
  /\ polled # {} => nt = "flags"
  /\ "msg" \in polled \/ hasMsg["msg"] => msgQ # <<>>

(* The frame the notification thread works on is in its hands.                *)
AtWork ==
  /\ nt \in FrameTypes => job \in Frames /\ Type(job) = nt
  /\ nt = "send" => job \in Frames

(* What is encoded is an image.                                               *)
Encoding == \A f \in Frames : enc[f] # "none" => Type(f) = "YUV"

(* Nothing is cancelled when the application does not stop the preview, and   *)
(* before it is started there is nothing to do.                               *)
NeverStopped == ~plan.stops =>
  /\ app \in {"idle", "recorded"} /\ canceled = {} /\ msgQ = <<>>
  /\ ~Started => mNotifierState = "stopped" /\ ~mPreviewing /\ out = {}

(* Video frames go out while a recording is on, and its end takes them back;  *)
(* the application has no other frames.                                       *)
Recordings ==
  /\ "VIDEO" \in subs => mRecording
  /\ mRecording => recordings > 0 /\ app # "recorded"
  /\ app = "recorded" => Recorded
  /\ ~mRecording /\ app # "recorded" => \A f \in out : Type(f) # "VIDEO"
  /\ \A f \in Frames : held[f] > 0 => Type(f) = "VIDEO"
  /\ \A f \in Frames : late[f] > 0 => Type(f) = "VIDEO" /\ Recorded

(* NoFrameLost, frame by frame.                                               *)
Kept(f) == f \in out => \/ Somewhere(f)
                        \/ Type(f) = "VIDEO" /\ app = "recorded"
                        \/ Type(f) = "YUV" /\ plan.stops
Alone(f) == Type(f) # "VIDEO" \/ ~Recorded => (Somewhere(f) => f \in out) /\ AtOnePlace(f)

IInv == TypeOK /\ Messages /\ AtWork /\ Encoding /\ NeverStopped /\ Recordings /\ NoFrameLost

-----------------------------------------------------------------------------
(* The plan is chosen at the start.                                           *)
LEMMA Fixed ==
  ASSUME plan \in Plans, [Next]_vars
  PROVE  /\ plan' = plan /\ plan.stops \in BOOLEAN
         /\ Frames' = Frames /\ Frames \subseteq Nat /\ None \notin Frames
         /\ \A f \in Frames : Type(f) \in FrameTypes /\ Type(f)' = Type(f)
<1>1. plan \in PlanType
  BY NotifierAssumption
<1>2. plan.frames \in Seq(FrameTypes) /\ plan.stops \in BOOLEAN
  BY <1>1 DEF PlanType
<1>3. Len(plan.frames) \in Nat /\ DOMAIN plan.frames = Frames
  BY <1>2 DEF Frames
<1>4. plan' = plan
  BY DEF Next, NotificationThread, EncoderThread, Stopping, Application, vars, FrameCallback, EventCallback, Poll,
         SetMsg, ProcessMessage, GetEvent, NotifyFocus, GetFrame, CopyFrame, SendCopy, StartEncoder, SendVideo,
         EncodeDone, CopyPicture, DeliverPicture, RemoveEncoder, StartPreview, Stop, CancelEncoder,
         RemoveItemsAt, FlushAndReturnFrames, StopPreviewCallbacks, StartRecording, StopRecording,
         ReleaseRecordingFrame, LateRelease, Releases, TakeBack, AutoFocus, FlushEventQueue, PostExit, Join
<1>5. \A f \in Frames : Type(f) \in FrameTypes
  BY <1>2, <1>3 DEF Type
<1> QED
  BY <1>2, <1>3, <1>4, <1>5 DEF Frames, Type, None

(* The first encoder of the queue is one of them.                             *)
LEMMA FirstEncoder == ASSUME NEW S \in SUBSET Nat, S # {} PROVE Min(S) \in S
<1> DEFINE Less == {ss \in Nat \X Nat : ss[1] < ss[2]}
<1>1. IsWellFoundedOn(Less, Nat)
  BY NatLessThanWellFounded DEF OpToRel
<1>2. PICK x \in S : \A y \in S : ~(<<y, x>> \in Less)
  <2> HIDE DEF Less
  <2> QED  BY <1>1, WFMin
<1>3. ASSUME NEW y \in S PROVE x =< y
  <2>1. x \in Nat /\ y \in Nat /\ ~(<<y, x>> \in Less)
    BY <1>2
  <2> QED
    BY <2>1
<1> QED
  BY <1>3 DEF Min

(* A queue and its head and tail.                                             *)
LEMMA QueueTypes ==
  ASSUME NEW S, NEW q \in Seq(S)
  PROVE  /\ \A x \in S : Append(q, x) \in Seq(S) /\ Append(q, x) # <<>>
         /\ q # <<>> => Head(q) \in S /\ Tail(q) \in Seq(S)
<1>1. ASSUME NEW x \in S PROVE Append(q, x) \in Seq(S) /\ Append(q, x) # <<>>
  <2>1. Append(q, x) \in Seq(S) /\ Len(Append(q, x)) = Len(q) + 1 /\ Len(q) \in Nat
    OBVIOUS
  <2>2. Len(q) + 1 # 0 /\ Len(<<>>) = 0
    BY <2>1
  <2> QED
    BY <2>1, <2>2
<1> QED
  BY <1>1

(* What is in a queue, and in it once.                                        *)
In(q, x)   == \E i \in DOMAIN q : q[i] = x
Once(q, x) == \A i, j \in DOMAIN q : q[i] = x /\ q[j] = x => i = j

LEMMA Appended ==
  ASSUME NEW S, NEW q \in Seq(S), NEW x \in S, NEW y
  PROVE  /\ In(Append(q, x), y) <=> In(q, y) \/ y = x
         /\ Once(q, y) /\ (x = y => ~In(q, y)) => Once(Append(q, x), y)
<1>1. Append(q, x) \in Seq(S) /\ Len(Append(q, x)) = Len(q) + 1 /\ Len(q) \in Nat
  OBVIOUS
<1>2. /\ DOMAIN q = 1 .. Len(q) /\ DOMAIN Append(q, x) = 1 .. (Len(q) + 1)
      /\ Append(q, x)[Len(q) + 1] = x /\ \A i \in 1 .. Len(q) : Append(q, x)[i] = q[i]
  BY <1>1
<1>3. \A i \in 1 .. (Len(q) + 1) : i \in 1 .. Len(q) \/ i = Len(q) + 1
  BY <1>1
<1>4. Len(q) + 1 \in 1 .. (Len(q) + 1) /\ \A i \in 1 .. Len(q) : i \in 1 .. (Len(q) + 1)
  BY <1>1
<1>5. In(Append(q, x), y) <=> In(q, y) \/ y = x
  BY <1>2, <1>3, <1>4 DEF In
<1>6. Once(q, y) /\ (x = y => ~In(q, y)) => Once(Append(q, x), y)
  BY <1>2, <1>3 DEF In, Once
<1> QED
  BY <1>5, <1>6

LEMMA Beheaded ==
  ASSUME NEW S, NEW q \in Seq(S), q # <<>>, NEW y
  PROVE  /\ In(q, y) <=> In(Tail(q), y) \/ y = Head(q)
         /\ Once(q, y) => Once(Tail(q), y) /\ (y = Head(q) => ~In(Tail(q), y))
<1>1. Len(q) \in Nat /\ Len(q) > 0 /\ Tail(q) \in Seq(S) /\ Len(Tail(q)) = Len(q) - 1
  OBVIOUS
<1>2. DOMAIN q = 1 .. Len(q) /\ DOMAIN Tail(q) = 1 .. (Len(q) - 1) /\ Head(q) = q[1]
  BY <1>1
<1>3. \A i \in 1 .. (Len(q) - 1) : Tail(q)[i] = q[i + 1]
  BY <1>1
<1>4. ASSUME In(q, y) PROVE In(Tail(q), y) \/ y = Head(q)
  <2>1. PICK i \in 1 .. Len(q) : y = q[i]
    BY <1>2, <1>4 DEF In
  <2>2. CASE i = 1
    BY <1>2, <2>1, <2>2
  <2>3. CASE i # 1
    <3>1. i - 1 \in 1 .. (Len(q) - 1) /\ (i - 1) + 1 = i
      BY <1>1, <2>1, <2>3
    <3>2. Tail(q)[i - 1] = y
      BY <1>3, <2>1, <3>1
    <3> QED
      BY <1>2, <3>1, <3>2 DEF In
  <2> QED
    BY <2>2, <2>3
<1>5. ASSUME In(Tail(q), y) \/ y = Head(q) PROVE In(q, y)
  BY <1>1, <1>2, <1>3, <1>5 DEF In
<1>6. ASSUME Once(q, y) PROVE Once(Tail(q), y) /\ (y = Head(q) => ~In(Tail(q), y))
  BY <1>1, <1>2, <1>3, <1>6 DEF In, Once
<1> QED
  BY <1>4, <1>5, <1>6

(* A flag that is reset.                                                      *)
LEMMA FlagReset ==
  ASSUME hasMsg \in [Queues -> BOOLEAN], NEW q
  PROVE  [hasMsg EXCEPT ![q] = FALSE] \in [Queues -> BOOLEAN]
OBVIOUS

LEMMA TypeStep ==
  ASSUME TypeOK, Messages, AtWork, [Next]_vars
  PROVE  TypeOK'
<1> USE Fixed DEF TypeOK, Messages, AtWork, Free, Return, Goto, Started, FrameTypes, Queues, notifier, queues, thread, videos, handed, encoders, client
<1>1. ASSUME NEW f \in Frames, FrameCallback(f) PROVE TypeOK'
  <2>1. frameQ' \in Seq(Frames) /\ out' \subseteq Frames
    BY <1>1, QueueTypes DEF FrameCallback
  <2>2. UNCHANGED <<plan, notifier, msgQ, eventQ, hasMsg, mLock, thread, videos, encoders, client, crashed>>
    BY <1>1 DEF FrameCallback
  <2> QED
    BY <2>1, <2>2
<1>2. CASE EventCallback
  <2>1. eventQ' \in Seq({"focus"})
    BY <1>2, QueueTypes DEF EventCallback
  <2>2. focusing' \in BOOLEAN
    BY <1>2 DEF EventCallback
  <2>3. UNCHANGED <<plan, notifier, msgQ, frameQ, hasMsg, mLock, thread, handed, encoders, app, victim, starts, recordings, crashed>>
    BY <1>2 DEF EventCallback
  <2> QED
    BY <2>1, <2>2, <2>3
<1>3. CASE Poll
  <2>1. polled' \subseteq Queues
    BY <1>3 DEF Poll, Nonempty
  <2>2. nt' = "flags" /\ nt = "wait"
    BY <1>3 DEF Poll
  <2>3. UNCHANGED <<plan, notifier, queues, job, handed, encoders, client, crashed>>
    BY <1>3 DEF Poll
  <2> QED
    BY <2>1, <2>2, <2>3
<1>4. CASE SetMsg
  BY <1>4 DEF SetMsg
<1>5. CASE ProcessMessage
  <2>1. msgQ' \in Seq({"exit"}) /\ hasMsg' \in [Queues -> BOOLEAN]
    <3>1. msgQ' = msgQ \/ (msgQ # <<>> /\ msgQ' = Tail(msgQ))
      BY <1>5 DEF ProcessMessage
    <3>2. hasMsg' \in [Queues -> BOOLEAN]
      <4>1. hasMsg' = hasMsg \/ hasMsg' = [hasMsg EXCEPT !["msg"] = FALSE]
        BY <1>5 DEF ProcessMessage
      <4> QED
        BY ZenonT(40), <4>1, FlagReset
    <3>3. msgQ # <<>> => Tail(msgQ) \in Seq({"exit"})
      OBVIOUS
    <3> QED
      BY <3>1, <3>2, <3>3
  <2>2. nt' \in {"event", "exited"} /\ nt = "message" /\ mNotifierState' \in {"stopped", "started", "exited"}
    BY <1>5 DEF ProcessMessage
  <2>3. UNCHANGED <<plan, mPreviewing, mPreviewMemory, mRecording, focusEnabled, subs, eventQ, frameQ, mLock, polled, job, handed, encoders, client, crashed>>
    BY <1>5 DEF ProcessMessage
  <2> QED
    BY <2>1, <2>2, <2>3
<1>6. CASE GetEvent
  <2>1. eventQ' \in Seq({"focus"}) /\ hasMsg' \in [Queues -> BOOLEAN]
    <3>1. eventQ' = eventQ \/ (eventQ # <<>> /\ eventQ' = Tail(eventQ))
      BY <1>6 DEF GetEvent
    <3>2. hasMsg' \in [Queues -> BOOLEAN]
      <4>1. hasMsg' = hasMsg \/ hasMsg' = [hasMsg EXCEPT !["event"] = FALSE]
        BY <1>6 DEF GetEvent
      <4> QED
        BY ZenonT(40), <4>1, FlagReset
    <3>3. eventQ # <<>> => Tail(eventQ) \in Seq({"focus"})
      OBVIOUS
    <3> QED
      BY <3>1, <3>2, <3>3
  <2>2. nt' \in {"frame", "read", "notify"} /\ mLock' \in BOOLEAN
    BY <1>6 DEF GetEvent
  <2>3. mLock' <=> nt' = "read"
    BY <1>6 DEF GetEvent
  <2>4. UNCHANGED <<plan, notifier, msgQ, frameQ, polled, job, handed, encoders, client, crashed>>
    BY <1>6 DEF GetEvent
  <2> QED
    BY <2>1, <2>2, <2>3, <2>4
<1>7. CASE NotifyFocus
  BY <1>7 DEF NotifyFocus
<1>8. CASE GetFrame
  <2>1. frameQ' \in Seq(Frames) /\ job' \in Frames \cup {None} /\ hasMsg' \in [Queues -> BOOLEAN]
    <3>1. UNCHANGED <<frameQ, job>> \/ (frameQ # <<>> /\ frameQ' = Tail(frameQ) /\ job' = Head(frameQ))
      BY <1>8 DEF GetFrame
    <3>2. hasMsg' \in [Queues -> BOOLEAN]
      <4>1. hasMsg' = hasMsg \/ hasMsg' = [hasMsg EXCEPT !["frame"] = FALSE]
        BY <1>8 DEF GetFrame
      <4> QED
        BY ZenonT(40), <4>1, FlagReset
    <3>3. frameQ # <<>> => Head(frameQ) \in Frames /\ Tail(frameQ) \in Seq(Frames)
      OBVIOUS
    <3> QED
      BY <3>1, <3>2, <3>3
  <2>2. nt = "frame" /\ nt' \in FrameTypes \cup {"wait"}
    BY <1>8 DEF GetFrame
  <2>3. UNCHANGED <<plan, notifier, msgQ, eventQ, mLock, polled, handed, encoders, client, crashed>>
    BY <1>8 DEF GetFrame
  <2> QED
    BY <2>1, <2>2, <2>3
<1>9. CASE CopyFrame
  BY <1>9 DEF CopyFrame
<1>10. CASE SendCopy
  BY <1>10 DEF SendCopy
<1>11. CASE StartEncoder
  BY <1>11 DEF StartEncoder
<1>12. CASE SendVideo
  BY <1>12 DEF SendVideo
<1>13. ASSUME NEW f \in Frames, EncodeDone(f) PROVE TypeOK'
  <2>1. enc' \in [Frames -> {"none", "encoding", "picture", "deliver", "exit"}]
    BY <1>13 DEF EncodeDone
  <2>2. UNCHANGED <<plan, notifier, queues, thread, handed, gEncoderQueue, canceled, client, crashed>>
    BY <1>13 DEF EncodeDone
  <2> QED
    BY <2>1, <2>2
<1>14. ASSUME NEW f \in Frames, CopyPicture(f) PROVE TypeOK'
  <2>1. enc' \in [Frames -> {"none", "encoding", "picture", "deliver", "exit"}]
    BY <1>14 DEF CopyPicture
  <2>2. UNCHANGED <<plan, notifier, queues, thread, handed, gEncoderQueue, canceled, client, crashed>>
    BY <1>14 DEF CopyPicture
  <2> QED
    BY <2>1, <2>2
<1>15. ASSUME NEW f \in Frames, DeliverPicture(f) PROVE TypeOK'
  <2>1. enc' \in [Frames -> {"none", "encoding", "picture", "deliver", "exit"}]
    BY <1>15 DEF DeliverPicture
  <2>2. UNCHANGED <<plan, notifier, queues, thread, handed, gEncoderQueue, canceled, client, crashed>>
    BY <1>15 DEF DeliverPicture
  <2> QED
    BY <2>1, <2>2
<1>16. ASSUME NEW f \in Frames, RemoveEncoder(f) PROVE TypeOK'
  <2>1. enc' \in [Frames -> {"none", "encoding", "picture", "deliver", "exit"}]
    BY <1>16 DEF RemoveEncoder
  <2>2. UNCHANGED <<plan, notifier, queues, thread, videos, canceled, client, crashed>>
    BY <1>16 DEF RemoveEncoder
  <2>3. gEncoderQueue' \subseteq Frames /\ out' \subseteq Frames
    BY <1>16 DEF RemoveEncoder
  <2> QED
    BY <2>1, <2>2, <2>3
<1>17. CASE StartPreview
  <2>1. mPreviewing' = TRUE /\ mPreviewMemory' = TRUE
    BY <1>17 DEF StartPreview
  <2>2. subs' \subseteq FrameTypes /\ mNotifierState' = "started" /\ gEncoderQueue' = {}
    BY <1>17 DEF StartPreview
  <2>3. starts' \in 0 .. MaxStarts
    BY <1>17, NotifierAssumption DEF StartPreview
  <2>4. UNCHANGED <<plan, mRecording, focusEnabled, queues, thread, handed, enc, canceled, app, victim, recordings, focusing, crashed>>
    BY <1>17 DEF StartPreview
  <2> QED
    BY <2>1, <2>2, <2>3, <2>4
<1>18. CASE Stop
  BY <1>18 DEF Stop
<1>19. CASE CancelEncoder
  <2>1. gEncoderQueue # {} => Min(gEncoderQueue) \in Frames
    BY FirstEncoder
  <2>2. victim' \in Frames \cup {None} /\ app' \in {"flush", "remove"}
    BY <1>19, <2>1 DEF CancelEncoder
  <2>3. canceled' \subseteq Frames
    BY <1>19, <2>1 DEF CancelEncoder
  <2>4. UNCHANGED <<plan, notifier, queues, thread, handed, gEncoderQueue, enc, starts, recordings, focusing, crashed>>
    BY <1>19 DEF CancelEncoder
  <2> QED
    BY <2>1, <2>2, <2>3, <2>4
<1>20. CASE RemoveItemsAt
  BY <1>20 DEF RemoveItemsAt
<1>21. CASE FlushAndReturnFrames
  BY <1>21 DEF FlushAndReturnFrames
<1>22. CASE StopPreviewCallbacks
  BY <1>22 DEF StopPreviewCallbacks
<1>23. CASE StartRecording
  <2>1. recordings' \in 0 .. MaxStarts /\ mRecording' \in BOOLEAN /\ subs' \subseteq FrameTypes
    BY <1>23, NotifierAssumption DEF StartRecording
  <2>2. UNCHANGED <<plan, mNotifierState, mPreviewing, mPreviewMemory, focusEnabled, queues, thread, handed, encoders, app, victim, starts, focusing, crashed>>
    BY <1>23 DEF StartRecording
  <2> QED
    BY <2>1, <2>2
<1>24. CASE StopRecording
  <2>1. late' \in [Frames -> Nat] /\ held' \in [Frames -> Nat]
    <3>1. \A f \in Frames : late[f] + held[f] \in Nat
      OBVIOUS
    <3> QED
      BY <3>1, <1>24 DEF StopRecording
  <2>2. mRecording' \in BOOLEAN /\ subs' \subseteq FrameTypes /\ app' = "recorded"
    BY <1>24 DEF StopRecording
  <2>3. UNCHANGED <<plan, mNotifierState, mPreviewing, mPreviewMemory, focusEnabled, queues, thread, out, encoders, victim, starts, recordings, focusing, crashed>>
    BY <1>24 DEF StopRecording
  <2> QED
    BY <2>1, <2>2, <2>3
<1>25. CASE TakeBack
  BY <1>25 DEF TakeBack
<1>26. ASSUME NEW f \in Frames, ReleaseRecordingFrame(f) PROVE TypeOK'
  <2>1. held' \in [Frames -> Nat]
    <3>1. held[f] \in Nat /\ held[f] > 0 => held[f] - 1 \in Nat
      OBVIOUS
    <3> QED
      BY <3>1, <1>26 DEF ReleaseRecordingFrame
  <2>2. out' \subseteq Frames /\ crashed' \in {"no", "thumbnail", "release"}
    BY <1>26 DEF ReleaseRecordingFrame
  <2>3. UNCHANGED <<plan, notifier, queues, thread, late, encoders, client>>
    BY <1>26 DEF ReleaseRecordingFrame
  <2> QED
    BY <2>1, <2>2, <2>3
<1>27. ASSUME NEW f \in Frames, LateRelease(f) PROVE TypeOK'
  <2>1. late' \in [Frames -> Nat]
    <3>1. late[f] \in Nat /\ late[f] > 0 => late[f] - 1 \in Nat
      OBVIOUS
    <3> QED
      BY <3>1, <1>27 DEF LateRelease
  <2>2. out' \subseteq Frames /\ crashed' \in {"no", "thumbnail", "release"}
    BY <1>27 DEF LateRelease
  <2>3. UNCHANGED <<plan, notifier, queues, thread, held, encoders, client>>
    BY <1>27 DEF LateRelease
  <2> QED
    BY <2>1, <2>2, <2>3
<1>28. CASE AutoFocus
  BY <1>28 DEF AutoFocus
<1>29. CASE FlushEventQueue
  <2>1. eventQ' = <<>> /\ hasMsg' \in [Queues -> BOOLEAN] /\ focusEnabled' \in BOOLEAN
    BY <1>29 DEF FlushEventQueue
  <2>2. UNCHANGED <<plan, mNotifierState, mPreviewing, mPreviewMemory, mRecording, subs, msgQ, frameQ, mLock, thread, handed, encoders, client, crashed>>
    BY <1>29 DEF FlushEventQueue
  <2> QED
    BY <2>1, <2>2
<1>30. CASE PostExit
  BY <1>30 DEF PostExit
<1>31. CASE Join
  BY <1>31 DEF Join
<1>32. CASE UNCHANGED vars
  BY <1>32 DEF vars
<1> QED
  BY <1>1, <1>2, <1>3, <1>4, <1>5, <1>6, <1>7, <1>8, <1>9, <1>10, <1>11, <1>12, <1>13, <1>14, <1>15, <1>16,
     <1>17, <1>18, <1>19, <1>20, <1>21, <1>22, <1>23, <1>24, <1>25, <1>26, <1>27, <1>28, <1>29, <1>30, <1>31, <1>32
  DEF Next, NotificationThread, EncoderThread, Stopping, Application, Releases

LEMMA MessagesStep ==
  ASSUME TypeOK, Messages, [Next]_vars
  PROVE  Messages'
<1> USE QueueTypes DEF TypeOK, Messages, Free, Queues, notifier, queues, thread, encoders, client
<1>1. ASSUME NEW f \in Frames, FrameCallback(f) PROVE Messages'
  BY <1>1 DEF FrameCallback
<1>2. CASE EventCallback
  BY <1>2 DEF EventCallback
<1>3. CASE Poll
  <2>1. msgQ' = msgQ /\ hasMsg' = hasMsg /\ nt' = "flags"
    BY <1>3 DEF Poll
  <2>2. "msg" \in polled' => msgQ # <<>>
    BY <1>3 DEF Poll, Nonempty
  <2> QED
    BY <2>1, <2>2
<1>4. CASE SetMsg
  BY <1>4 DEF SetMsg
<1>5. CASE ProcessMessage
  BY <1>5 DEF ProcessMessage
<1>6. CASE GetEvent
  BY <1>6 DEF GetEvent
<1>7. CASE NotifyFocus
  BY <1>7 DEF NotifyFocus
<1>8. CASE GetFrame
  BY <1>8 DEF GetFrame
<1>9. CASE CopyFrame
  BY <1>9 DEF CopyFrame
<1>10. CASE SendCopy
  BY <1>10 DEF SendCopy
<1>11. CASE StartEncoder
  BY <1>11 DEF StartEncoder
<1>12. CASE SendVideo
  BY <1>12 DEF SendVideo
<1>13. ASSUME NEW f \in Frames, EncodeDone(f) PROVE Messages'
  BY <1>13 DEF EncodeDone
<1>14. ASSUME NEW f \in Frames, CopyPicture(f) PROVE Messages'
  BY <1>14 DEF CopyPicture
<1>15. ASSUME NEW f \in Frames, DeliverPicture(f) PROVE Messages'
  BY <1>15 DEF DeliverPicture
<1>16. ASSUME NEW f \in Frames, RemoveEncoder(f) PROVE Messages'
  BY <1>16 DEF RemoveEncoder
<1>17. CASE StartPreview
  BY <1>17 DEF StartPreview
<1>18. CASE Stop
  BY <1>18 DEF Stop
<1>19. CASE CancelEncoder
  BY <1>19 DEF CancelEncoder
<1>20. CASE RemoveItemsAt
  BY <1>20 DEF RemoveItemsAt
<1>21. CASE FlushAndReturnFrames
  BY <1>21 DEF FlushAndReturnFrames
<1>22. CASE StopPreviewCallbacks
  BY <1>22 DEF StopPreviewCallbacks
<1>23. CASE StartRecording
  BY <1>23 DEF StartRecording
<1>24. CASE StopRecording
  BY <1>24 DEF StopRecording
<1>25. CASE TakeBack
  BY <1>25 DEF TakeBack
<1>26. ASSUME NEW f \in Frames, ReleaseRecordingFrame(f) PROVE Messages'
  BY <1>26 DEF ReleaseRecordingFrame
<1>27. ASSUME NEW f \in Frames, LateRelease(f) PROVE Messages'
  BY <1>27 DEF LateRelease
<1>28. CASE AutoFocus
  BY <1>28 DEF AutoFocus
<1>29. CASE FlushEventQueue
  BY <1>29 DEF FlushEventQueue
<1>30. CASE PostExit
  <2>1. msgQ' = Append(msgQ, "exit") /\ UNCHANGED <<hasMsg, polled, nt>>
    BY <1>30 DEF PostExit
  <2>2. msgQ' # <<>>
    BY <2>1
  <2> QED
    BY <2>1, <2>2
<1>31. CASE Join
  BY <1>31 DEF Join
<1>32. CASE UNCHANGED vars
  BY <1>32 DEF vars
<1> QED
  BY <1>1, <1>2, <1>3, <1>4, <1>5, <1>6, <1>7, <1>8, <1>9, <1>10, <1>11, <1>12, <1>13, <1>14, <1>15, <1>16,
     <1>17, <1>18, <1>19, <1>20, <1>21, <1>22, <1>23, <1>24, <1>25, <1>26, <1>27, <1>28, <1>29, <1>30, <1>31, <1>32
  DEF Next, NotificationThread, EncoderThread, Stopping, Application, Releases

LEMMA PlacesStep ==
  ASSUME TypeOK, AtWork, Encoding, [Next]_vars
  PROVE  AtWork' /\ Encoding'
<1> USE Fixed DEF TypeOK, AtWork, Encoding, Free, Return, Goto, FrameTypes, notifier, queues, thread, videos, handed, encoders, client
<1>1. ASSUME NEW f \in Frames, FrameCallback(f) PROVE AtWork' /\ Encoding'
  BY <1>1 DEF FrameCallback
<1>2. CASE EventCallback
  BY <1>2 DEF EventCallback
<1>3. CASE Poll
  BY <1>3 DEF Poll
<1>4. CASE SetMsg
  BY <1>4 DEF SetMsg
<1>5. CASE ProcessMessage
  BY <1>5 DEF ProcessMessage
<1>6. CASE GetEvent
  BY <1>6 DEF GetEvent
<1>7. CASE NotifyFocus
  BY <1>7 DEF NotifyFocus
<1>8. CASE GetFrame
  <2>1. CASE ~(hasMsg["frame"] /\ frameQ # <<>>)
    BY <1>8, <2>1 DEF GetFrame
  <2>2. CASE hasMsg["frame"] /\ frameQ # <<>>
    <3>1. PICK f \in Frames : f = Head(frameQ)
      BY <2>2
    <3>2. job' = f /\ nt' = Type(f) /\ enc' = enc
      BY <1>8, <2>2, <3>1 DEF GetFrame
    <3> QED
      BY <3>1, <3>2
  <2> QED
    BY <2>1, <2>2
<1>9. CASE CopyFrame
  BY <1>9 DEF CopyFrame
<1>10. CASE SendCopy
  BY <1>10 DEF SendCopy
<1>11. CASE StartEncoder
  BY <1>11 DEF StartEncoder
<1>12. CASE SendVideo
  BY <1>12 DEF SendVideo
<1>13. ASSUME NEW f \in Frames, EncodeDone(f) PROVE AtWork' /\ Encoding'
  <2>1. AtWork'
    BY <1>13 DEF EncodeDone
  <2>2. Encoding'
    BY <1>13 DEF EncodeDone
  <2> QED
    BY <2>1, <2>2
<1>14. ASSUME NEW f \in Frames, CopyPicture(f) PROVE AtWork' /\ Encoding'
  <2>1. AtWork'
    BY <1>14 DEF CopyPicture
  <2>2. Encoding'
    BY <1>14 DEF CopyPicture
  <2> QED
    BY <2>1, <2>2
<1>15. ASSUME NEW f \in Frames, DeliverPicture(f) PROVE AtWork' /\ Encoding'
  <2>1. AtWork'
    BY <1>15 DEF DeliverPicture
  <2>2. Encoding'
    BY <1>15 DEF DeliverPicture
  <2> QED
    BY <2>1, <2>2
<1>16. ASSUME NEW f \in Frames, RemoveEncoder(f) PROVE AtWork' /\ Encoding'
  <2>1. AtWork'
    BY <1>16 DEF RemoveEncoder
  <2>2. Encoding'
    BY <1>16 DEF RemoveEncoder
  <2> QED
    BY <2>1, <2>2
<1>17. CASE StartPreview
  BY <1>17 DEF StartPreview
<1>18. CASE Stop
  BY <1>18 DEF Stop
<1>19. CASE CancelEncoder
  BY <1>19 DEF CancelEncoder
<1>20. CASE RemoveItemsAt
  BY <1>20 DEF RemoveItemsAt
<1>21. CASE FlushAndReturnFrames
  BY <1>21 DEF FlushAndReturnFrames
<1>22. CASE StopPreviewCallbacks
  BY <1>22 DEF StopPreviewCallbacks
<1>23. CASE StartRecording
  BY <1>23 DEF StartRecording
<1>24. CASE StopRecording
  BY <1>24 DEF StopRecording
<1>25. CASE TakeBack
  BY <1>25 DEF TakeBack
<1>26. ASSUME NEW f \in Frames, ReleaseRecordingFrame(f) PROVE AtWork' /\ Encoding'
  BY <1>26 DEF ReleaseRecordingFrame
<1>27. ASSUME NEW f \in Frames, LateRelease(f) PROVE AtWork' /\ Encoding'
  BY <1>27 DEF LateRelease
<1>28. CASE AutoFocus
  BY <1>28 DEF AutoFocus
<1>29. CASE FlushEventQueue
  BY <1>29 DEF FlushEventQueue
<1>30. CASE PostExit
  BY <1>30 DEF PostExit
<1>31. CASE Join
  BY <1>31 DEF Join
<1>32. CASE UNCHANGED vars
  BY <1>32 DEF vars
<1> QED
  BY <1>1, <1>2, <1>3, <1>4, <1>5, <1>6, <1>7, <1>8, <1>9, <1>10, <1>11, <1>12, <1>13, <1>14, <1>15, <1>16,
     <1>17, <1>18, <1>19, <1>20, <1>21, <1>22, <1>23, <1>24, <1>25, <1>26, <1>27, <1>28, <1>29, <1>30, <1>31, <1>32
  DEF Next, NotificationThread, EncoderThread, Stopping, Application, Releases

LEMMA NeverStoppedStep ==
  ASSUME TypeOK, Messages, NeverStopped, [Next]_vars
  PROVE  NeverStopped'
<1> USE Fixed DEF TypeOK, Messages, NeverStopped, Free, Return, Goto, Started, FrameTypes, notifier, queues, thread, videos, handed, encoders, client
<1>1. ASSUME NEW f \in Frames, FrameCallback(f) PROVE NeverStopped'
  BY <1>1 DEF FrameCallback
<1>2. CASE EventCallback
  BY <1>2 DEF EventCallback
<1>3. CASE Poll
  BY <1>3 DEF Poll
<1>4. CASE SetMsg
  BY <1>4 DEF SetMsg
<1>5. CASE ProcessMessage
  BY <1>5 DEF ProcessMessage
<1>6. CASE GetEvent
  BY <1>6 DEF GetEvent
<1>7. CASE NotifyFocus
  BY <1>7 DEF NotifyFocus
<1>8. CASE GetFrame
  BY <1>8 DEF GetFrame
<1>9. CASE CopyFrame
  BY <1>9 DEF CopyFrame
<1>10. CASE SendCopy
  BY <1>10 DEF SendCopy
<1>11. CASE StartEncoder
  BY <1>11 DEF StartEncoder
<1>12. CASE SendVideo
  BY <1>12 DEF SendVideo
<1>13. ASSUME NEW f \in Frames, EncodeDone(f) PROVE NeverStopped'
  BY <1>13 DEF EncodeDone
<1>14. ASSUME NEW f \in Frames, CopyPicture(f) PROVE NeverStopped'
  BY <1>14 DEF CopyPicture
<1>15. ASSUME NEW f \in Frames, DeliverPicture(f) PROVE NeverStopped'
  BY <1>15 DEF DeliverPicture
<1>16. ASSUME NEW f \in Frames, RemoveEncoder(f) PROVE NeverStopped'
  BY <1>16 DEF RemoveEncoder
<1>17. CASE StartPreview
  BY <1>17 DEF StartPreview
<1>18. CASE Stop
  BY <1>18 DEF Stop
<1>19. CASE CancelEncoder
  BY <1>19 DEF CancelEncoder
<1>20. CASE RemoveItemsAt
  BY <1>20 DEF RemoveItemsAt
<1>21. CASE FlushAndReturnFrames
  BY <1>21 DEF FlushAndReturnFrames
<1>22. CASE StopPreviewCallbacks
  BY <1>22 DEF StopPreviewCallbacks
<1>23. CASE StartRecording
  BY <1>23 DEF StartRecording
<1>24. CASE StopRecording
  BY <1>24 DEF StopRecording
<1>25. CASE TakeBack
  BY <1>25 DEF TakeBack
<1>26. ASSUME NEW f \in Frames, ReleaseRecordingFrame(f) PROVE NeverStopped'
  BY <1>26 DEF ReleaseRecordingFrame
<1>27. ASSUME NEW f \in Frames, LateRelease(f) PROVE NeverStopped'
  BY <1>27 DEF LateRelease
<1>28. CASE AutoFocus
  BY <1>28 DEF AutoFocus
<1>29. CASE FlushEventQueue
  BY <1>29 DEF FlushEventQueue
<1>30. CASE PostExit
  BY <1>30 DEF PostExit
<1>31. CASE Join
  BY <1>31 DEF Join
<1>32. CASE UNCHANGED vars
  BY <1>32 DEF vars
<1> QED
  BY <1>1, <1>2, <1>3, <1>4, <1>5, <1>6, <1>7, <1>8, <1>9, <1>10, <1>11, <1>12, <1>13, <1>14, <1>15, <1>16,
     <1>17, <1>18, <1>19, <1>20, <1>21, <1>22, <1>23, <1>24, <1>25, <1>26, <1>27, <1>28, <1>29, <1>30, <1>31, <1>32
  DEF Next, NotificationThread, EncoderThread, Stopping, Application, Releases

LEMMA RecordingsStep ==
  ASSUME TypeOK, AtWork, Recordings, [Next]_vars
  PROVE  Recordings'
<1> USE Fixed DEF TypeOK, Recordings, Recorded, Free, Return, FrameTypes, notifier, queues, thread, videos, handed, encoders, client
<1>1. ASSUME NEW f \in Frames, FrameCallback(f) PROVE Recordings'
  <2>1. UNCHANGED <<plan, held, late, mRecording, recordings, subs, app>> /\ out' = out \cup {f} /\ Type(f) \in subs
    BY <1>1 DEF FrameCallback
  <2> QED
    BY <2>1
<1>2. CASE EventCallback
  <2>1. UNCHANGED <<plan, out, held, late, mRecording, recordings>>
    BY <1>2 DEF EventCallback
  <2>2. "VIDEO" \in subs' => "VIDEO" \in subs
    BY <1>2 DEF EventCallback
  <2>3. app' = "recorded" <=> app = "recorded"
    BY <1>2 DEF EventCallback
  <2> QED
    BY <2>1, <2>2, <2>3
<1>3. CASE Poll
  <2>1. UNCHANGED <<plan, out, held, late, mRecording, recordings>>
    BY <1>3 DEF Poll
  <2>2. "VIDEO" \in subs' => "VIDEO" \in subs
    BY <1>3 DEF Poll
  <2>3. app' = "recorded" <=> app = "recorded"
    BY <1>3 DEF Poll
  <2> QED
    BY <2>1, <2>2, <2>3
<1>4. CASE SetMsg
  <2>1. UNCHANGED <<plan, out, held, late, mRecording, recordings>>
    BY <1>4 DEF SetMsg
  <2>2. "VIDEO" \in subs' => "VIDEO" \in subs
    BY <1>4 DEF SetMsg
  <2>3. app' = "recorded" <=> app = "recorded"
    BY <1>4 DEF SetMsg
  <2> QED
    BY <2>1, <2>2, <2>3
<1>5. CASE ProcessMessage
  <2>1. UNCHANGED <<plan, out, held, late, mRecording, recordings>>
    BY <1>5 DEF ProcessMessage
  <2>2. "VIDEO" \in subs' => "VIDEO" \in subs
    BY <1>5 DEF ProcessMessage
  <2>3. app' = "recorded" <=> app = "recorded"
    BY <1>5 DEF ProcessMessage
  <2> QED
    BY <2>1, <2>2, <2>3
<1>6. CASE GetEvent
  <2>1. UNCHANGED <<plan, out, held, late, mRecording, recordings>>
    BY <1>6 DEF GetEvent
  <2>2. "VIDEO" \in subs' => "VIDEO" \in subs
    BY <1>6 DEF GetEvent
  <2>3. app' = "recorded" <=> app = "recorded"
    BY <1>6 DEF GetEvent
  <2> QED
    BY <2>1, <2>2, <2>3
<1>7. CASE NotifyFocus
  <2>1. UNCHANGED <<plan, out, held, late, mRecording, recordings>>
    BY <1>7 DEF NotifyFocus
  <2>2. "VIDEO" \in subs' => "VIDEO" \in subs
    BY <1>7 DEF NotifyFocus
  <2>3. app' = "recorded" <=> app = "recorded"
    BY <1>7 DEF NotifyFocus
  <2> QED
    BY <2>1, <2>2, <2>3
<1>8. CASE GetFrame
  <2>1. UNCHANGED <<plan, out, held, late, mRecording, recordings>>
    BY <1>8 DEF GetFrame
  <2>2. "VIDEO" \in subs' => "VIDEO" \in subs
    BY <1>8 DEF GetFrame
  <2>3. app' = "recorded" <=> app = "recorded"
    BY <1>8 DEF GetFrame
  <2> QED
    BY <2>1, <2>2, <2>3
<1>9. CASE CopyFrame
  <2>1. UNCHANGED <<plan, held, late, mRecording, recordings, subs>> /\ out' \subseteq out
    BY <1>9 DEF CopyFrame
  <2>2. app' = "recorded" <=> app = "recorded"
    BY <1>9 DEF CopyFrame
  <2> QED
    BY <2>1, <2>2
<1>10. CASE SendCopy
  <2>1. UNCHANGED <<plan, out, held, late, mRecording, recordings>>
    BY <1>10 DEF SendCopy
  <2>2. "VIDEO" \in subs' => "VIDEO" \in subs
    BY <1>10 DEF SendCopy
  <2>3. app' = "recorded" <=> app = "recorded"
    BY <1>10 DEF SendCopy
  <2> QED
    BY <2>1, <2>2, <2>3
<1>11. CASE StartEncoder
  <2>1. UNCHANGED <<plan, out, held, late, mRecording, recordings>>
    BY <1>11 DEF StartEncoder
  <2>2. "VIDEO" \in subs' => "VIDEO" \in subs
    BY <1>11 DEF StartEncoder
  <2>3. app' = "recorded" <=> app = "recorded"
    BY <1>11 DEF StartEncoder
  <2> QED
    BY <2>1, <2>2, <2>3
<1>12. CASE SendVideo
  <2>1. UNCHANGED <<plan, out, late, mRecording, recordings, subs, app>> /\ Type(job) = "VIDEO" /\ job \in Frames
    BY <1>12 DEF SendVideo, AtWork
  <2>2. \A g \in Frames : g # job => held'[g] = held[g]
    BY <1>12 DEF SendVideo
  <2> QED
    BY <2>1, <2>2
<1>13. ASSUME NEW f \in Frames, EncodeDone(f) PROVE Recordings'
  <2>1. UNCHANGED <<plan, out, held, late, mRecording, recordings>>
    BY <1>13 DEF EncodeDone
  <2>2. "VIDEO" \in subs' => "VIDEO" \in subs
    BY <1>13 DEF EncodeDone
  <2>3. app' = "recorded" <=> app = "recorded"
    BY <1>13 DEF EncodeDone
  <2> QED
    BY <2>1, <2>2, <2>3
<1>14. ASSUME NEW f \in Frames, CopyPicture(f) PROVE Recordings'
  <2>1. UNCHANGED <<plan, out, held, late, mRecording, recordings>>
    BY <1>14 DEF CopyPicture
  <2>2. "VIDEO" \in subs' => "VIDEO" \in subs
    BY <1>14 DEF CopyPicture
  <2>3. app' = "recorded" <=> app = "recorded"
    BY <1>14 DEF CopyPicture
  <2> QED
    BY <2>1, <2>2, <2>3
<1>15. ASSUME NEW f \in Frames, DeliverPicture(f) PROVE Recordings'
  <2>1. UNCHANGED <<plan, out, held, late, mRecording, recordings>>
    BY <1>15 DEF DeliverPicture
  <2>2. "VIDEO" \in subs' => "VIDEO" \in subs
    BY <1>15 DEF DeliverPicture
  <2>3. app' = "recorded" <=> app = "recorded"
    BY <1>15 DEF DeliverPicture
  <2> QED
    BY <2>1, <2>2, <2>3
<1>16. ASSUME NEW f \in Frames, RemoveEncoder(f) PROVE Recordings'
  <2>1. UNCHANGED <<plan, held, late, mRecording, recordings, subs>> /\ out' \subseteq out
    BY <1>16 DEF RemoveEncoder
  <2>2. app' = "recorded" <=> app = "recorded"
    BY <1>16 DEF RemoveEncoder
  <2> QED
    BY <2>1, <2>2
<1>17. CASE StartPreview
  <2>1. UNCHANGED <<plan, out, held, late, mRecording, recordings>>
    BY <1>17 DEF StartPreview
  <2>2. "VIDEO" \in subs' => "VIDEO" \in subs
    BY <1>17 DEF StartPreview
  <2>3. app' = "recorded" <=> app = "recorded"
    BY <1>17 DEF StartPreview
  <2> QED
    BY <2>1, <2>2, <2>3
<1>18. CASE Stop
  <2>1. UNCHANGED <<plan, out, held, late, mRecording, recordings>>
    BY <1>18 DEF Stop
  <2>2. "VIDEO" \in subs' => "VIDEO" \in subs
    BY <1>18 DEF Stop
  <2>3. app' = "recorded" <=> app = "recorded"
    BY <1>18 DEF Stop
  <2> QED
    BY <2>1, <2>2, <2>3
<1>19. CASE CancelEncoder
  <2>1. UNCHANGED <<plan, out, held, late, mRecording, recordings>>
    BY <1>19 DEF CancelEncoder
  <2>2. "VIDEO" \in subs' => "VIDEO" \in subs
    BY <1>19 DEF CancelEncoder
  <2>3. app' = "recorded" <=> app = "recorded"
    BY <1>19 DEF CancelEncoder
  <2> QED
    BY <2>1, <2>2, <2>3
<1>20. CASE RemoveItemsAt
  <2>1. UNCHANGED <<plan, out, held, late, mRecording, recordings>>
    BY <1>20 DEF RemoveItemsAt
  <2>2. "VIDEO" \in subs' => "VIDEO" \in subs
    BY <1>20 DEF RemoveItemsAt
  <2>3. app' = "recorded" <=> app = "recorded"
    BY <1>20 DEF RemoveItemsAt
  <2> QED
    BY <2>1, <2>2, <2>3
<1>21. CASE FlushAndReturnFrames
  <2>1. UNCHANGED <<plan, held, late, mRecording, recordings, subs>> /\ out' \subseteq out
    BY <1>21 DEF FlushAndReturnFrames
  <2>2. app' = "recorded" <=> app = "recorded"
    BY <1>21 DEF FlushAndReturnFrames
  <2> QED
    BY <2>1, <2>2
<1>22. CASE StopPreviewCallbacks
  <2>1. UNCHANGED <<plan, out, held, late, mRecording, recordings>>
    BY <1>22 DEF StopPreviewCallbacks
  <2>2. "VIDEO" \in subs' => "VIDEO" \in subs
    BY <1>22 DEF StopPreviewCallbacks
  <2>3. app' = "recorded" <=> app = "recorded"
    BY <1>22 DEF StopPreviewCallbacks
  <2> QED
    BY <2>1, <2>2, <2>3
<1>23. CASE StartRecording
  <2>1. UNCHANGED <<plan, out, held, late, app>> /\ app = "idle" /\ mRecording' = TRUE /\ ~mRecording /\ recordings' = recordings + 1
    BY <1>23 DEF StartRecording
  <2>2. Recorded => Recorded'
    BY <2>1
  <2> QED
    BY <2>1, <2>2
<1>24. CASE StopRecording
  <2>1. UNCHANGED <<plan, out, recordings>> /\ mRecording /\ mRecording' = FALSE /\ app' = "recorded" /\ subs' = subs \ {"VIDEO"}
    BY <1>24 DEF StopRecording
  <2>2. Recorded'
    BY <2>1
  <2>3. ASSUME NEW f \in Frames PROVE held'[f] = 0 /\ (late'[f] > 0 => Type(f) = "VIDEO")
    <3>1. held'[f] = 0 /\ late'[f] = late[f] + held[f]
      BY <1>24 DEF StopRecording
    <3> QED
      BY <3>1
  <2> QED
    BY <2>1, <2>2, <2>3
<1>25. CASE TakeBack
  <2>1. UNCHANGED <<plan, held, late, mRecording, recordings, subs>> /\ app' = "idle" /\ out' = {f \in out : Type(f) # "VIDEO"}
    BY <1>25 DEF TakeBack
  <2> QED
    BY <2>1
<1>26. ASSUME NEW f \in Frames, ReleaseRecordingFrame(f) PROVE Recordings'
  <2>1. UNCHANGED <<plan, late, mRecording, recordings, subs, app>> /\ out' \subseteq out /\ held[f] > 0
    BY <1>26 DEF ReleaseRecordingFrame
  <2>2. \A g \in Frames : g # f => held'[g] = held[g]
    BY <1>26 DEF ReleaseRecordingFrame
  <2> QED
    BY <2>1, <2>2
<1>27. ASSUME NEW f \in Frames, LateRelease(f) PROVE Recordings'
  <2>1. UNCHANGED <<plan, held, mRecording, recordings, subs, app>> /\ out' \subseteq out /\ late[f] > 0
    BY <1>27 DEF LateRelease
  <2>2. \A g \in Frames : g # f => late'[g] = late[g]
    BY <1>27 DEF LateRelease
  <2> QED
    BY <2>1, <2>2
<1>28. CASE AutoFocus
  <2>1. UNCHANGED <<plan, out, held, late, mRecording, recordings>>
    BY <1>28 DEF AutoFocus
  <2>2. "VIDEO" \in subs' => "VIDEO" \in subs
    BY <1>28 DEF AutoFocus
  <2>3. app' = "recorded" <=> app = "recorded"
    BY <1>28 DEF AutoFocus
  <2> QED
    BY <2>1, <2>2, <2>3
<1>29. CASE FlushEventQueue
  <2>1. UNCHANGED <<plan, out, held, late, mRecording, recordings>>
    BY <1>29 DEF FlushEventQueue
  <2>2. "VIDEO" \in subs' => "VIDEO" \in subs
    BY <1>29 DEF FlushEventQueue
  <2>3. app' = "recorded" <=> app = "recorded"
    BY <1>29 DEF FlushEventQueue
  <2> QED
    BY <2>1, <2>2, <2>3
<1>30. CASE PostExit
  <2>1. UNCHANGED <<plan, out, held, late, mRecording, recordings>>
    BY <1>30 DEF PostExit
  <2>2. "VIDEO" \in subs' => "VIDEO" \in subs
    BY <1>30 DEF PostExit
  <2>3. app' = "recorded" <=> app = "recorded"
    BY <1>30 DEF PostExit
  <2> QED
    BY <2>1, <2>2, <2>3
<1>31. CASE Join
  <2>1. UNCHANGED <<plan, out, held, late, mRecording, recordings>>
    BY <1>31 DEF Join
  <2>2. "VIDEO" \in subs' => "VIDEO" \in subs
    BY <1>31 DEF Join
  <2>3. app' = "recorded" <=> app = "recorded"
    BY <1>31 DEF Join
  <2> QED
    BY <2>1, <2>2, <2>3
<1>32. CASE UNCHANGED vars
  BY <1>32 DEF vars
<1> QED
  BY <1>1, <1>2, <1>3, <1>4, <1>5, <1>6, <1>7, <1>8, <1>9, <1>10, <1>11, <1>12, <1>13, <1>14, <1>15, <1>16,
     <1>17, <1>18, <1>19, <1>20, <1>21, <1>22, <1>23, <1>24, <1>25, <1>26, <1>27, <1>28, <1>29, <1>30, <1>31, <1>32
  DEF Next, NotificationThread, EncoderThread, Stopping, Application, Releases

(* What does not touch the places of a frame leaves it where it is.          *)
LEMMA Undisturbed ==
  ASSUME NEW f \in Frames, Kept(f), Alone(f), plan' = plan, frameQ' = frameQ, InHand(f)' = InHand(f), enc'[f] = enc[f],
         held'[f] = held[f], out' = out, Recorded => Recorded', app = "recorded" => app' = "recorded"
  PROVE  Kept(f)' /\ Alone(f)'
<1>1. InQueue(f)' = InQueue(f) /\ Somewhere(f)' = Somewhere(f) /\ AtOnePlace(f)' = AtOnePlace(f) /\ Type(f)' = Type(f)
  BY DEF InQueue, Somewhere, AtOnePlace, Type
<1> QED
  BY <1>1 DEF Kept, Alone

LEMMA LostStep ==
  ASSUME TypeOK, Encoding, AtWork, NeverStopped, Recordings, NoFrameLost, [Next]_vars
  PROVE  \A g \in Frames : Kept(g)' /\ Alone(g)'
<1> TAKE g \in Frames
<1> USE Fixed DEF TypeOK, AtWork, Free, Return, Goto, FrameTypes, notifier, queues, thread, videos, handed, encoders, client
<1>1. Kept(g) /\ Alone(g)
  BY DEF NoFrameLost, Kept, Alone
<1>2. AtOnePlace(g) <=> /\ Once(frameQ, g) /\ (InQueue(g) => ~InHand(g) /\ enc[g] = "none" /\ held[g] = 0)
                        /\ (InHand(g) => enc[g] = "none" /\ held[g] = 0) /\ (enc[g] # "none" => held[g] = 0) /\ held[g] <= 1
  BY DEF AtOnePlace, Once
<1>3. AtOnePlace(g)' <=> /\ Once(frameQ', g) /\ (InQueue(g)' => ~InHand(g)' /\ enc'[g] = "none" /\ held'[g] = 0)
                         /\ (InHand(g)' => enc'[g] = "none" /\ held'[g] = 0) /\ (enc'[g] # "none" => held'[g] = 0) /\ held'[g] <= 1
  BY DEF AtOnePlace, Once
<1>4. ASSUME NEW f \in Frames, FrameCallback(f) PROVE Kept(g)' /\ Alone(g)'
  <2>1. plan' = plan /\ enc' = enc /\ held' = held /\ out' = out \cup {f} /\ f \notin out /\ Recorded' = Recorded /\ app' = app
        /\ InHand(g)' = InHand(g) /\ frameQ' = Append(frameQ, f)
    BY <1>4 DEF FrameCallback, Recorded, InHand
  <2>a. (In(frameQ, g) <=> InQueue(g)) /\ (In(frameQ', g) <=> InQueue(g)')
    BY DEF In, InQueue
  <2>2. InQueue(g)' <=> InQueue(g) \/ g = f
    BY <2>1, <2>a, Appended
  <2>3. Once(frameQ, g) /\ (f = g => ~InQueue(g)) => Once(frameQ', g)
    BY <2>1, <2>a, Appended
  <2> QED
    BY <2>1, <2>2, <2>3, <1>1, <1>2, <1>3 DEF Kept, Alone, Somewhere
<1>5. CASE EventCallback
  <2>1. plan' = plan /\ frameQ' = frameQ /\ enc'[g] = enc[g] /\ held'[g] = held[g] /\ out' = out
    BY <1>5 DEF EventCallback
  <2>2. InHand(g)' = InHand(g)
    BY <1>5 DEF EventCallback, InHand
  <2>3. (Recorded => Recorded') /\ (app = "recorded" => app' = "recorded")
    BY <1>5 DEF EventCallback, Recorded
  <2> QED
    BY <2>1, <2>2, <2>3, <1>1, Undisturbed
<1>6. CASE Poll
  <2>1. plan' = plan /\ frameQ' = frameQ /\ enc'[g] = enc[g] /\ held'[g] = held[g] /\ out' = out
    BY <1>6 DEF Poll
  <2>2. InHand(g)' = InHand(g)
    BY <1>6 DEF Poll, InHand
  <2>3. (Recorded => Recorded') /\ (app = "recorded" => app' = "recorded")
    BY <1>6 DEF Poll, Recorded
  <2> QED
    BY <2>1, <2>2, <2>3, <1>1, Undisturbed
<1>7. CASE SetMsg
  <2>1. plan' = plan /\ frameQ' = frameQ /\ enc'[g] = enc[g] /\ held'[g] = held[g] /\ out' = out
    BY <1>7 DEF SetMsg
  <2>2. InHand(g)' = InHand(g)
    BY <1>7 DEF SetMsg, InHand
  <2>3. (Recorded => Recorded') /\ (app = "recorded" => app' = "recorded")
    BY <1>7 DEF SetMsg, Recorded
  <2> QED
    BY <2>1, <2>2, <2>3, <1>1, Undisturbed
<1>8. CASE ProcessMessage
  <2>1. plan' = plan /\ frameQ' = frameQ /\ enc'[g] = enc[g] /\ held'[g] = held[g] /\ out' = out
    BY <1>8 DEF ProcessMessage
  <2>2. InHand(g)' = InHand(g)
    BY <1>8 DEF ProcessMessage, InHand
  <2>3. (Recorded => Recorded') /\ (app = "recorded" => app' = "recorded")
    BY <1>8 DEF ProcessMessage, Recorded
  <2> QED
    BY <2>1, <2>2, <2>3, <1>1, Undisturbed
<1>9. CASE GetEvent
  <2>1. plan' = plan /\ frameQ' = frameQ /\ enc'[g] = enc[g] /\ held'[g] = held[g] /\ out' = out
    BY <1>9 DEF GetEvent
  <2>2. InHand(g)' = InHand(g)
    BY <1>9 DEF GetEvent, InHand
  <2>3. (Recorded => Recorded') /\ (app = "recorded" => app' = "recorded")
    BY <1>9 DEF GetEvent, Recorded
  <2> QED
    BY <2>1, <2>2, <2>3, <1>1, Undisturbed
<1>10. CASE NotifyFocus
  <2>1. plan' = plan /\ frameQ' = frameQ /\ enc'[g] = enc[g] /\ held'[g] = held[g] /\ out' = out
    BY <1>10 DEF NotifyFocus
  <2>2. InHand(g)' = InHand(g)
    BY <1>10 DEF NotifyFocus, InHand
  <2>3. (Recorded => Recorded') /\ (app = "recorded" => app' = "recorded")
    BY <1>10 DEF NotifyFocus, Recorded
  <2> QED
    BY <2>1, <2>2, <2>3, <1>1, Undisturbed
<1>11. CASE GetFrame
  <2>1. CASE ~(hasMsg["frame"] /\ frameQ # <<>>)
    <3>1. plan' = plan /\ frameQ' = frameQ /\ enc'[g] = enc[g] /\ held'[g] = held[g] /\ out' = out
      BY <1>11, <2>1 DEF GetFrame
    <3>2. InHand(g)' = InHand(g)
      BY <1>11, <2>1 DEF GetFrame, InHand
    <3>3. (Recorded => Recorded') /\ (app = "recorded" => app' = "recorded")
      BY <1>11 DEF GetFrame, Recorded
    <3> QED
      BY <3>1, <3>2, <3>3, <1>1, Undisturbed
  <2>2. CASE hasMsg["frame"] /\ frameQ # <<>>
    <3>a. Head(frameQ) \in Frames
      BY <2>2, QueueTypes
    <3>b. frameQ' = Tail(frameQ) /\ job' = Head(frameQ) /\ nt = "frame" /\ nt' = Type(Head(frameQ))
      BY <1>11, <2>2 DEF GetFrame
    <3>1. plan' = plan /\ enc' = enc /\ held' = held /\ out' = out /\ Recorded' = Recorded /\ app' = app
      BY <1>11, <2>2 DEF GetFrame, Recorded
    <3>c. (In(frameQ, g) <=> InQueue(g)) /\ (In(frameQ', g) <=> InQueue(g)')
      BY DEF In, InQueue
    <3>2. InHand(g)' <=> g = Head(frameQ)
      BY <3>a, <3>b DEF InHand
    <3>3. ~InHand(g)
      BY <3>a, <3>b DEF InHand
    <3>4. InQueue(g) <=> InQueue(g)' \/ g = Head(frameQ)
      BY <2>2, <3>b, <3>c, Beheaded
    <3>5. Once(frameQ, g) => Once(frameQ', g) /\ (g = Head(frameQ) => ~InQueue(g)')
      BY <2>2, <3>b, <3>c, Beheaded
    <3> QED
      BY <3>1, <3>2, <3>3, <3>4, <3>5, <1>1, <1>2, <1>3 DEF Kept, Alone, Somewhere
  <2> QED
    BY <2>1, <2>2
<1>12. CASE CopyFrame
  <2>1. plan' = plan /\ frameQ' = frameQ /\ enc' = enc /\ held' = held /\ out' = out \ {job} /\ Recorded' = Recorded /\ app' = app
    BY <1>12 DEF CopyFrame, Recorded
  <2>2. (InHand(g) <=> g = job) /\ ~InHand(g)'
    BY <1>12 DEF CopyFrame, InHand
  <2>3. InQueue(g)' = InQueue(g) /\ Once(frameQ', g) = Once(frameQ, g)
    BY <2>1 DEF InQueue
  <2> QED
    BY <2>1, <2>2, <2>3, <1>1, <1>2, <1>3 DEF Kept, Alone, Somewhere
<1>13. CASE SendCopy
  <2>1. plan' = plan /\ frameQ' = frameQ /\ enc'[g] = enc[g] /\ held'[g] = held[g] /\ out' = out
    BY <1>13 DEF SendCopy
  <2>2. InHand(g)' = InHand(g)
    BY <1>13 DEF SendCopy, InHand
  <2>3. (Recorded => Recorded') /\ (app = "recorded" => app' = "recorded")
    BY <1>13 DEF SendCopy, Recorded
  <2> QED
    BY <2>1, <2>2, <2>3, <1>1, Undisturbed
<1>14. CASE StartEncoder
  <2>1. plan' = plan /\ frameQ' = frameQ /\ held' = held /\ out' = out /\ Recorded' = Recorded /\ app' = app
        /\ enc' = [enc EXCEPT ![job] = "encoding"]
    BY <1>14 DEF StartEncoder, Recorded
  <2>2. (InHand(g) <=> g = job) /\ ~InHand(g)'
    BY <1>14 DEF StartEncoder, InHand
  <2>3. InQueue(g)' = InQueue(g) /\ Once(frameQ', g) = Once(frameQ, g)
    BY <2>1 DEF InQueue
  <2> QED
    BY <2>1, <2>2, <2>3, <1>1, <1>2, <1>3 DEF Kept, Alone, Somewhere
<1>15. CASE SendVideo
  <2>1. plan' = plan /\ frameQ' = frameQ /\ enc' = enc /\ out' = out /\ Recorded' = Recorded /\ app' = app
        /\ held' = (IF mRecording THEN [held EXCEPT ![job] = held[job] + 1] ELSE held) /\ job \in Frames /\ Type(job) = "VIDEO"
    BY <1>15 DEF SendVideo, Recorded
  <2>2. (InHand(g) <=> g = job) /\ ~InHand(g)'
    BY <1>15 DEF SendVideo, InHand
  <2>3. InQueue(g)' = InQueue(g) /\ Once(frameQ', g) = Once(frameQ, g)
    BY <2>1 DEF InQueue
  <2>4. CASE g # job
    <3>1. held'[g] = held[g]
      BY <2>1, <2>4
    <3> QED
      BY <2>1, <2>2, <2>3, <2>4, <3>1, <1>1, <1>2, <1>3 DEF Kept, Alone, Somewhere
  <2>5. CASE g = job /\ mRecording
    <3>1. held'[g] = held[g] + 1
      BY <2>1, <2>5
    <3> QED
      BY <2>1, <2>2, <2>3, <2>5, <3>1, <1>1, <1>2, <1>3 DEF Kept, Alone, Somewhere
  <2>6. CASE g = job /\ ~mRecording
    <3>1. held'[g] = held[g]
      BY <2>1, <2>6
    <3>2. g \in out => app = "recorded"
      BY <2>1, <2>6 DEF Recordings
    <3>3. ~Recorded => app # "recorded"
      BY DEF Recordings
    <3> QED
      BY <2>1, <2>2, <2>3, <2>6, <3>1, <3>2, <3>3, <1>1, <1>2, <1>3 DEF Kept, Alone, Somewhere
  <2> QED
    BY <2>4, <2>5, <2>6
<1>16. ASSUME NEW f \in Frames, EncodeDone(f) PROVE Kept(g)' /\ Alone(g)'
  <2>1. plan' = plan /\ frameQ' = frameQ /\ held' = held /\ out' = out /\ Recorded' = Recorded /\ app' = app
        /\ enc[f] # "none" /\ enc' = [enc EXCEPT ![f] = IF f \in canceled THEN "none" ELSE "picture"]
    BY <1>16 DEF EncodeDone, Recorded
  <2>2. InHand(g)' = InHand(g)
    BY <1>16 DEF EncodeDone, InHand
  <2>3. InQueue(g)' = InQueue(g) /\ Once(frameQ', g) = Once(frameQ, g)
    BY <2>1 DEF InQueue
  <2>4. f \in canceled => plan.stops
    BY DEF NeverStopped
  <2>5. Type(f) = "YUV"
    BY <2>1 DEF Encoding
  <2>6. CASE g # f
    <3>1. enc'[g] = enc[g]
      BY <2>1, <2>6
    <3>2. Kept(g)' /\ Alone(g)'
      BY <2>1, <2>2, <2>3, <3>1, <1>1, <1>2, <1>3 DEF Kept, Alone, Somewhere
    <3> QED
      BY <3>2, <1>1, <1>2, <1>3 DEF Kept, Alone, Somewhere
  <2>7. CASE g = f
    <3>1. enc'[g] # "none" \/ (g \in out => plan.stops)
      BY <2>1, <2>4, <2>7
    <3>2. Kept(g)'
      BY <2>1, <2>2, <2>3, <2>5, <2>7, <3>1, <1>1, <1>2, <1>3 DEF Kept, Alone, Somewhere
    <3>3. Alone(g)'
      BY <2>1, <2>2, <2>3, <2>7, <1>1, <1>2, <1>3 DEF Kept, Alone, Somewhere
    <3> QED
      BY <3>2, <3>3, <1>1, <1>2, <1>3 DEF Kept, Alone, Somewhere
  <2> QED
    BY <2>6, <2>7
<1>17. ASSUME NEW f \in Frames, CopyPicture(f) PROVE Kept(g)' /\ Alone(g)'
  <2>1. plan' = plan /\ frameQ' = frameQ /\ held' = held /\ out' = out /\ enc[f] = "picture" /\ enc' = [enc EXCEPT ![f] = "deliver"] /\ Recorded' = Recorded /\ app' = app
    BY <1>17 DEF CopyPicture, Recorded
  <2>2. InHand(g)' = InHand(g)
    BY <1>17 DEF CopyPicture, InHand
  <2>3. InQueue(g)' = InQueue(g) /\ Once(frameQ', g) = Once(frameQ, g)
    BY <2>1 DEF InQueue
  <2> QED
    BY <2>1, <2>2, <2>3, <1>1, <1>2, <1>3 DEF Kept, Alone, Somewhere
<1>18. ASSUME NEW f \in Frames, DeliverPicture(f) PROVE Kept(g)' /\ Alone(g)'
  <2>1. plan' = plan /\ frameQ' = frameQ /\ held' = held /\ out' = out /\ Recorded' = Recorded /\ app' = app
        /\ enc[f] # "none" /\ enc' = [enc EXCEPT ![f] = IF Started THEN "exit" ELSE "none"]
    BY <1>18 DEF DeliverPicture, Recorded
  <2>2. InHand(g)' = InHand(g)
    BY <1>18 DEF DeliverPicture, InHand
  <2>3. InQueue(g)' = InQueue(g) /\ Once(frameQ', g) = Once(frameQ, g)
    BY <2>1 DEF InQueue
  <2>4. ~Started /\ f \in out => plan.stops
    BY DEF NeverStopped
  <2>5. Type(f) = "YUV"
    BY <2>1 DEF Encoding
  <2>6. CASE g # f
    <3>1. enc'[g] = enc[g]
      BY <2>1, <2>6
    <3>2. Kept(g)' /\ Alone(g)'
      BY <2>1, <2>2, <2>3, <3>1, <1>1, <1>2, <1>3 DEF Kept, Alone, Somewhere
    <3> QED
      BY <3>2, <1>1, <1>2, <1>3 DEF Kept, Alone, Somewhere
  <2>7. CASE g = f
    <3>1. enc'[g] # "none" \/ (g \in out => plan.stops)
      BY <2>1, <2>4, <2>7
    <3>2. Kept(g)'
      BY <2>1, <2>2, <2>3, <2>5, <2>7, <3>1, <1>1, <1>2, <1>3 DEF Kept, Alone, Somewhere
    <3>3. Alone(g)'
      BY <2>1, <2>2, <2>3, <2>7, <1>1, <1>2, <1>3 DEF Kept, Alone, Somewhere
    <3> QED
      BY <3>2, <3>3, <1>1, <1>2, <1>3 DEF Kept, Alone, Somewhere
  <2> QED
    BY <2>6, <2>7
<1>19. ASSUME NEW f \in Frames, RemoveEncoder(f) PROVE Kept(g)' /\ Alone(g)'
  <2>1. plan' = plan /\ frameQ' = frameQ /\ held' = held /\ out' = out \ {f} /\ Recorded' = Recorded /\ app' = app
        /\ enc[f] # "none" /\ enc' = [enc EXCEPT ![f] = "none"]
    BY <1>19 DEF RemoveEncoder, Recorded
  <2>2. InHand(g)' = InHand(g)
    BY <1>19 DEF RemoveEncoder, InHand
  <2>3. InQueue(g)' = InQueue(g) /\ Once(frameQ', g) = Once(frameQ, g)
    BY <2>1 DEF InQueue
  <2>4. Type(f) # "VIDEO"
    BY <2>1 DEF Encoding
  <2>5. CASE g # f
    <3>1. enc'[g] = enc[g] /\ (g \in out' <=> g \in out)
      BY <2>1, <2>5
    <3> QED
      BY <2>1, <2>2, <2>3, <3>1, <1>1, <1>2, <1>3 DEF Kept, Alone, Somewhere
  <2>6. CASE g = f
    <3>1. enc'[g] = "none" /\ g \notin out'
      BY <2>1, <2>6
    <3> QED
      BY <2>1, <2>2, <2>3, <2>4, <2>6, <3>1, <1>1, <1>2, <1>3 DEF Kept, Alone, Somewhere
  <2> QED
    BY <2>5, <2>6
<1>20. CASE StartPreview
  <2>1. plan' = plan /\ frameQ' = frameQ /\ enc'[g] = enc[g] /\ held'[g] = held[g] /\ out' = out
    BY <1>20 DEF StartPreview
  <2>2. InHand(g)' = InHand(g)
    BY <1>20 DEF StartPreview, InHand
  <2>3. (Recorded => Recorded') /\ (app = "recorded" => app' = "recorded")
    BY <1>20 DEF StartPreview, Recorded
  <2> QED
    BY <2>1, <2>2, <2>3, <1>1, Undisturbed
<1>21. CASE Stop
  <2>1. plan' = plan /\ frameQ' = frameQ /\ enc'[g] = enc[g] /\ held'[g] = held[g] /\ out' = out
    BY <1>21 DEF Stop
  <2>2. InHand(g)' = InHand(g)
    BY <1>21 DEF Stop, InHand
  <2>3. (Recorded => Recorded') /\ (app = "recorded" => app' = "recorded")
    BY <1>21 DEF Stop, Recorded
  <2> QED
    BY <2>1, <2>2, <2>3, <1>1, Undisturbed
<1>22. CASE CancelEncoder
  <2>1. plan' = plan /\ frameQ' = frameQ /\ enc'[g] = enc[g] /\ held'[g] = held[g] /\ out' = out
    BY <1>22 DEF CancelEncoder
  <2>2. InHand(g)' = InHand(g)
    BY <1>22 DEF CancelEncoder, InHand
  <2>3. (Recorded => Recorded') /\ (app = "recorded" => app' = "recorded")
    BY <1>22 DEF CancelEncoder, Recorded
  <2> QED
    BY <2>1, <2>2, <2>3, <1>1, Undisturbed
<1>23. CASE RemoveItemsAt
  <2>1. plan' = plan /\ frameQ' = frameQ /\ enc'[g] = enc[g] /\ held'[g] = held[g] /\ out' = out
    BY <1>23 DEF RemoveItemsAt
  <2>2. InHand(g)' = InHand(g)
    BY <1>23 DEF RemoveItemsAt, InHand
  <2>3. (Recorded => Recorded') /\ (app = "recorded" => app' = "recorded")
    BY <1>23 DEF RemoveItemsAt, Recorded
  <2> QED
    BY <2>1, <2>2, <2>3, <1>1, Undisturbed
<1>24. CASE FlushAndReturnFrames
  <2>1. plan' = plan /\ enc' = enc /\ held' = held /\ frameQ' = <<>> /\ out' = out \ Range(frameQ) /\ Recorded' = Recorded
        /\ app = "flush" /\ InHand(g)' = InHand(g)
    BY <1>24 DEF FlushAndReturnFrames, Recorded, InHand
  <2>2. ~InQueue(g)' /\ Once(frameQ', g)
    BY <2>1 DEF InQueue, Once
  <2>3. g \in out' <=> g \in out /\ ~InQueue(g)
    BY <2>1 DEF InQueue, Range
  <2> QED
    BY <2>1, <2>2, <2>3, <1>1, <1>2, <1>3 DEF Kept, Alone, Somewhere
<1>25. CASE StopPreviewCallbacks
  <2>1. plan' = plan /\ frameQ' = frameQ /\ enc'[g] = enc[g] /\ held'[g] = held[g] /\ out' = out
    BY <1>25 DEF StopPreviewCallbacks
  <2>2. InHand(g)' = InHand(g)
    BY <1>25 DEF StopPreviewCallbacks, InHand
  <2>3. (Recorded => Recorded') /\ (app = "recorded" => app' = "recorded")
    BY <1>25 DEF StopPreviewCallbacks, Recorded
  <2> QED
    BY <2>1, <2>2, <2>3, <1>1, Undisturbed
<1>26. CASE StartRecording
  <2>1. plan' = plan /\ frameQ' = frameQ /\ enc'[g] = enc[g] /\ held'[g] = held[g] /\ out' = out
    BY <1>26 DEF StartRecording
  <2>2. InHand(g)' = InHand(g)
    BY <1>26 DEF StartRecording, InHand
  <2>3. (Recorded => Recorded') /\ (app = "recorded" => app' = "recorded")
    BY <1>26 DEF StartRecording, Recorded
  <2> QED
    BY <2>1, <2>2, <2>3, <1>1, Undisturbed
<1>27. CASE StopRecording
  <2>1. plan' = plan /\ frameQ' = frameQ /\ enc' = enc /\ out' = out /\ mRecording /\ mRecording' = FALSE
        /\ recordings' = recordings /\ app' = "recorded" /\ app = "idle" /\ InHand(g)' = InHand(g) /\ held'[g] = 0
    BY <1>27 DEF StopRecording, InHand
  <2>2. InQueue(g)' = InQueue(g) /\ Once(frameQ', g) = Once(frameQ, g)
    BY <2>1 DEF InQueue
  <2>3. Recorded'
    BY <2>1 DEF Recordings, Recorded
  <2>4. Type(g) # "VIDEO" => held[g] = 0
    BY DEF Recordings
  <2> QED
    BY <2>1, <2>2, <2>3, <2>4, <1>1, <1>2, <1>3 DEF Kept, Alone, Somewhere
<1>28. CASE TakeBack
  <2>1. plan' = plan /\ frameQ' = frameQ /\ enc' = enc /\ held' = held /\ out' = {f \in out : Type(f) # "VIDEO"}
        /\ Recorded' = Recorded /\ app = "recorded" /\ InHand(g)' = InHand(g)
    BY <1>28 DEF TakeBack, Recorded, InHand
  <2>2. InQueue(g)' = InQueue(g) /\ Once(frameQ', g) = Once(frameQ, g)
    BY <2>1 DEF InQueue
  <2>3. Recorded
    BY <2>1 DEF Recordings
  <2>4. g \in out' <=> g \in out /\ Type(g) # "VIDEO"
    BY <2>1
  <2> QED
    BY <2>1, <2>2, <2>3, <2>4, <1>1, <1>2, <1>3 DEF Kept, Alone, Somewhere
<1>29. ASSUME NEW f \in Frames, ReleaseRecordingFrame(f) PROVE Kept(g)' /\ Alone(g)'
  <2>1. plan' = plan /\ frameQ' = frameQ /\ enc' = enc /\ out' = out \ {f} /\ Recorded' = Recorded /\ app' = app
        /\ InHand(g)' = InHand(g) /\ held[f] > 0 /\ held' = [held EXCEPT ![f] = held[f] - 1]
    BY <1>29 DEF ReleaseRecordingFrame, Recorded, InHand
  <2>2. InQueue(g)' = InQueue(g) /\ Once(frameQ', g) = Once(frameQ, g)
    BY <2>1 DEF InQueue
  <2>3. CASE g # f
    <3>1. held'[g] = held[g] /\ (g \in out' <=> g \in out)
      BY <2>1, <2>3
    <3> QED
      BY <2>1, <2>2, <3>1, <1>1, <1>2, <1>3 DEF Kept, Alone, Somewhere
  <2>4. CASE g = f
    <3>1. g \notin out' /\ held'[g] = held[g] - 1
      BY <2>1, <2>4
    <3>2. Kept(g)'
      BY <3>1, <1>1, <1>2, <1>3 DEF Kept, Alone, Somewhere
    <3>3. Alone(g)'
      BY <2>1, <2>2, <2>4, <3>1, <1>1, <1>2, <1>3 DEF Kept, Alone, Somewhere
    <3> QED
      BY <3>2, <3>3, <1>1, <1>2, <1>3 DEF Kept, Alone, Somewhere
  <2> QED
    BY <2>3, <2>4
<1>30. ASSUME NEW f \in Frames, LateRelease(f) PROVE Kept(g)' /\ Alone(g)'
  <2>1. plan' = plan /\ frameQ' = frameQ /\ enc' = enc /\ held' = held /\ Recorded' = Recorded /\ app' = app
        /\ InHand(g)' = InHand(g) /\ late[f] > 0 /\ (out' = out \/ out' = out \ {f})
    BY <1>30 DEF LateRelease, Recorded, InHand
  <2>2. InQueue(g)' = InQueue(g) /\ Once(frameQ', g) = Once(frameQ, g)
    BY <2>1 DEF InQueue
  <2>3. Type(f) = "VIDEO" /\ Recorded
    BY <2>1 DEF Recordings
  <2>4. g # f => (g \in out' <=> g \in out)
    BY <2>1
  <2> QED
    BY <2>1, <2>2, <2>3, <2>4, <1>1, <1>2, <1>3 DEF Kept, Alone, Somewhere
<1>31. CASE AutoFocus
  <2>1. plan' = plan /\ frameQ' = frameQ /\ enc'[g] = enc[g] /\ held'[g] = held[g] /\ out' = out
    BY <1>31 DEF AutoFocus
  <2>2. InHand(g)' = InHand(g)
    BY <1>31 DEF AutoFocus, InHand
  <2>3. (Recorded => Recorded') /\ (app = "recorded" => app' = "recorded")
    BY <1>31 DEF AutoFocus, Recorded
  <2> QED
    BY <2>1, <2>2, <2>3, <1>1, Undisturbed
<1>32. CASE FlushEventQueue
  <2>1. plan' = plan /\ frameQ' = frameQ /\ enc'[g] = enc[g] /\ held'[g] = held[g] /\ out' = out
    BY <1>32 DEF FlushEventQueue
  <2>2. InHand(g)' = InHand(g)
    BY <1>32 DEF FlushEventQueue, InHand
  <2>3. (Recorded => Recorded') /\ (app = "recorded" => app' = "recorded")
    BY <1>32 DEF FlushEventQueue, Recorded
  <2> QED
    BY <2>1, <2>2, <2>3, <1>1, Undisturbed
<1>33. CASE PostExit
  <2>1. plan' = plan /\ frameQ' = frameQ /\ enc'[g] = enc[g] /\ held'[g] = held[g] /\ out' = out
    BY <1>33 DEF PostExit
  <2>2. InHand(g)' = InHand(g)
    BY <1>33 DEF PostExit, InHand
  <2>3. (Recorded => Recorded') /\ (app = "recorded" => app' = "recorded")
    BY <1>33 DEF PostExit, Recorded
  <2> QED
    BY <2>1, <2>2, <2>3, <1>1, Undisturbed
<1>34. CASE Join
  <2>1. plan' = plan /\ frameQ' = frameQ /\ enc'[g] = enc[g] /\ held'[g] = held[g] /\ out' = out
    BY <1>34 DEF Join
  <2>2. InHand(g)' = InHand(g)
    BY <1>34 DEF Join, InHand
  <2>3. (Recorded => Recorded') /\ (app = "recorded" => app' = "recorded")
    BY <1>34 DEF Join, Recorded
  <2> QED
    BY <2>1, <2>2, <2>3, <1>1, Undisturbed
<1>35. CASE UNCHANGED vars
  BY <1>35, <1>1, Undisturbed DEF vars, InHand, Recorded
<1> QED
  BY <1>4, <1>5, <1>6, <1>7, <1>8, <1>9, <1>10, <1>11, <1>12, <1>13, <1>14, <1>15, <1>16, <1>17, <1>18, <1>19,
     <1>20, <1>21, <1>22, <1>23, <1>24, <1>25, <1>26, <1>27, <1>28, <1>29, <1>30, <1>31, <1>32, <1>33, <1>34, <1>35
  DEF Next, NotificationThread, EncoderThread, Stopping, Application, Releases

-----------------------------------------------------------------------------
LEMMA NotifierInit == Init => IInv
<1> SUFFICES ASSUME Init PROVE IInv
  OBVIOUS
<1>1. plan \in Plans /\ Frames \subseteq Nat /\ plan.frames \in Seq(FrameTypes)
  BY NotifierAssumption DEF Init, Frames, PlanType
<1>2. TypeOK
  <2>1. hasMsg \in [Queues -> BOOLEAN] /\ starts \in 0 .. MaxStarts /\ recordings \in 0 .. MaxStarts
    BY NotifierAssumption DEF Init
  <2>2. msgQ \in Seq({"exit"}) /\ eventQ \in Seq({"focus"}) /\ frameQ \in Seq(Frames)
    BY DEF Init
  <2>3. held \in [Frames -> Nat] /\ late \in [Frames -> Nat] /\ enc \in [Frames -> {"none"}]
    BY DEF Init
  <2> QED
    BY <1>1, <2>1, <2>2, <2>3 DEF Init, TypeOK, FrameTypes, None
<1>3. Messages /\ AtWork /\ Encoding
  BY DEF Init, Messages, AtWork, Encoding, FrameTypes, Queues
<1>4. NeverStopped /\ Recordings
  BY DEF Init, NeverStopped, Recordings, Started
<1>5. NoFrameLost
  <2>1. \A f \in Frames : ~InQueue(f) /\ ~InHand(f) /\ enc[f] = "none" /\ held[f] = 0
    BY DEF Init, InQueue, InHand, FrameTypes
  <2>2. out = {} /\ frameQ = <<>>
    BY DEF Init
  <2> QED
    BY <2>1, <2>2 DEF NoFrameLost, Somewhere, AtOnePlace
<1> QED
  BY <1>2, <1>3, <1>4, <1>5 DEF IInv

LEMMA NotifierStep == IInv /\ [Next]_vars => IInv'
<1> SUFFICES ASSUME IInv, [Next]_vars PROVE IInv'
  OBVIOUS
<1>1. TypeOK' /\ Messages' /\ AtWork' /\ Encoding' /\ NeverStopped' /\ Recordings'
  BY TypeStep, MessagesStep, PlacesStep, NeverStoppedStep, RecordingsStep DEF IInv
<1>2. \A g \in Frames' : Kept(g)' /\ Alone(g)'
  BY LostStep, Fixed DEF IInv, TypeOK
<1>3. NoFrameLost'
  <2>1. out' \subseteq Frames'
    BY <1>1 DEF TypeOK
  <2> QED
    BY <1>2, <2>1 DEF NoFrameLost, Kept, Alone
<1> QED
  BY <1>1, <1>3 DEF IInv

THEOREM NotifierInvariant == Spec => []IInv
BY NotifierInit, NotifierStep, PTL DEF Spec

(* The thread of the notifier never waits with mLock held but for an event,   *)
(* never takes a message that is not there, and works on a frame it has.      *)
THEOREM TypeCorrect == Spec => []TypeOK
BY NotifierInvariant, PTL DEF IInv

(* A frame that is handed out is on its way back, at one place until a        *)
(* recording was stopped, except where the code drops it.                     *)
THEOREM FramesKept == Spec => []NoFrameLost
BY NotifierInvariant, PTL DEF IInv
=============================================================================
