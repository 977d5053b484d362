----------------------------- MODULE FrameRefs -----------------------------
(***************************************************************************)
(* The preview buffers of BaseCameraAdapter while the preview is running.  *)
(* A filled buffer comes back from the component (FillBufferDone), gets    *)
(* one reference count per frame type, is sent to the subscribers of each  *)
(* type and is queued again when the counts are zero (returnFrame).        *)
(* Actors: the OMX callback thread, the threads of the clients, and the    *)
(* thread of CameraHal that starts and stops a recording.                  *)
(***************************************************************************)
EXTENDS Naturals, FiniteSets

CONSTANTS Bufs,            \* the preview buffers
          Display,         \* the display adapter: subscribed throughout
          Apps,            \* preview callbacks, subscribed on and off
          Encoder,         \* the consumer of the video frames
          Omx, Control,    \* the callback thread, the recording thread
          NoBuf,
          MaxRecordings,   \* bound: how many recordings are started
          MayStop,         \* may a recording be stopped?
          VideoSnapshots   \* may a snapshot be taken while recording?

Clients == {Display, Encoder} \cup Apps
Threads == Clients \cup {Omx, Control}

ASSUME FrameAssumption ==
  /\ IsFiniteSet(Bufs) /\ IsFiniteSet(Apps)
  /\ NoBuf \notin Bufs
  /\ Display # Encoder /\ {Display, Encoder} \cap Apps = {}
  /\ Omx # Control /\ {Omx, Control} \cap Clients = {}
  /\ MaxRecordings \in Nat
  /\ MayStop \in BOOLEAN /\ VideoSnapshots \in BOOLEAN

Types == {"PREVIEW", "VIDEO", "SNAPSHOT"}

VARIABLES
  fills,      \* how often each buffer is queued at the component
  refs,       \* m*BuffersAvailable: the reference counts, per frame type
  videoKeys,  \* the buffers mVideoBuffersAvailable has an entry for
  subs,       \* the subscribers of each frame type
  held,       \* the clients' holds: <<client, type>> per buffer
  filling,    \* per thread: the buffer it found free and is about to queue
  recording,  \* mRecording
  pc, frame, mainType, mask, todo,  \* locals of the callback thread
  unsent,     \* a frame could not be sent to all it was counted for
  ctl, toStop,                      \* locals of the recording thread
  reclaimed,  \* video frames taken back from an encoder that has them still
  recordings, \* recordings started so far
  crashed     \* valueFor() of a key the vector does not have

cbVars  == <<pc, frame, mainType, mask, todo, unsent>>
ctlVars == <<ctl, toStop, recordings>>
vars == <<fills, refs, videoKeys, subs, held, filling, recording, cbVars,
          ctlVars, reclaimed, crashed>>

Max0 == Cardinality(Clients)

TypeOK ==
  /\ fills \in [Bufs -> Nat]
  /\ refs \in [Types -> [Bufs -> 0..Max0]]
  /\ videoKeys \subseteq Bufs
  /\ subs \in [Types -> SUBSET Clients]
  /\ held \in [Bufs -> SUBSET (Clients \X Types)]
  /\ filling \in [Threads -> Bufs \cup {NoBuf}]
  /\ recording \in BOOLEAN
  /\ pc \in {"idle", "count", "send", "return"}
  /\ frame \in Bufs \cup {NoBuf}
  /\ frame = NoBuf <=> pc = "idle"
  /\ mainType \in {"PREVIEW", "SNAPSHOT"}
  /\ mask \subseteq Types /\ todo \subseteq mask /\ unsent \in BOOLEAN
  /\ ctl \in {"idle", "start", "recording", "returning", "cleared"}
  /\ toStop \subseteq Bufs /\ reclaimed \subseteq Bufs
  /\ recordings \in 0..MaxRecordings
  /\ crashed \in BOOLEAN

(* CAMERA_USE_BUFFERS_PREVIEW followed by startPreview(): every count is   *)
(* zero and every buffer is queued (mMaxQueueable is the whole set here).  *)
Init ==
  /\ fills = [b \in Bufs |-> 1]
  /\ refs = [t \in Types |-> [b \in Bufs |-> 0]]
  /\ videoKeys = {}
  /\ subs = [t \in Types |-> IF t = "VIDEO" THEN {} ELSE {Display}]
  /\ held = [b \in Bufs |-> {}]
  /\ filling = [t \in Threads |-> NoBuf]
  /\ recording = FALSE
  /\ pc = "idle" /\ frame = NoBuf /\ mainType = "PREVIEW"
  /\ mask = {} /\ todo = {} /\ unsent = FALSE
  /\ ctl = "idle" /\ toStop = {} /\ reclaimed = {} /\ recordings = 0
  /\ crashed = FALSE

-----------------------------------------------------------------------------
(* returnFrame()                                                            *)

(* KeyedVector::valueFor() aborts on a key that is not there; only the     *)
(* video counts are ever cleared while frames are out.                     *)
Missing(t, b) == t = "VIDEO" /\ b \notin videoKeys

(* Mutant: the frame of the other type is not looked at.                    *)
PartnersForgotten(t) == {}

(* The other frame type whose count matters for a buffer that is returned. *)
Partners(t) ==
  IF ~recording THEN {}
  ELSE CASE t = "VIDEO"    -> {"PREVIEW"}
         [] t = "PREVIEW"  -> {"VIDEO"}
         [] t = "SNAPSHOT" -> {"VIDEO"}

Crash == /\ crashed' = TRUE
         /\ UNCHANGED <<fills, refs, videoKeys, subs, filling, recording>>

(* Mutants of returnFrame(): the last reference frees no buffer while a    *)
(* recording is on; a return gives up the reference of the other type too; *)
(* the buffer is queued before the last holder of the type is done.        *)
ReturnRefKeepsBuffer(thread, b, t) ==
  /\ refs' = [refs EXCEPT ![t][b] = @ - 1]
  /\ filling' = [filling EXCEPT ![thread] =
                   IF refs[t][b] = 1 /\ Partners(t) = {} THEN b ELSE NoBuf]
  /\ UNCHANGED <<fills, videoKeys, subs, recording, crashed>>

ReturnRefBothTypes(thread, b, t) ==
  /\ refs' = [x \in Types |-> IF x \in {t} \cup Partners(t)
                              THEN [refs[x] EXCEPT ![b] = @ - 1] ELSE refs[x]]
  /\ filling' = [filling EXCEPT ![thread] = b]
  /\ UNCHANGED <<fills, videoKeys, subs, recording, crashed>>

ReturnRefTooEarly(thread, b, t) ==
  /\ refs' = [refs EXCEPT ![t][b] = @ - 1]
  /\ filling' = [filling EXCEPT ![thread] =
                   IF \A p \in Partners(t) : refs[p][b] = 0 THEN b ELSE NoBuf]
  /\ UNCHANGED <<fills, videoKeys, subs, recording, crashed>>

(* The part under mReturnFrameLock.  A count that is zero already ends the *)
(* call; otherwise it goes down, and the thread goes on to fillThisBuffer  *)
(* when the buffer's counts add up to zero.                                *)
ReturnRef(thread, b, t) ==
  \/ /\ Missing(t, b) \/ (refs[t][b] > 0 /\ \E p \in Partners(t) : Missing(p, b))
     /\ Crash
  \/ /\ ~Missing(t, b)
     /\ refs[t][b] = 0
     /\ UNCHANGED <<fills, refs, videoKeys, subs, filling, recording, crashed>>
  \/ /\ ~Missing(t, b) /\ \A p \in Partners(t) : ~Missing(p, b)
     /\ refs[t][b] > 0
     /\ refs' = [refs EXCEPT ![t][b] = @ - 1]
     /\ filling' = [filling EXCEPT ![thread] =
                      IF /\ refs[t][b] = 1
                         /\ \A p \in Partners(t) : refs[p][b] = 0
                      THEN b ELSE NoBuf]
     /\ UNCHANGED <<fills, videoKeys, subs, recording, crashed>>

Ready(thread) == ~crashed /\ filling[thread] = NoBuf

(* fillThisBuffer(), outside the lock: the preview is active, so the       *)
(* buffer is queued at the component.                                      *)
FillThisBuffer(thread) ==
  /\ ~crashed
  /\ filling[thread] # NoBuf
  /\ fills' = [fills EXCEPT ![filling[thread]] = @ + 1]
  /\ filling' = [filling EXCEPT ![thread] = NoBuf]
  /\ UNCHANGED <<refs, videoKeys, subs, held, recording, cbVars, ctlVars,
                 reclaimed, crashed>>

(* A client is done with a frame: the display has shown it, the preview    *)
(* callback has copied it, the application has released the video frame.   *)
ReturnFrame(c, t, b) ==
  /\ Ready(c)
  /\ <<c, t>> \in held[b]
  /\ held' = [held EXCEPT ![b] = @ \ {<<c, t>>}]
  /\ ReturnRef(c, b, t)
  /\ UNCHANGED <<cbVars, ctlVars, reclaimed>>

-----------------------------------------------------------------------------
(* OMXCameraAdapterFillBufferDone(), sendCallBacks()                        *)

First(ts) == IF "PREVIEW" \in ts THEN "PREVIEW"
             ELSE IF "VIDEO" \in ts THEN "VIDEO" ELSE "SNAPSHOT"

(* The callback: a preview frame, or the snapshot a capture waits for,     *)
(* and a video frame as well when mRecording is set.                       *)
FillBufferDone(b) ==
  /\ Ready(Omx) /\ pc = "idle"
  /\ fills[b] > 0
  /\ fills' = [fills EXCEPT ![b] = @ - 1]
  /\ frame' = b
  /\ mainType' \in IF recording => VideoSnapshots THEN {"PREVIEW", "SNAPSHOT"}
                                                  ELSE {"PREVIEW"}
  /\ mask' = {mainType'} \cup (IF recording THEN {"VIDEO"} ELSE {})
  /\ todo' = mask'
  /\ pc' = "count"
  /\ UNCHANGED <<refs, videoKeys, subs, held, filling, recording, unsent, ctlVars,
                 reclaimed, crashed>>

(* sendCallBacks() holds mSubscriberLock from the first count it sets to   *)
(* the last callback.                                                      *)
SubscribersLocked == pc = "send" \/ (pc = "count" /\ todo # mask)

Advance(t, label) ==
  IF todo = {t} THEN pc' = label /\ todo' = (IF label = "send" THEN mask ELSE {})
                ELSE UNCHANGED pc /\ todo' = todo \ {t}

(* Mutant: the subscribers of the video frames are not counted.             *)
SetInitFrameRefCountNoVideo ==
  /\ Ready(Omx) /\ pc = "count"
  /\ LET t == First(todo) IN
       /\ refs' = [refs EXCEPT ![t][frame] =
                     IF t = "VIDEO" THEN 0 ELSE Cardinality(subs[t])]
       /\ videoKeys' = IF t = "VIDEO" THEN videoKeys \cup {frame} ELSE videoKeys
       /\ Advance(t, "send")
  /\ UNCHANGED <<fills, subs, held, filling, recording, frame, mainType, mask,
                 unsent, ctlVars, reclaimed, crashed>>

(* setInitFrameRefCount(): one type after the other, in mask order, before *)
(* any frame is sent.  replaceValueFor() adds an entry that is missing.    *)
SetInitFrameRefCount ==
  /\ Ready(Omx) /\ pc = "count"
  /\ LET t == First(todo) IN
       /\ refs' = [refs EXCEPT ![t][frame] = Cardinality(subs[t])]
       /\ videoKeys' = IF t = "VIDEO" THEN videoKeys \cup {frame} ELSE videoKeys
       /\ Advance(t, "send")
  /\ UNCHANGED <<fills, subs, held, filling, recording, frame, mainType, mask,
                 unsent, ctlVars, reclaimed, crashed>>

(* __sendFrameToSubscribers(): the frame goes to as many subscribers of    *)
(* the type as its count says.                                             *)
SendFrameToSubscribers ==
  /\ Ready(Omx) /\ pc = "send"
  /\ LET t == First(todo)
         n == refs[t][frame] IN
       /\ ~Missing(t, frame)
       /\ n > 0 /\ n <= Cardinality(subs[t])
       /\ \E S \in SUBSET subs[t] :
            /\ Cardinality(S) = n
            /\ held' = [held EXCEPT ![frame] = @ \cup (S \X {t})]
       /\ Advance(t, "idle")
  /\ frame' = IF pc' = "idle" THEN NoBuf ELSE frame
  /\ UNCHANGED <<fills, refs, videoKeys, subs, filling, recording, mainType,
                 mask, unsent, ctlVars, reclaimed, crashed>>

(* The same with no reference, or with more references than subscribers:   *)
(* -EINVAL, and the types behind this one are not sent.                    *)
SendFrameFails ==
  /\ Ready(Omx) /\ pc = "send"
  /\ LET t == First(todo) IN
       \/ /\ Missing(t, frame)
          /\ Crash
          /\ UNCHANGED <<pc, todo, unsent>>
       \/ /\ ~Missing(t, frame)
          /\ refs[t][frame] \notin 1..Cardinality(subs[t])
          /\ pc' = "return" /\ todo' = {} /\ unsent' = TRUE
          /\ UNCHANGED <<fills, refs, videoKeys, subs, filling, recording,
                         crashed>>
  /\ UNCHANGED <<held, frame, mainType, mask, ctlVars, reclaimed>>

(* FillBufferDone's answer to a failed sendCallBacks(): it returns the     *)
(* frame itself, under the main type of the frame.                         *)
ReturnUnsentFrame ==
  /\ Ready(Omx) /\ pc = "return"
  /\ ReturnRef(Omx, frame, mainType)
  /\ pc' = "idle" /\ frame' = NoBuf
  /\ UNCHANGED <<held, mainType, mask, todo, unsent, ctlVars, reclaimed>>

-----------------------------------------------------------------------------
(* Subscriptions and recordings                                             *)

(* enableMsgType() and disableMsgType() of a preview or postview callback. *)
EnableMsgType(c, t) ==
  /\ ~crashed /\ ~SubscribersLocked
  /\ c \notin subs[t]
  /\ subs' = [subs EXCEPT ![t] = @ \cup {c}]
  /\ UNCHANGED <<fills, refs, videoKeys, held, filling, recording, cbVars,
                 ctlVars, reclaimed, crashed>>

DisableMsgType(c, t) ==
  /\ ~crashed /\ ~SubscribersLocked
  /\ c \in subs[t]
  /\ subs' = [subs EXCEPT ![t] = @ \ {c}]
  /\ UNCHANGED <<fills, refs, videoKeys, held, filling, recording, cbVars,
                 ctlVars, reclaimed, crashed>>

(* CameraHal::startRecording(): the notifier subscribes to video frames,   *)
(* then CAMERA_START_VIDEO.                                                *)
SubscribeVideo ==
  /\ ~crashed /\ ctl = "idle" /\ ~SubscribersLocked
  /\ recordings < MaxRecordings
  /\ recordings' = recordings + 1
  /\ subs' = [subs EXCEPT !["VIDEO"] = {Encoder}]
  /\ ctl' = "start"
  /\ UNCHANGED <<fills, refs, videoKeys, held, filling, recording, cbVars,
                 toStop, reclaimed, crashed>>

StartVideoCapture ==
  /\ ~crashed /\ ctl = "start"
  /\ refs' = [refs EXCEPT !["VIDEO"] = [b \in Bufs |-> 0]]
  /\ videoKeys' = Bufs
  /\ recording' = TRUE
  /\ ctl' = "recording"
  /\ UNCHANGED <<fills, subs, held, filling, cbVars, toStop, recordings, reclaimed,
                 crashed>>

(* Mutant: the notifier does not unsubscribe from the video frames.         *)
UnsubscribeVideoNever ==
  /\ ~crashed /\ ctl = "recording" /\ MayStop /\ ~SubscribersLocked
  /\ ctl' = "returning"
  /\ toStop' = videoKeys
  /\ UNCHANGED <<fills, refs, videoKeys, subs, held, filling, recording, cbVars,
                 recordings, reclaimed, crashed>>

(* CameraHal::stopRecording(): the notifier unsubscribes first and clears  *)
(* the map in which releaseRecordingFrame() finds a frame, then comes      *)
(* CAMERA_STOP_VIDEO.                                                      *)
UnsubscribeVideo ==
  /\ ~crashed /\ ctl = "recording" /\ MayStop /\ ~SubscribersLocked
  /\ subs' = [subs EXCEPT !["VIDEO"] = {}]
  /\ ctl' = "returning"
  /\ toStop' = videoKeys
  /\ UNCHANGED <<fills, refs, videoKeys, held, filling, recording, cbVars,
                 recordings, reclaimed, crashed>>

(* Mutant: the frames the encoder has are not returned on its behalf.       *)
StopVideoReturnNothing(b) ==
  /\ Ready(Control) /\ ctl = "returning" /\ b \in toStop
  /\ toStop' = toStop \ {b}
  /\ UNCHANGED <<fills, refs, videoKeys, subs, held, filling, recording, cbVars,
                 ctl, recordings, reclaimed, crashed>>

(* stopVideoCapture() returns, one buffer after the other, the reference   *)
(* of every video frame that is still out.                                 *)
StopVideoReturn(b) ==
  /\ Ready(Control) /\ ctl = "returning" /\ b \in toStop
  /\ toStop' = toStop \ {b}
  /\ IF refs["VIDEO"][b] > 0
     THEN /\ ReturnRef(Control, b, "VIDEO")
          /\ held' = [held EXCEPT ![b] = @ \ {<<Encoder, "VIDEO">>}]
          /\ reclaimed' = reclaimed \cup
               {x \in {b} : <<Encoder, "VIDEO">> \in held[x]}
     ELSE UNCHANGED <<fills, refs, videoKeys, subs, held, filling, recording,
                      reclaimed, crashed>>
  /\ UNCHANGED <<cbVars, ctl, recordings>>

StopVideoClear ==
  /\ Ready(Control) /\ ctl = "returning" /\ toStop = {}
  /\ videoKeys' = {}
  /\ refs' = [refs EXCEPT !["VIDEO"] = [b \in Bufs |-> 0]]
  /\ ctl' = "cleared"
  /\ UNCHANGED <<fills, subs, held, filling, recording, cbVars, toStop, recordings,
                 reclaimed, crashed>>

(* mRecording = false; CameraHal clears mRecordingEnabled.                 *)
StopVideoDone ==
  /\ ~crashed /\ ctl = "cleared"
  /\ recording' = FALSE
  /\ ctl' = "idle"
  /\ UNCHANGED <<fills, refs, videoKeys, subs, held, filling, cbVars, toStop,
                 recordings, reclaimed, crashed>>

(* mRecordingEnabled; without it releaseRecordingFrame() does nothing.     *)
RecordingEnabled == ctl \in {"recording", "returning", "cleared"}

(* The application releases a video frame that was taken back meanwhile.   *)
(* It is passed on when the release had found its frame by then, or, where *)
(* frames are not sent as metadata, as soon as a recording is on again.    *)
(* stopRecording() has cleared mVideoMetadataBufferReverseMap.             *)
LateRelease(b) ==
  /\ Ready(Encoder)
  /\ b \in reclaimed
  /\ reclaimed' = reclaimed \ {b}
  /\ \/ ReturnRef(Encoder, b, "VIDEO")
     \/ RecordingEnabled /\ Crash
     \/ /\ ~RecordingEnabled
        /\ UNCHANGED <<fills, refs, videoKeys, subs, filling, recording, crashed>>
  /\ UNCHANGED <<held, cbVars, ctlVars>>

(* The release of a frame that is not taken back yet, with the map cleared. *)
ReleaseUnmapped(b) ==
  /\ Ready(Encoder) /\ ctl \in {"returning", "cleared"}
  /\ <<Encoder, "VIDEO">> \in held[b]
  /\ Crash
  /\ UNCHANGED <<held, cbVars, ctlVars, reclaimed>>
-----------------------------------------------------------------------------
OmxStep == \/ SetInitFrameRefCount
           \/ SendFrameToSubscribers
           \/ SendFrameFails
           \/ ReturnUnsentFrame
           \/ \E b \in Bufs : FillBufferDone(b)

ClientStep(c) == \/ \E t \in Types, b \in Bufs : ReturnFrame(c, t, b)
                 \/ FillThisBuffer(c)

ControlStep == \/ StartVideoCapture
               \/ \E b \in Bufs : StopVideoReturn(b)
               \/ StopVideoClear
               \/ StopVideoDone
               \/ FillThisBuffer(Control)

Next == \/ OmxStep \/ FillThisBuffer(Omx)
        \/ ControlStep
        \/ SubscribeVideo \/ UnsubscribeVideo
        \/ \E c \in Clients : ClientStep(c)
        \/ \E b \in Bufs : LateRelease(b) \/ ReleaseUnmapped(b)
        \/ \E c \in Apps, t \in {"PREVIEW", "SNAPSHOT"} :
             EnableMsgType(c, t) \/ DisableMsgType(c, t)

Spec == Init /\ [][Next]_vars

(* The component fills what it is given, the callback thread runs, and     *)
(* every client gives back, sooner or later, the frames it was sent.       *)
Fairness ==
  /\ WF_vars(OmxStep) /\ WF_vars(FillThisBuffer(Omx))
  /\ WF_vars(ControlStep)
  /\ \A c \in Clients : WF_vars(FillThisBuffer(c))
  /\ \A c \in Clients, b \in Bufs :
       SF_vars(\E t \in Types : ReturnFrame(c, t, b))

FairSpec == Spec /\ Fairness
-----------------------------------------------------------------------------
(* Properties                                                               *)

(* A buffer is at most once at the component, and while it is there or a   *)
(* thread is about to queue it, no client holds it and the callback thread *)
(* is not handing it out: "check if someone is holding this buffer"        *)
(* (returnFrame()).                                                        *)
ExclusiveOwnership ==
  \A b \in Bufs :
    /\ fills[b] <= 1
    /\ \A t \in Threads : filling[t] = b =>
         fills[b] = 0 /\ \A u \in Threads : filling[u] = b => u = t
    /\ fills[b] > 0 \/ (\E t \in Threads : filling[t] = b)
         => held[b] = {} /\ frame # b

(* No buffer gets lost: it is at the component, on its way there, being    *)
(* handed out, or in the hands of a client that will return it             *)
(* (returnFrame() is the only way back to fillThisBuffer()).               *)
NoBufferLost ==
  \A b \in Bufs : \/ fills[b] > 0
                  \/ frame = b
                  \/ \E t \in Threads : filling[t] = b
                  \/ held[b] # {}
                  \/ crashed

Holders(b, t) == {c \in Clients : <<c, t>> \in held[b]}

(* A count is the number of clients that have the frame, once it has been  *)
(* sent to all of them (setInitFrameRefCount(), __sendFrameToSubscribers() *)
(* and returnFrame() keep it so).                                          *)
RefsCountHolders ==
  \A b \in Bufs, t \in Types :
    b # frame => refs[t][b] = Cardinality(Holders(b, t))

(* Stopping the first recording loses no buffer.  (A callback that outlives *)
(* it can lose one in the second.)                                          *)
StopLosesNoBuffer == recordings < 2 => NoBufferLost

(* After the first recording the adapter has taken back every video frame  *)
(* that was sent to the encoder (stopVideoCapture()).                      *)
VideoFramesReclaimed ==
  ctl \in {"cleared", "idle"} /\ recordings < 2 =>
    \A b \in Bufs : <<Encoder, "VIDEO">> \notin held[b]

(* The application's release of a frame that stopVideoCapture() has taken  *)
(* back takes no reference and queues no buffer; in a later recording it   *)
(* takes at most the reference that a new delivery of the buffer has been  *)
(* given, unless a frame could not be sent (releaseRecordingFrame(),       *)
(* returnFrame() on a zero count).                                         *)
OutAgain(b) == recordings > 1 /\ (frame = b \/ <<Encoder, "VIDEO">> \in held[b])
LateReleaseTakesNothing ==
  [][\A b \in Bufs : LateRelease(b) =>
       \/ UNCHANGED <<refs, filling>>
       \/ OutAgain(b)
       \/ recordings > 1 /\ unsent]_vars

(* "check if someone is holding this buffer" (BaseCameraAdapter.cpp:387):  *)
(* what returnFrame() goes on to queue, nobody holds.                      *)
NobodyHoldsAFilledBuffer ==
  \A t \in Threads : filling[t] # NoBuf => held[filling[t]] = {}

(* The reference counts implement the loan of buffers: handed out only     *)
(* from the component, taken back only when every hold is released.        *)
Loan == INSTANCE FrameLoan WITH Holds <- Clients \X Types,
                                component <- {b \in Bufs : fills[b] > 0}
ImplementsLoan == Loan!Spec

(* Every buffer comes back to the component, again and again: the preview  *)
(* does not starve (returnFrame(), fillThisBuffer()).                      *)
BuffersComeBack == \A b \in Bufs : []<>(fills[b] > 0)
=============================================================================
