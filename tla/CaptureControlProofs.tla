------------------------ MODULE CaptureControlProofs ------------------------
(* Proofs about CaptureControl for any number of images, returning threads    *)
(* and captures, in every mode: types, who holds which lock, and, when the    *)
(* captures do not overlap, what the end of one leaves behind and what the    *)
(* application sees of its pictures.                                          *)
EXTENDS CaptureControl, FiniteSetTheorems, TLAPS

LEMMA BurstType == ASSUME plan \in Plans PROVE Burst \in Nat
BY BuffersAssumption, PlansAssumption, FS_Subset, FS_CardinalityType DEF Burst, PlanType

(* What the flush puts into the queue: each of the buffers, once.            *)
LEMMA FlushedImages ==
  ASSUME NEW S \in SUBSET Buffers, NEW images \in SetToSeqs(S)
  PROVE  images \in Seq(Buffers)
<1>1. IsFiniteSet(S)
  BY BuffersAssumption, FS_Subset
<1>2. images \in [1..Cardinality(S) -> S]
  BY DEF SetToSeqs
<1> QED
  BY <1>1, <1>2, FS_CardinalityType

-----------------------------------------------------------------------------
(* Where the threads are: a thread in fillThisBuffer() has a buffer.         *)
PlacesOK ==
  /\ pc \in [Threads -> Places] /\ frameBuf \in [Returners -> Buffers \union {NoBuffer}]
  /\ \A t \in Returners : pc[t] = "fill" => frameBuf[t] \in Buffers

LEMMA ThreadsKnown ==
  /\ "app" \in Stoppers /\ "app" \in Threads /\ "cmd" \in Threads /\ Stoppers \subseteq Threads /\ Returners \subseteq Stoppers
  /\ "app" \notin Returners /\ "cmd" \notin Returners
BY ReturnersAssumption DEF Threads, Stoppers

LEMMA PlacesStep == PlacesOK /\ [Next]_vars => PlacesOK'
<1> SUFFICES ASSUME PlacesOK, [Next]_vars PROVE PlacesOK'
  OBVIOUS
<1> USE ThreadsKnown DEF PlacesOK, Goto, Places, Waiting, Stopping, Starting, control, data, client
<1>1. CASE TakePicture
  BY <1>1 DEF TakePicture
<1>2. CASE UseBuffersCapture
  BY <1>2 DEF UseBuffersCapture, UseBuffers
<1>3. CASE StartCommand
  BY <1>3 DEF StartCommand
<1>4. CASE StopRecording
  BY <1>4 DEF StopRecording
<1>5. CASE QueryState
  BY <1>5 DEF QueryState
<1>6. CASE GetCommand
  BY <1>6 DEF GetCommand
<1>7. CASE LockImageCapture
  BY <1>7 DEF LockImageCapture
<1>8. CASE GetNextState
  BY <1>8 DEF GetNextState
<1>9. CASE QueueImageBuffers
  BY <1>9 DEF QueueImageBuffers, Accumulate, QueueAll
<1>10. CASE WaitForShutter
  BY <1>10 DEF WaitForShutter
<1>11. CASE ShutterEvent
  BY <1>11 DEF ShutterEvent
<1>12. ASSUME NEW b \in Buffers, FillImage(b) PROVE PlacesOK'
  BY <1>12 DEF FillImage, Put
<1>13. CASE TakeCallback
  BY <1>13 DEF TakeCallback
<1>14. CASE FillBufferDone
  BY <1>14 DEF FillBufferDone, ImageDone
<1>15. ASSUME NEW t \in Returners, NEW b \in Buffers, ReturnFrame(t, b) PROVE PlacesOK'
  BY <1>15 DEF ReturnFrame
<1>26. ASSUME NEW t \in Returners, FillThisBuffer(t) PROVE PlacesOK'
  BY <1>26 DEF FillThisBuffer
<1>16. ASSUME NEW t \in Returners, SignalEndImageCapture(t) PROVE PlacesOK'
  BY <1>16 DEF SignalEndImageCapture
<1>17. ASSUME NEW t \in Stoppers, StopCommand(t) PROVE PlacesOK'
  BY <1>17 DEF StopCommand
<1>18. ASSUME NEW t \in Stoppers, StopImageCapture(t) PROVE PlacesOK'
  BY <1>18 DEF StopImageCapture
<1>19. ASSUME NEW t \in Stoppers, CaptureDone(t) PROVE PlacesOK'
  BY <1>19 DEF CaptureDone
<1>20. ASSUME NEW t \in Stoppers, CaptureTimesOut(t) PROVE PlacesOK'
  BY <1>20 DEF CaptureTimesOut
<1>21. ASSUME NEW t \in Stoppers, DisableCapturing(t) PROVE PlacesOK'
  BY <1>21 DEF DisableCapturing
<1>22. ASSUME NEW t \in Stoppers, FlushBuffers(t) PROVE PlacesOK'
  BY <1>22 DEF FlushBuffers, Put
<1>23. ASSUME NEW t \in Stoppers, FlushCallbacks(t) PROVE PlacesOK'
  BY <1>23 DEF FlushCallbacks
<1>24. ASSUME NEW t \in Stoppers, StopDone(t) PROVE PlacesOK'
  BY <1>24 DEF StopDone, CommitState
<1>25. CASE UNCHANGED vars
  BY <1>25 DEF vars
<1> QED
  BY <1>1, <1>2, <1>3, <1>4, <1>5, <1>6, <1>7, <1>8, <1>9, <1>10, <1>11, <1>12,
     <1>13, <1>14, <1>15, <1>16, <1>17, <1>18, <1>19, <1>20, <1>21, <1>22, <1>23, <1>24, <1>25, <1>26
  DEF Next, Application, Command, Component, Callback, Return, Stop

TypeInv == TypeOK /\ PlacesOK

LEMMA TypeInit == Init => TypeInv
<1> SUFFICES ASSUME Init PROVE TypeInv
  OBVIOUS
<1>1. pc \in [Threads -> Places]
  BY DEF Init, Waiting, Places
<1>2. commandQ \in Seq(Nat) /\ callbackQ \in Seq(Buffers)
  BY DEF Init
<1>3. PlacesOK
  BY <1>1, ThreadsKnown DEF Init, PlacesOK, Threads
<1> QED
  BY <1>1, <1>2, <1>3 DEF Init, TypeOK, TypeInv, PlacesOK

LEMMA TypeStep == TypeInv /\ [Next]_vars => TypeInv'
<1> SUFFICES ASSUME TypeOK, PlacesOK, [Next]_vars PROVE TypeOK'
  BY PlacesStep DEF TypeInv
<1>0. pc' \in [Threads -> Places]
  BY PlacesStep DEF PlacesOK
<1>01. frameBuf' \in [Returners -> Buffers \union {NoBuffer}]
  BY PlacesStep DEF TypeOK, PlacesOK
<1>00. Burst \in Nat /\ plan.images \subseteq Buffers
  BY BurstType, PlansAssumption DEF TypeOK, PlanType
<1> USE <1>0, <1>00, <1>01, ThreadsKnown DEF TypeOK
<1> USE DEF control, locks, requests, burst, signals, component, callbacks, client, history, data
<1>1. CASE TakePicture
  BY <1>1 DEF TakePicture
<1>2. CASE UseBuffersCapture
  BY <1>2 DEF UseBuffersCapture, UseBuffers
<1>3. CASE StartCommand
  BY <1>3 DEF StartCommand
<1>4. CASE StopRecording
  BY <1>4 DEF StopRecording
<1>5. CASE QueryState
  BY <1>5 DEF QueryState
<1>6. CASE GetCommand
  BY <1>6 DEF GetCommand
<1>7. CASE LockImageCapture
  BY <1>7 DEF LockImageCapture
<1>8. CASE GetNextState
  BY <1>8 DEF GetNextState
<1>9. CASE QueueImageBuffers
  <2>1. /\ mStatus' \in [Buffers -> {"idle", "fill", "done"}] /\ atComponent' \subseteq Buffers
        /\ mBurstFramesQueued' \in Nat /\ mCapturedFrames' \in Nat /\ mBurstFramesAccum' \in Nat
    <3>1. CASE QueueAll
      BY <3>1 DEF QueueAll
    <3>2. CASE Accumulate
      <4>1. PICK some \in SUBSET Buffers :
              /\ mStatus' = [b \in Buffers |-> IF b \in some THEN "fill" ELSE mStatus[b]]
              /\ atComponent' = atComponent \union some
              /\ mBurstFramesQueued' = mBurstFramesQueued + Cardinality(some)
              /\ mCapturedFrames' = mCapturedFrames + Burst
              /\ mBurstFramesAccum' = mBurstFramesAccum + Burst
        BY <3>2 DEF Accumulate
      <4>2. Cardinality(some) \in Nat
        BY BuffersAssumption, FS_Subset, FS_CardinalityType
      <4> QED
        BY <4>1, <4>2
    <3> QED
      BY <1>9, <3>1, <3>2 DEF QueueImageBuffers
  <2>2. mCaptureSignalled' \in BOOLEAN /\ capturing' \in BOOLEAN /\ shutterDue' \in BOOLEAN
    BY <1>9 DEF QueueImageBuffers, QueueAll, Accumulate, Video, HighQuality
  <2>3. mImageCaptureLock' \in Threads \union {NoThread}
    BY <1>9 DEF QueueImageBuffers
  <2>4. UNCHANGED <<mAdapterState, mNextState, mLock, halLock, mCaptureConfigured, requests, mCaptureSem,
                    mStartCaptureSem, callbacks, client, history>>
    BY <1>9 DEF QueueImageBuffers
  <2> QED
    BY <2>1, <2>2, <2>3, <2>4
<1>10. CASE WaitForShutter
  BY <1>10 DEF WaitForShutter
<1>11. CASE ShutterEvent
  <2>1. shutterDue' \in BOOLEAN
    BY <1>11, Zenon DEF ShutterEvent
  <2>2. mStartCaptureSem' \in Nat
    BY <1>11 DEF ShutterEvent
  <2>3. UNCHANGED <<capturing, atComponent, mCaptureSignalled, mCaptureSem, control, requests, burst,
                    callbacks, client, history>>
    BY <1>11 DEF ShutterEvent
  <2> QED
    BY <2>1, <2>2, <2>3
<1>12. ASSUME NEW b \in Buffers, FillImage(b) PROVE TypeOK'
  BY <1>12 DEF FillImage, Put
<1>13. CASE TakeCallback
  <2>0. callbackQ' \in Seq(Buffers)
    BY <1>13 DEF TakeCallback
  <2>1. mIsProcessed' \in BOOLEAN
    BY <1>13, Zenon DEF TakeCallback
  <2>2. cb' \in [buffer : Buffers \union {NoBuffer}, state : {"preview", "loaded", "capture"}]
    BY <1>13 DEF TakeCallback
  <2>3. UNCHANGED <<control, requests, burst, signals, component, client, history>>
    BY <1>13 DEF TakeCallback
  <2> QED
    BY <2>0, <2>1, <2>2, <2>3
<1>14. CASE FillBufferDone
  <2>1. PICK first : ImageDone(first) /\ first \in BOOLEAN
    BY <1>14 DEF FillBufferDone
  <2>2. cb.buffer \in Buffers
    BY <2>1 DEF ImageDone
  <2>3. mStatus' \in [Buffers -> {"idle", "fill", "done"}]
    BY <2>1, <2>2 DEF ImageDone
  <2>4. mCaptureSignalled' \in BOOLEAN /\ mIsProcessed' \in BOOLEAN
    BY <2>1 DEF ImageDone
  <2>5. mCaptureSem' \in Nat 
    BY <2>1 DEF ImageDone
  <2>6. mCapturedFrames' \in Nat /\ held' \subseteq Buffers /\ delivered' \in Nat
    <3>1. CASE cb.state = "capture" /\ mCapturedFrames >= 1
      BY SMTT(40), <2>1, <2>2, <3>1 DEF ImageDone
    <3>2. CASE ~(cb.state = "capture" /\ mCapturedFrames >= 1)
      BY SMTT(40), <2>1, <3>2 DEF ImageDone
    <3> QED
      BY <3>1, <3>2
  <2>7. cb' \in [buffer : Buffers \union {NoBuffer}, state : {"preview", "loaded", "capture"}]
    BY <2>1 DEF ImageDone
  <2>8. UNCHANGED <<mAdapterState, mNextState, locks, callbackQ, mCaptureConfigured, mBurstFramesQueued,
                    mBurstFramesAccum, mStartCaptureSem, requests, component, plan, ended>>
    BY <2>1 DEF ImageDone
  <2> QED
    BY <2>3, <2>4, <2>5, <2>6, <2>7, <2>8
<1>15. ASSUME NEW t \in Returners, NEW b \in Buffers, ReturnFrame(t, b) PROVE TypeOK'
  BY <1>15 DEF ReturnFrame
<1>26. ASSUME NEW t \in Returners, FillThisBuffer(t) PROVE TypeOK'
  <2>0. mStatus' \in [Buffers -> {"idle", "fill", "done"}]
    BY <1>26 DEF FillThisBuffer, PlacesOK
  <2>1. mBurstFramesQueued' \in Nat /\ atComponent' \subseteq Buffers
    BY <1>26 DEF FillThisBuffer, PlacesOK
  <2>4. UNCHANGED <<mAdapterState, mNextState, locks, capturing, shutterDue, mCaptureConfigured,
                    mCapturedFrames, mBurstFramesAccum, held, delivered, requests, signals, callbacks, history>>
    BY <1>26 DEF FillThisBuffer
  <2> QED
    BY <2>0, <2>1, <2>4
<1>16. ASSUME NEW t \in Returners, SignalEndImageCapture(t) PROVE TypeOK'
  BY <1>16 DEF SignalEndImageCapture
<1>17. ASSUME NEW t \in Stoppers, StopCommand(t) PROVE TypeOK'
  BY <1>17 DEF StopCommand
<1>18. ASSUME NEW t \in Stoppers, StopImageCapture(t) PROVE TypeOK'
  BY <1>18 DEF StopImageCapture
<1>19. ASSUME NEW t \in Stoppers, CaptureDone(t) PROVE TypeOK'
  BY <1>19 DEF CaptureDone
<1>20. ASSUME NEW t \in Stoppers, CaptureTimesOut(t) PROVE TypeOK'
  BY <1>20 DEF CaptureTimesOut
<1>21. ASSUME NEW t \in Stoppers, DisableCapturing(t) PROVE TypeOK'
  <2>1. capturing' \in BOOLEAN /\ mCaptureSignalled' \in BOOLEAN
    BY <1>21 DEF DisableCapturing
  <2>2. UNCHANGED <<mAdapterState, mNextState, locks, atComponent, shutterDue, mCaptureSem, mStartCaptureSem,
                    requests, burst, callbacks, client, history>>
    BY <1>21 DEF DisableCapturing
  <2> QED
    BY <2>1, <2>2
<1>22. ASSUME NEW t \in Stoppers, FlushBuffers(t) PROVE TypeOK'
  <2>1. PICK images \in SetToSeqs(atComponent) : Put(images)
    BY <1>22 DEF FlushBuffers
  <2>0. images \in Seq(Buffers)
    BY <2>1, FlushedImages
  <2>2. callbackQ' \in Seq(Buffers) /\ mIsProcessed' \in BOOLEAN
    BY <2>0, <2>1 DEF Put
  <2>3. atComponent' \subseteq Buffers
    BY <1>22 DEF FlushBuffers
  <2>4. UNCHANGED <<mAdapterState, mNextState, locks, capturing, shutterDue, cb, requests, burst, signals,
                    client, history>>
    BY <1>22 DEF FlushBuffers
  <2> QED
    BY <2>2, <2>3, <2>4
<1>23. ASSUME NEW t \in Stoppers, FlushCallbacks(t) PROVE TypeOK'
  BY <1>23 DEF FlushCallbacks
<1>24. ASSUME NEW t \in Stoppers, StopDone(t) PROVE TypeOK'
  BY <1>24 DEF StopDone, CommitState
<1>25. CASE UNCHANGED vars
  BY <1>25 DEF vars
<1> QED
  BY <1>1, <1>2, <1>3, <1>4, <1>5, <1>6, <1>7, <1>8, <1>9, <1>10, <1>11, <1>12,
     <1>13, <1>14, <1>15, <1>16, <1>17, <1>18, <1>19, <1>20, <1>21, <1>22, <1>23, <1>24, <1>25, <1>26
  DEF Next, Application, Command, Component, Callback, Return, Stop

(* Every variable keeps its type; in particular no semaphore and no count of *)
(* images goes below zero.                                                   *)
THEOREM TypeCorrect == Spec => []TypeOK
<1>1. TypeInv => TypeOK
  BY DEF TypeInv
<1> QED
  BY <1>1, TypeInit, TypeStep, PTL DEF Spec

-----------------------------------------------------------------------------
(* Who holds which lock. A step moves one thread (the callback thread may     *)
(* also move the one that waits in flush() to the end of its stop), and the   *)
(* holder of a lock is the thread at the places where it is held, so that no  *)
(* other thread can be at such a place.                                       *)

LEMMA LocksInit == Init => LocksHeld
BY NoThreadAssumption, ReturnersAssumption
DEF Init, LocksHeld, Threads, Stoppers, Starting, Stopping

LEMMA LocksStep == TypeOK /\ LocksHeld /\ [Next]_vars => LocksHeld'
<1> SUFFICES ASSUME TypeOK, LocksHeld, [Next]_vars PROVE LocksHeld'
  OBVIOUS
<1>0. pc \in [Threads -> Places] /\ mLock \in Threads \union {NoThread}
      /\ mImageCaptureLock \in Threads \union {NoThread} /\ halLock \in Threads \union {NoThread}
  BY DEF TypeOK
<1>00. NoThread \notin Threads
  BY NoThreadAssumption, ReturnersAssumption DEF Threads
<1> USE <1>0, <1>00, ThreadsKnown DEF LocksHeld, Goto, Free, Stopping, Starting, control, data, locks
<1>1. CASE TakePicture
  BY <1>1 DEF TakePicture
<1>2. CASE UseBuffersCapture
  BY <1>2 DEF UseBuffersCapture, UseBuffers
<1>3. CASE StartCommand
  BY <1>3 DEF StartCommand
<1>4. CASE StopRecording
  BY <1>4 DEF StopRecording
<1>5. CASE QueryState
  BY <1>5 DEF QueryState
<1>6. CASE GetCommand
  BY <1>6 DEF GetCommand
<1>7. CASE LockImageCapture
  BY <1>7 DEF LockImageCapture
<1>8. CASE GetNextState
  BY <1>8 DEF GetNextState
<1>9. CASE QueueImageBuffers
  BY <1>9 DEF QueueImageBuffers
<1>10. CASE WaitForShutter
  BY <1>10 DEF WaitForShutter
<1>11. CASE ShutterEvent
  BY <1>11 DEF ShutterEvent
<1>12. ASSUME NEW b \in Buffers, FillImage(b) PROVE LocksHeld'
  BY <1>12 DEF FillImage
<1>13. CASE TakeCallback
  BY <1>13 DEF TakeCallback
<1>14. CASE FillBufferDone
  BY <1>14 DEF FillBufferDone, ImageDone
<1>15. ASSUME NEW t \in Returners, NEW b \in Buffers, ReturnFrame(t, b) PROVE LocksHeld'
  BY <1>15 DEF ReturnFrame
<1>26. ASSUME NEW t \in Returners, FillThisBuffer(t) PROVE LocksHeld'
  BY <1>26 DEF FillThisBuffer
<1>16. ASSUME NEW t \in Returners, SignalEndImageCapture(t) PROVE LocksHeld'
  BY <1>16 DEF SignalEndImageCapture
<1>17. ASSUME NEW t \in Stoppers, StopCommand(t) PROVE LocksHeld'
  BY <1>17 DEF StopCommand
<1>18. ASSUME NEW t \in Stoppers, StopImageCapture(t) PROVE LocksHeld'
  BY <1>18 DEF StopImageCapture
<1>19. ASSUME NEW t \in Stoppers, CaptureDone(t) PROVE LocksHeld'
  BY <1>19 DEF CaptureDone
<1>20. ASSUME NEW t \in Stoppers, CaptureTimesOut(t) PROVE LocksHeld'
  BY <1>20 DEF CaptureTimesOut
<1>21. ASSUME NEW t \in Stoppers, DisableCapturing(t) PROVE LocksHeld'
  BY <1>21 DEF DisableCapturing
<1>22. ASSUME NEW t \in Stoppers, FlushBuffers(t) PROVE LocksHeld'
  BY <1>22 DEF FlushBuffers
<1>23. ASSUME NEW t \in Stoppers, FlushCallbacks(t) PROVE LocksHeld'
  BY <1>23 DEF FlushCallbacks
<1>24. ASSUME NEW t \in Stoppers, StopDone(t) PROVE LocksHeld'
  BY <1>24 DEF StopDone, CommitState
<1>25. CASE UNCHANGED vars
  BY <1>25 DEF vars
<1> QED
  BY <1>1, <1>2, <1>3, <1>4, <1>5, <1>6, <1>7, <1>8, <1>9, <1>10, <1>11, <1>12,
     <1>13, <1>14, <1>15, <1>16, <1>17, <1>18, <1>19, <1>20, <1>21, <1>22, <1>23, <1>24, <1>25, <1>26
  DEF Next, Application, Command, Component, Callback, Return, Stop

(* A thread holds mLock exactly from setState() to the commit of a stop, and  *)
(* mImageCaptureLock inside startImageCapture() and stopImageCapture().       *)
THEOREM LocksAreHeld == Spec => []LocksHeld
<1>1. TypeInv => TypeOK
  BY DEF TypeInv
<1> QED
  BY <1>1, TypeInit, TypeStep, LocksInit, LocksStep, PTL DEF Spec

(* Only one thread at a time is inside startImageCapture() or the part of     *)
(* stopImageCapture() that waits for the component and for the callbacks.     *)
CaptureExclusive ==
  \A t, u \in Threads :
    pc[t] \in Starting \union (Stopping \ {"unlock"}) /\ pc[u] \in Starting \union (Stopping \ {"unlock"}) => t = u

(* mImageCaptureLock excludes the threads from each other there.              *)
THEOREM CaptureIsExclusive == Spec => []CaptureExclusive
<1>1. LocksHeld => CaptureExclusive
  BY DEF LocksHeld, CaptureExclusive
<1> QED
  BY <1>1, LocksAreHeld, PTL

-----------------------------------------------------------------------------
(* The adapter's states and the places of the threads. Only the holder of    *)
(* mLock is between two states, from "capture" to "preview"; whoever queues  *)
(* images does so in a capture, because its end needs mImageCaptureLock.     *)
StatesAgree ==
  /\ mLock = NoThread => mNextState = mAdapterState
  /\ mLock # NoThread => mAdapterState = "capture" /\ mNextState = "preview"
  /\ mAdapterState = "loaded" <=> pc["app"] = "start"
  /\ pc["app"] = "use" => mAdapterState = "preview"
  /\ mAdapterState # "preview" => mCaptureConfigured
  /\ \A t \in Threads : pc[t] \in Stopping => mImageCaptureLock = t
  /\ pc["cmd"] \in {"queue", "shutter"} => mAdapterState = "capture"

LEMMA StatesInit == Init => StatesAgree
BY NoThreadAssumption, ThreadsKnown DEF Init, StatesAgree, Stopping

LEMMA StatesStep == TypeInv /\ LocksHeld /\ StatesAgree /\ [Next]_vars => StatesAgree'
<1> SUFFICES ASSUME TypeOK, PlacesOK, LocksHeld, StatesAgree, [Next]_vars PROVE StatesAgree'
  BY DEF TypeInv
<1>0. pc \in [Threads -> Places] /\ mLock \in Threads \union {NoThread}
      /\ mImageCaptureLock \in Threads \union {NoThread} /\ halLock \in Threads \union {NoThread}
      /\ mCaptureConfigured \in BOOLEAN
  BY DEF TypeOK
<1>00. NoThread \notin Threads
  BY NoThreadAssumption, ReturnersAssumption DEF Threads
<1> USE <1>0, <1>00, ThreadsKnown DEF LocksHeld, StatesAgree, Goto, Free, Stopping, Starting, control, data, locks, burst
<1>1. CASE TakePicture
  BY <1>1 DEF TakePicture
<1>2. CASE UseBuffersCapture
  BY <1>2 DEF UseBuffersCapture, UseBuffers
<1>3. CASE StartCommand
  BY <1>3 DEF StartCommand
<1>4. CASE StopRecording
  BY <1>4 DEF StopRecording
<1>5. CASE QueryState
  BY <1>5 DEF QueryState
<1>6. CASE GetCommand
  BY <1>6 DEF GetCommand
<1>7. CASE LockImageCapture
  BY <1>7 DEF LockImageCapture
<1>8. CASE GetNextState
  BY <1>8 DEF GetNextState
<1>9. CASE QueueImageBuffers
  BY <1>9 DEF QueueImageBuffers
<1>10. CASE WaitForShutter
  BY <1>10 DEF WaitForShutter
<1>11. CASE ShutterEvent
  BY <1>11 DEF ShutterEvent
<1>12. ASSUME NEW b \in Buffers, FillImage(b) PROVE StatesAgree'
  BY <1>12 DEF FillImage
<1>13. CASE TakeCallback
  BY <1>13 DEF TakeCallback
<1>14. CASE FillBufferDone
  BY <1>14 DEF FillBufferDone, ImageDone
<1>15. ASSUME NEW t \in Returners, NEW b \in Buffers, ReturnFrame(t, b) PROVE StatesAgree'
  BY <1>15 DEF ReturnFrame
<1>26. ASSUME NEW t \in Returners, FillThisBuffer(t) PROVE StatesAgree'
  BY <1>26 DEF FillThisBuffer
<1>16. ASSUME NEW t \in Returners, SignalEndImageCapture(t) PROVE StatesAgree'
  BY <1>16 DEF SignalEndImageCapture
<1>17. ASSUME NEW t \in Stoppers, StopCommand(t) PROVE StatesAgree'
  BY <1>17 DEF StopCommand
<1>18. ASSUME NEW t \in Stoppers, StopImageCapture(t) PROVE StatesAgree'
  BY <1>18 DEF StopImageCapture
<1>19. ASSUME NEW t \in Stoppers, CaptureDone(t) PROVE StatesAgree'
  BY <1>19 DEF CaptureDone
<1>20. ASSUME NEW t \in Stoppers, CaptureTimesOut(t) PROVE StatesAgree'
  BY <1>20 DEF CaptureTimesOut
<1>21. ASSUME NEW t \in Stoppers, DisableCapturing(t) PROVE StatesAgree'
  BY <1>21 DEF DisableCapturing
<1>22. ASSUME NEW t \in Stoppers, FlushBuffers(t) PROVE StatesAgree'
  BY <1>22 DEF FlushBuffers
<1>23. ASSUME NEW t \in Stoppers, FlushCallbacks(t) PROVE StatesAgree'
  BY <1>23 DEF FlushCallbacks
<1>24. ASSUME NEW t \in Stoppers, StopDone(t) PROVE StatesAgree'
  BY <1>24 DEF StopDone, CommitState
<1>25. CASE UNCHANGED vars
  BY <1>25 DEF vars
<1> QED
  BY <1>1, <1>2, <1>3, <1>4, <1>5, <1>6, <1>7, <1>8, <1>9, <1>10, <1>11, <1>12,
     <1>13, <1>14, <1>15, <1>16, <1>17, <1>18, <1>19, <1>20, <1>21, <1>22, <1>23, <1>24, <1>25, <1>26
  DEF Next, Application, Command, Component, Callback, Return, Stop

-----------------------------------------------------------------------------
(* Captures that come one by one. What is out of a capture is at one of:      *)
(* the component, the queue of OMXCallbackHandler, its hands, the             *)
(* application, the hands of a returner.  It is all in its place when a       *)
(* capture starts (Fresh), and a start message belongs to the last capture.   *)
Empty   == atComponent = {} /\ callbackQ = <<>> /\ cb.buffer = NoBuffer
AllBack == held = {} /\ \A t \in Returners : pc[t] = "idle"
Fresh   == Empty /\ AllBack /\ mCaptureSem = 0
Pending == commandQ # <<>> \/ pc["cmd"] \in {"lock", "next", "queue"}
Single  == Burst = 1 /\ ~plan.cancels
Over    == Stopping \ {"wait"}

Processed == mIsProcessed => callbackQ = <<>> /\ cb.buffer = NoBuffer

Numbers ==
  /\ commandQ = <<>> \/ commandQ = <<captures>>
  /\ job <= captures /\ captures <= plan.pictures
  /\ pc["cmd"] \in {"idle", "lock"} \union Starting
  /\ pc["cmd"] \in {"lock", "next", "queue"} => job = captures /\ commandQ = <<>>
  /\ \A n \in ended : n <= captures
  /\ mAdapterState = "capture" => captures > 0 /\ captures \notin ended
  /\ pc["app"] \in {"use", "start"} => captures < plan.pictures
  /\ ~plan.cancels => pc["app"] \in {"idle", "use", "start"}

(* Nothing is accumulated: a start finds no buffer of its capture queued.     *)
Counts ==
  /\ mBurstFramesQueued \in {0, Burst}
  /\ mCaptureConfigured => mBurstFramesAccum = Burst
  /\ mBurstFramesQueued # 0 => mCaptureConfigured
  /\ Pending => mBurstFramesQueued = 0
  /\ mBurstFramesQueued = 0 => Fresh
  /\ mAdapterState # "capture" /\ captures < plan.pictures => Fresh /\ ~Pending
  /\ mAdapterState = "loaded" => mBurstFramesQueued = 0 /\ mCapturedFrames = Burst

(* The end of a stop has emptied the component and the queue.                *)
Finished ==
  /\ \A t \in Threads : pc[t] \in {"check", "drain", "unlock"} => atComponent = {}
  /\ \A t \in Threads : pc[t] = "unlock" => Empty
  /\ mAdapterState # "capture" => Empty
  /\ cb.buffer # NoBuffer => cb.state = "capture"

Images ==
  /\ atComponent \subseteq plan.images /\ held \subseteq plan.images
  /\ callbackQ \in Seq(plan.images)
  /\ cb.buffer \in plan.images \union {NoBuffer}

(* Where a single image is, it is the only one, and nobody else is busy.      *)
AtOnePlace ==
  /\ atComponent # {} => callbackQ = <<>> /\ cb.buffer = NoBuffer /\ AllBack
  /\ callbackQ # <<>> => cb.buffer = NoBuffer /\ AllBack /\ Len(callbackQ) = 1
  /\ cb.buffer # NoBuffer => AllBack
  /\ held # {} => \A t \in Returners : pc[t] = "idle"
  /\ \A t, u \in Returners : pc[t] # "idle" /\ pc[u] # "idle" => t = u
  /\ ~Empty => mCapturedFrames = 1
  /\ ~AllBack => mCapturedFrames = 0 /\ mAdapterState = "capture"
OneOut == Single => AtOnePlace

(* The token of a capture that nobody stops: there from its first image until *)
(* the wait of its stop, which does not begin before its last one.            *)
Signals == ~plan.cancels =>
  /\ mAdapterState # "capture" => mCaptureSem = 0
  /\ mAdapterState = "capture" /\ mBurstFramesQueued # 0 /\ ~mCaptureSignalled =>
       mCaptureSem = 0 /\ mCapturedFrames = Burst
  /\ mAdapterState = "capture" /\ mBurstFramesQueued # 0 /\ mCaptureSignalled =>
       /\ (\A t \in Returners : pc[t] \notin Over) => mCaptureSem = 1
       /\ \A t \in Returners : pc[t] \in Over => mCaptureSem = 0
  /\ \A t \in Returners : mAdapterState = "capture" /\ pc[t] \notin {"idle", "fill"} => mCapturedFrames = 0
  /\ mAdapterState # "preview" /\ mBurstFramesQueued = 0 => mCapturedFrames = Burst

(* What the application gets of them.                                         *)
Owed == ~plan.cancels =>
  /\ mAdapterState # "capture" => delivered = captures * Burst
  /\ mAdapterState = "capture" => delivered + mCapturedFrames = captures * Burst

OneByOneInv == Processed /\ Numbers /\ Counts /\ Finished /\ Images /\ OneOut /\ Signals /\ Owed

LEMMA PlanStep == [Next]_vars => plan' = plan
BY DEF Next, vars, Application, Command, Component, Callback, Return, Stop, history, data, control,
       TakePicture, UseBuffersCapture, UseBuffers, StartCommand, StopRecording, QueryState, GetCommand,
       LockImageCapture, GetNextState, QueueImageBuffers, WaitForShutter, ShutterEvent, FillImage,
       TakeCallback, FillBufferDone, ImageDone, ReturnFrame, FillThisBuffer, SignalEndImageCapture,
       StopCommand, StopImageCapture, CaptureDone, CaptureTimesOut, DisableCapturing, FlushBuffers,
       FlushCallbacks, StopDone

LEMMA BurstPositive == ASSUME plan \in Plans PROVE Burst \in Nat /\ Burst >= 1 /\ plan.images \subseteq Buffers
<1>0. plan \in PlanType
  BY PlansAssumption
<1>1. plan.images \subseteq Buffers /\ plan.images # {}
  BY <1>0 DEF PlanType
<1>2. IsFiniteSet(plan.images)
  BY <1>1, BuffersAssumption, FS_Subset
<1> QED
  BY <1>1, <1>2, FS_CardinalityType, FS_EmptySet DEF Burst

LEMMA SingleImage == ASSUME plan \in Plans, Burst = 1 PROVE \E b \in Buffers : plan.images = {b}
<1>1. plan.images \subseteq Buffers /\ IsFiniteSet(plan.images)
  BY BurstPositive, BuffersAssumption, FS_Subset
<1> QED
  BY <1>1, FS_Singleton DEF Burst

(* Sequences of one element.                                                 *)
LEMMA OneElement ==
  \A x : /\ Append(<<>>, x) = <<x>> /\ Head(<<x>>) = x /\ Tail(<<x>>) = <<>>
         /\ <<x>> # <<>> /\ Len(<<x>>) = 1 /\ <<>> \o <<x>> = <<x>>
OBVIOUS

(* What every step of the invariant may use.                                 *)
LEMMA Common ==
  ASSUME TypeInv, LocksHeld, StatesAgree, OneByOneInv, OneByOne, [Next]_vars
  PROVE  /\ pc \in [Threads -> Places] /\ mLock \in Threads \union {NoThread}
         /\ mImageCaptureLock \in Threads \union {NoThread} /\ halLock \in Threads \union {NoThread}
         /\ NoThread \notin Threads /\ plan' = plan /\ Burst' = Burst
         /\ Burst \in Nat /\ Burst >= 1 /\ plan.images \subseteq Buffers /\ NoBuffer \notin Buffers
         /\ job \in Nat /\ captures \in Nat /\ plan.pictures \in Nat /\ ended \subseteq Nat
         /\ mCapturedFrames \in Nat /\ mCaptureSem \in Nat
         /\ mBurstFramesQueued \in Nat /\ mBurstFramesAccum \in Nat
<1>1. plan' = plan
  BY PlanStep
<1>2. NoThread \notin Threads
  BY NoThreadAssumption, ReturnersAssumption DEF Threads
<1>3. Burst \in Nat /\ Burst >= 1 /\ plan.images \subseteq Buffers /\ plan.pictures \in Nat
  BY BurstPositive, PlansAssumption DEF TypeInv, TypeOK, PlanType
<1> QED
  BY <1>1, <1>2, <1>3, BuffersAssumption DEF TypeInv, TypeOK, Burst

LEMMA NumbersStep ==
  ASSUME TypeInv, LocksHeld, StatesAgree, OneByOneInv, OneByOne, [Next]_vars
  PROVE  Numbers'
<1> USE Common, ThreadsKnown DEF OneByOneInv, Numbers, Counts, Pending, LocksHeld, StatesAgree, Goto, Free, Stopping, Starting, control, data, locks, requests, burst, signals, component, callbacks, client, history
<1>1. CASE TakePicture
  BY <1>1 DEF TakePicture
<1>2. CASE UseBuffersCapture
  BY <1>2 DEF UseBuffersCapture, UseBuffers
<1>3. CASE StartCommand
  <2>1. mAdapterState = "loaded" /\ captures < plan.pictures /\ ~Pending
    BY <1>3 DEF StartCommand
  <2>2. commandQ' = <<captures'>> /\ captures' = captures + 1
    BY <1>3, <2>1, OneElement DEF StartCommand
  <2>3. /\ job' = job /\ ended' = ended /\ pc'["cmd"] = pc["cmd"] /\ pc'["app"] = "idle"
        /\ pc["cmd"] \notin {"lock", "next", "queue"}
    BY <1>3, <2>1 DEF StartCommand
  <2> HIDE DEF Pending, Counts
  <2> QED
    BY <2>1, <2>2, <2>3
<1>4. CASE StopRecording
  BY <1>4 DEF StopRecording
<1>5. CASE QueryState
  BY <1>5 DEF QueryState
<1>6. CASE GetCommand
  <2>1. commandQ = <<captures>>
    BY <1>6 DEF GetCommand
  <2>2. job' = captures /\ commandQ' = <<>>
    BY <1>6, <2>1, OneElement DEF GetCommand
  <2>3. pc'["cmd"] = "lock" /\ pc'["app"] = pc["app"]
    BY <1>6 DEF GetCommand
  <2>4. UNCHANGED <<captures, ended, mAdapterState>>
    BY <1>6 DEF GetCommand
  <2> HIDE DEF Pending, Counts
  <2> QED
    BY <2>2, <2>3, <2>4
<1>7. CASE LockImageCapture
  BY <1>7 DEF LockImageCapture
<1>8. CASE GetNextState
  BY <1>8 DEF GetNextState
<1>9. CASE QueueImageBuffers
  BY <1>9 DEF QueueImageBuffers
<1>10. CASE WaitForShutter
  BY <1>10 DEF WaitForShutter
<1>11. CASE ShutterEvent
  BY <1>11 DEF ShutterEvent
<1>12. ASSUME NEW b \in Buffers, FillImage(b) PROVE Numbers'
  BY <1>12 DEF FillImage
<1>13. CASE TakeCallback
  BY <1>13 DEF TakeCallback
<1>14. CASE FillBufferDone
  BY <1>14 DEF FillBufferDone, ImageDone
<1>15. ASSUME NEW t \in Returners, NEW b \in Buffers, ReturnFrame(t, b) PROVE Numbers'
  BY <1>15 DEF ReturnFrame
<1>26. ASSUME NEW t \in Returners, FillThisBuffer(t) PROVE Numbers'
  BY <1>26 DEF FillThisBuffer
<1>16. ASSUME NEW t \in Returners, SignalEndImageCapture(t) PROVE Numbers'
  BY <1>16 DEF SignalEndImageCapture
<1>17. ASSUME NEW t \in Stoppers, StopCommand(t) PROVE Numbers'
  BY <1>17 DEF StopCommand
<1>18. ASSUME NEW t \in Stoppers, StopImageCapture(t) PROVE Numbers'
  BY <1>18 DEF StopImageCapture
<1>19. ASSUME NEW t \in Stoppers, CaptureDone(t) PROVE Numbers'
  BY <1>19 DEF CaptureDone
<1>20. ASSUME NEW t \in Stoppers, CaptureTimesOut(t) PROVE Numbers'
  BY <1>20 DEF CaptureTimesOut
<1>21. ASSUME NEW t \in Stoppers, DisableCapturing(t) PROVE Numbers'
  BY <1>21 DEF DisableCapturing
<1>22. ASSUME NEW t \in Stoppers, FlushBuffers(t) PROVE Numbers'
  BY <1>22 DEF FlushBuffers
<1>23. ASSUME NEW t \in Stoppers, FlushCallbacks(t) PROVE Numbers'
  BY <1>23 DEF FlushCallbacks
<1>24. ASSUME NEW t \in Stoppers, StopDone(t) PROVE Numbers'
  BY <1>24 DEF StopDone, CommitState
<1>25. CASE UNCHANGED vars
  BY <1>25 DEF vars
<1> QED
  BY <1>1, <1>2, <1>3, <1>4, <1>5, <1>6, <1>7, <1>8, <1>9, <1>10, <1>11, <1>12,
     <1>13, <1>14, <1>15, <1>16, <1>17, <1>18, <1>19, <1>20, <1>21, <1>22, <1>23, <1>24, <1>25, <1>26
  DEF Next, Application, Command, Component, Callback, Return, Stop

LEMMA ProcessedStep ==
  ASSUME TypeInv, LocksHeld, StatesAgree, OneByOneInv, OneByOne, [Next]_vars
  PROVE  Processed'
<1> USE Common, ThreadsKnown DEF OneByOneInv, Processed, Goto, Free, Stopping, Starting, control, data, locks, requests, burst, signals, component, callbacks, client, history, Put
<1>1. CASE TakePicture
  BY <1>1 DEF TakePicture
<1>2. CASE UseBuffersCapture
  BY <1>2 DEF UseBuffersCapture, UseBuffers
<1>3. CASE StartCommand
  BY <1>3 DEF StartCommand
<1>4. CASE StopRecording
  BY <1>4 DEF StopRecording
<1>5. CASE QueryState
  BY <1>5 DEF QueryState
<1>6. CASE GetCommand
  BY <1>6 DEF GetCommand
<1>7. CASE LockImageCapture
  BY <1>7 DEF LockImageCapture
<1>8. CASE GetNextState
  BY <1>8 DEF GetNextState
<1>9. CASE QueueImageBuffers
  BY <1>9 DEF QueueImageBuffers
<1>10. CASE WaitForShutter
  BY <1>10 DEF WaitForShutter
<1>11. CASE ShutterEvent
  BY <1>11 DEF ShutterEvent
<1>12. ASSUME NEW b \in Buffers, FillImage(b) PROVE Processed'
  BY <1>12 DEF FillImage
<1>13. CASE TakeCallback
  BY <1>13 DEF TakeCallback
<1>14. CASE FillBufferDone
  <2>1. mIsProcessed' = (callbackQ = <<>>) /\ callbackQ' = callbackQ /\ cb'.buffer = NoBuffer
    BY <1>14, Common DEF FillBufferDone, ImageDone, TypeInv, TypeOK
  <2> QED
    BY <2>1
<1>15. ASSUME NEW t \in Returners, NEW b \in Buffers, ReturnFrame(t, b) PROVE Processed'
  BY <1>15 DEF ReturnFrame
<1>26. ASSUME NEW t \in Returners, FillThisBuffer(t) PROVE Processed'
  BY <1>26 DEF FillThisBuffer
<1>16. ASSUME NEW t \in Returners, SignalEndImageCapture(t) PROVE Processed'
  BY <1>16 DEF SignalEndImageCapture
<1>17. ASSUME NEW t \in Stoppers, StopCommand(t) PROVE Processed'
  BY <1>17 DEF StopCommand
<1>18. ASSUME NEW t \in Stoppers, StopImageCapture(t) PROVE Processed'
  BY <1>18 DEF StopImageCapture
<1>19. ASSUME NEW t \in Stoppers, CaptureDone(t) PROVE Processed'
  BY <1>19 DEF CaptureDone
<1>20. ASSUME NEW t \in Stoppers, CaptureTimesOut(t) PROVE Processed'
  BY <1>20 DEF CaptureTimesOut
<1>21. ASSUME NEW t \in Stoppers, DisableCapturing(t) PROVE Processed'
  BY <1>21 DEF DisableCapturing
<1>22. ASSUME NEW t \in Stoppers, FlushBuffers(t) PROVE Processed'
  <2>1. PICK images \in SetToSeqs(atComponent) : Put(images)
    BY <1>22 DEF FlushBuffers
  <2>2. cb' = cb
    BY <1>22 DEF FlushBuffers
  <2>3. images = <<>> => callbackQ' = callbackQ
    <3>1. callbackQ \in Seq(Buffers)
      BY DEF TypeInv, TypeOK
    <3> QED
      BY <2>1, <3>1 DEF Put
  <2> QED
    BY <2>1, <2>2, <2>3 DEF Put
<1>23. ASSUME NEW t \in Stoppers, FlushCallbacks(t) PROVE Processed'
  BY <1>23 DEF FlushCallbacks
<1>24. ASSUME NEW t \in Stoppers, StopDone(t) PROVE Processed'
  BY <1>24 DEF StopDone, CommitState
<1>25. CASE UNCHANGED vars
  BY <1>25 DEF vars
<1> QED
  BY <1>1, <1>2, <1>3, <1>4, <1>5, <1>6, <1>7, <1>8, <1>9, <1>10, <1>11, <1>12,
     <1>13, <1>14, <1>15, <1>16, <1>17, <1>18, <1>19, <1>20, <1>21, <1>22, <1>23, <1>24, <1>25, <1>26
  DEF Next, Application, Command, Component, Callback, Return, Stop

LEMMA LongerQueue == ASSUME NEW S, NEW q \in Seq(S), NEW b \in S PROVE q \o <<b>> \in Seq(S)
OBVIOUS

(* What the flush puts into the queue in such a capture.                      *)
LEMMA FlushedPlanned ==
  ASSUME plan \in Plans, Images, NEW images \in SetToSeqs(atComponent)
  PROVE  images \in Seq(plan.images) /\ (atComponent = {} => images = <<>>)
<1>1. atComponent \subseteq Buffers /\ atComponent \subseteq plan.images
  BY BurstPositive DEF Images
<1>2. IsFiniteSet(atComponent)
  BY <1>1, BuffersAssumption, FS_Subset
<1>3. images \in [1..Cardinality(atComponent) -> atComponent]
  BY DEF SetToSeqs
<1>4. Cardinality(atComponent) \in Nat /\ (atComponent = {} => Cardinality(atComponent) = 0)
  BY <1>2, FS_CardinalityType, FS_EmptySet
<1>5. images \in Seq(atComponent)
  BY <1>3, <1>4
<1>6. images \in Seq(plan.images)
  BY <1>1, <1>3, <1>4
<1>7. ASSUME atComponent = {} PROVE images = <<>>
  <2>1. Len(images) = 0
    BY <1>3, <1>4, <1>7
  <2> QED
    BY <2>1, <1>5
<1> QED
  BY <1>6, <1>7

(* The command handler queues the images of a fresh capture.                 *)
LEMMA QueuesAll ==
  ASSUME TypeInv, LocksHeld, StatesAgree, OneByOneInv, QueueImageBuffers
  PROVE  QueueAll /\ Fresh /\ mAdapterState = "capture" /\ mCaptureConfigured /\ ~Pending'
<1>1. Pending /\ Fresh /\ mBurstFramesQueued = 0
  BY DEF OneByOneInv, Counts, Pending, QueueImageBuffers
<1>2. QueueAll
  BY <1>1 DEF QueueImageBuffers
<1>3. mAdapterState = "capture" /\ mCaptureConfigured
  BY DEF StatesAgree, QueueImageBuffers
<1>4. commandQ = <<>> /\ commandQ' = commandQ /\ pc'["cmd"] \in {"shutter", "idle"}
  BY ThreadsKnown DEF QueueImageBuffers, OneByOneInv, Numbers, requests, TypeInv, TypeOK, Goto
<1>5. ~Pending'
  BY <1>4 DEF Pending
<1> QED
  BY <1>1, <1>2, <1>3, <1>5

(* A returner that finds an image expected does not queue its buffer.         *)
LEMMA NoneQueued ==
  ASSUME TypeInv, OneByOneInv, NEW t \in Returners, FillThisBuffer(t)
  PROVE  UNCHANGED <<mBurstFramesQueued, atComponent>> /\ mBurstFramesQueued # 0
<1>1. mBurstFramesQueued # 0
  BY DEF OneByOneInv, Counts, Fresh, AllBack, FillThisBuffer
<1>2. mBurstFramesQueued >= mBurstFramesAccum
  BY <1>1, BurstPositive DEF OneByOneInv, Counts, TypeInv, TypeOK
<1> QED
  BY <1>1, <1>2 DEF FillThisBuffer


LEMMA CountsStep ==
  ASSUME TypeInv, LocksHeld, StatesAgree, OneByOneInv, OneByOne, [Next]_vars
  PROVE  Counts'
<1> USE Common, ThreadsKnown DEF OneByOneInv, Numbers, Counts, Pending, Fresh, Empty, AllBack, Finished, LocksHeld, StatesAgree, Goto, Free, Stopping, Starting, control, data, locks, requests, burst, signals, component, callbacks, client, history
<1>1. CASE TakePicture
  BY <1>1 DEF TakePicture
<1>2. CASE UseBuffersCapture
  BY <1>2 DEF UseBuffersCapture, UseBuffers
<1>3. CASE StartCommand
  BY <1>3 DEF StartCommand
<1>4. CASE StopRecording
  BY <1>4 DEF StopRecording
<1>5. CASE QueryState
  BY <1>5 DEF QueryState
<1>6. CASE GetCommand
  BY <1>6 DEF GetCommand
<1>7. CASE LockImageCapture
  BY <1>7 DEF LockImageCapture
<1>8. CASE GetNextState
  BY <1>8 DEF GetNextState
<1>9. CASE QueueImageBuffers
  <2>1. QueueAll /\ mAdapterState = "capture" /\ mCaptureConfigured /\ ~Pending'
    BY <1>9, QueuesAll
  <2>2. mBurstFramesQueued' = Burst /\ UNCHANGED <<mCaptureConfigured, mBurstFramesAccum, mAdapterState, captures>>
    BY <1>9, <2>1 DEF QueueImageBuffers, QueueAll
  <2> HIDE DEF Pending, Fresh
  <2> QED
    BY <2>1, <2>2
<1>10. CASE WaitForShutter
  BY <1>10 DEF WaitForShutter
<1>11. CASE ShutterEvent
  BY <1>11 DEF ShutterEvent
<1>12. ASSUME NEW b \in Buffers, FillImage(b) PROVE Counts'
  BY <1>12 DEF FillImage
<1>13. CASE TakeCallback
  BY <1>13 DEF TakeCallback
<1>14. CASE FillBufferDone
  BY <1>14 DEF FillBufferDone, ImageDone
<1>15. ASSUME NEW t \in Returners, NEW b \in Buffers, ReturnFrame(t, b) PROVE Counts'
  BY <1>15 DEF ReturnFrame
<1>26. ASSUME NEW t \in Returners, FillThisBuffer(t) PROVE Counts'
  BY <1>26 DEF FillThisBuffer
<1>16. ASSUME NEW t \in Returners, SignalEndImageCapture(t) PROVE Counts'
  BY <1>16 DEF SignalEndImageCapture
<1>17. ASSUME NEW t \in Stoppers, StopCommand(t) PROVE Counts'
  BY <1>17 DEF StopCommand
<1>18. ASSUME NEW t \in Stoppers, StopImageCapture(t) PROVE Counts'
  BY <1>18 DEF StopImageCapture
<1>19. ASSUME NEW t \in Stoppers, CaptureDone(t) PROVE Counts'
  BY <1>19 DEF CaptureDone
<1>20. ASSUME NEW t \in Stoppers, CaptureTimesOut(t) PROVE Counts'
  BY <1>20 DEF CaptureTimesOut
<1>21. ASSUME NEW t \in Stoppers, DisableCapturing(t) PROVE Counts'
  BY <1>21 DEF DisableCapturing
<1>22. ASSUME NEW t \in Stoppers, FlushBuffers(t) PROVE Counts'
  <2>1. PICK images \in SetToSeqs(atComponent) : Put(images)
    BY <1>22 DEF FlushBuffers
  <2>2. callbackQ \in Seq(plan.images) /\ (atComponent = {} => images = <<>>)
    BY <2>1, FlushedPlanned DEF TypeInv, TypeOK, Images
  <2>3. Empty => Empty'
    BY <1>22, <2>1, <2>2 DEF FlushBuffers, Put
  <2>4. AllBack => AllBack'
    <3>1. t # "cmd" /\ pc[t] = "flush" /\ pc' = [pc EXCEPT ![t] = "check"] /\ held' = held
      BY <1>22, NoThreadAssumption, ReturnersAssumption DEF FlushBuffers, Stoppers
    <3> QED
      BY <3>1
  <2>5. Pending' <=> Pending
    BY <1>22, ReturnersAssumption DEF FlushBuffers, Stoppers
  <2>6. UNCHANGED <<mCaptureSem, burst, mAdapterState, captures>>
    BY <1>22 DEF FlushBuffers
  <2>7. Fresh => Fresh'
    BY <2>3, <2>4, <2>6
  <2> HIDE DEF Pending, Fresh
  <2> QED
    BY <2>5, <2>6, <2>7
<1>23. ASSUME NEW t \in Stoppers, FlushCallbacks(t) PROVE Counts'
  BY <1>23 DEF FlushCallbacks
<1>24. ASSUME NEW t \in Stoppers, StopDone(t) PROVE Counts'
  <2>1. mAdapterState = "capture" /\ mAdapterState' = "preview" /\ Empty /\ captures > 0
    BY <1>24 DEF StopDone, CommitState
  <2>2. UNCHANGED <<callbackQ, cb, atComponent, held, mCaptureSem, burst, captures, commandQ>>
    BY <1>24 DEF StopDone
  <2>3. pc' = [pc EXCEPT ![t] = "idle"] /\ pc[t] = "unlock" /\ t # "cmd"
    BY <1>24, ReturnersAssumption DEF StopDone, Stoppers
  <2>4. Pending' <=> Pending
    BY <2>2, <2>3
  <2>5. Fresh => Fresh'
    BY <2>2, <2>3
  <2>6. ASSUME captures < plan.pictures PROVE Fresh' /\ ~Pending
    <3>1. Single /\ ~plan.cancels
      BY <2>6, <2>1 DEF OneByOne, Single
    <3>2. t \in Returners
      BY <2>3, <3>1 DEF Stoppers
    <3>3. held = {} /\ \A u \in Returners : u # t => pc[u] = "idle"
      BY <2>3, <3>1, <3>2 DEF OneOut, AtOnePlace
    <3>4. AllBack'
      BY <2>2, <2>3, <3>3
    <3>5. mBurstFramesQueued # 0 /\ ~Pending
      BY <2>3, <3>2
    <3>6. mCapturedFrames = 0
      BY <2>1, <2>3, <3>1, <3>2 DEF Signals
    <3>7. mCaptureSem = 0
      BY <2>1, <2>3, <3>1, <3>2, <3>5, <3>6 DEF Signals, Over, TypeInv, TypeOK
    <3> QED
      BY <2>1, <2>2, <3>4, <3>5, <3>7
  <2> HIDE DEF Pending, Fresh
  <2> QED
    BY <2>1, <2>2, <2>4, <2>5, <2>6
<1>25. CASE UNCHANGED vars
  BY <1>25 DEF vars
<1> QED
  BY <1>1, <1>2, <1>3, <1>4, <1>5, <1>6, <1>7, <1>8, <1>9, <1>10, <1>11, <1>12,
     <1>13, <1>14, <1>15, <1>16, <1>17, <1>18, <1>19, <1>20, <1>21, <1>22, <1>23, <1>24, <1>25, <1>26
  DEF Next, Application, Command, Component, Callback, Return, Stop

LEMMA FinishedStep ==
  ASSUME TypeInv, LocksHeld, StatesAgree, OneByOneInv, OneByOne, [Next]_vars
  PROVE  Finished'
<1> USE Common, ThreadsKnown DEF OneByOneInv, Processed, Counts, Finished, Pending, Fresh, Empty, AllBack, LocksHeld, StatesAgree, Goto, Free, Stopping, Starting, control, data, locks, requests, burst, signals, component, callbacks, client, history, Put
<1>1. CASE TakePicture
  BY <1>1 DEF TakePicture
<1>2. CASE UseBuffersCapture
  BY <1>2 DEF UseBuffersCapture, UseBuffers
<1>3. CASE StartCommand
  BY <1>3 DEF StartCommand
<1>4. CASE StopRecording
  BY <1>4 DEF StopRecording
<1>5. CASE QueryState
  BY <1>5 DEF QueryState
<1>6. CASE GetCommand
  BY <1>6 DEF GetCommand
<1>7. CASE LockImageCapture
  BY <1>7 DEF LockImageCapture
<1>8. CASE GetNextState
  BY <1>8 DEF GetNextState
<1>9. CASE QueueImageBuffers
  BY <1>9 DEF QueueImageBuffers
<1>10. CASE WaitForShutter
  BY <1>10 DEF WaitForShutter
<1>11. CASE ShutterEvent
  BY <1>11 DEF ShutterEvent
<1>12. ASSUME NEW b \in Buffers, FillImage(b) PROVE Finished'
  BY <1>12 DEF FillImage
<1>13. CASE TakeCallback
  BY <1>13 DEF TakeCallback
<1>14. CASE FillBufferDone
  BY <1>14 DEF FillBufferDone, ImageDone
<1>15. ASSUME NEW t \in Returners, NEW b \in Buffers, ReturnFrame(t, b) PROVE Finished'
  BY <1>15 DEF ReturnFrame
<1>26. ASSUME NEW t \in Returners, FillThisBuffer(t) PROVE Finished'
  BY <1>26 DEF FillThisBuffer
<1>16. ASSUME NEW t \in Returners, SignalEndImageCapture(t) PROVE Finished'
  BY <1>16 DEF SignalEndImageCapture
<1>17. ASSUME NEW t \in Stoppers, StopCommand(t) PROVE Finished'
  BY <1>17 DEF StopCommand
<1>18. ASSUME NEW t \in Stoppers, StopImageCapture(t) PROVE Finished'
  BY <1>18 DEF StopImageCapture
<1>19. ASSUME NEW t \in Stoppers, CaptureDone(t) PROVE Finished'
  BY <1>19 DEF CaptureDone
<1>20. ASSUME NEW t \in Stoppers, CaptureTimesOut(t) PROVE Finished'
  BY <1>20 DEF CaptureTimesOut
<1>21. ASSUME NEW t \in Stoppers, DisableCapturing(t) PROVE Finished'
  BY <1>21 DEF DisableCapturing
<1>22. ASSUME NEW t \in Stoppers, FlushBuffers(t) PROVE Finished'
  BY <1>22 DEF FlushBuffers
<1>23. ASSUME NEW t \in Stoppers, FlushCallbacks(t) PROVE Finished'
  BY <1>23 DEF FlushCallbacks
<1>24. ASSUME NEW t \in Stoppers, StopDone(t) PROVE Finished'
  BY <1>24 DEF StopDone, CommitState
<1>25. CASE UNCHANGED vars
  BY <1>25 DEF vars
<1> QED
  BY <1>1, <1>2, <1>3, <1>4, <1>5, <1>6, <1>7, <1>8, <1>9, <1>10, <1>11, <1>12,
     <1>13, <1>14, <1>15, <1>16, <1>17, <1>18, <1>19, <1>20, <1>21, <1>22, <1>23, <1>24, <1>25, <1>26
  DEF Next, Application, Command, Component, Callback, Return, Stop

LEMMA ImagesStep ==
  ASSUME TypeInv, LocksHeld, StatesAgree, OneByOneInv, OneByOne, [Next]_vars
  PROVE  Images'
<1> USE Common, ThreadsKnown DEF OneByOneInv, Images, Counts, Pending, Fresh, Empty, Goto, Free, Stopping, Starting, control, data, locks, requests, burst, signals, component, callbacks, client, history, Put
<1>1. CASE TakePicture
  BY <1>1 DEF TakePicture
<1>2. CASE UseBuffersCapture
  BY <1>2 DEF UseBuffersCapture, UseBuffers
<1>3. CASE StartCommand
  BY <1>3 DEF StartCommand
<1>4. CASE StopRecording
  BY <1>4 DEF StopRecording
<1>5. CASE QueryState
  BY <1>5 DEF QueryState
<1>6. CASE GetCommand
  BY <1>6 DEF GetCommand
<1>7. CASE LockImageCapture
  BY <1>7 DEF LockImageCapture
<1>8. CASE GetNextState
  BY <1>8 DEF GetNextState
<1>9. CASE QueueImageBuffers
  <2>1. QueueAll
    BY <1>9, QueuesAll
  <2> QED
    BY <1>9, <2>1 DEF QueueImageBuffers, QueueAll
<1>10. CASE WaitForShutter
  BY <1>10 DEF WaitForShutter
<1>11. CASE ShutterEvent
  BY <1>11 DEF ShutterEvent
<1>12. ASSUME NEW b \in Buffers, FillImage(b) PROVE Images'
  <2>1. b \in plan.images /\ callbackQ' = callbackQ \o <<b>> /\ callbackQ \in Seq(plan.images)
    BY <1>12 DEF FillImage
  <2>2. callbackQ' \in Seq(plan.images)
    BY <2>1, LongerQueue
  <2> QED
    BY <1>12, <2>2 DEF FillImage
<1>13. CASE TakeCallback
  BY <1>13 DEF TakeCallback
<1>14. CASE FillBufferDone
  BY <1>14 DEF FillBufferDone, ImageDone
<1>15. ASSUME NEW t \in Returners, NEW b \in Buffers, ReturnFrame(t, b) PROVE Images'
  BY <1>15 DEF ReturnFrame
<1>26. ASSUME NEW t \in Returners, FillThisBuffer(t) PROVE Images'
  <2>1. atComponent' = atComponent
    BY <1>26, NoneQueued
  <2> QED
    BY <1>26, <2>1 DEF FillThisBuffer
<1>16. ASSUME NEW t \in Returners, SignalEndImageCapture(t) PROVE Images'
  BY <1>16 DEF SignalEndImageCapture
<1>17. ASSUME NEW t \in Stoppers, StopCommand(t) PROVE Images'
  BY <1>17 DEF StopCommand
<1>18. ASSUME NEW t \in Stoppers, StopImageCapture(t) PROVE Images'
  BY <1>18 DEF StopImageCapture
<1>19. ASSUME NEW t \in Stoppers, CaptureDone(t) PROVE Images'
  BY <1>19 DEF CaptureDone
<1>20. ASSUME NEW t \in Stoppers, CaptureTimesOut(t) PROVE Images'
  BY <1>20 DEF CaptureTimesOut
<1>21. ASSUME NEW t \in Stoppers, DisableCapturing(t) PROVE Images'
  BY <1>21 DEF DisableCapturing
<1>22. ASSUME NEW t \in Stoppers, FlushBuffers(t) PROVE Images'
  <2>1. PICK images \in SetToSeqs(atComponent) : Put(images)
    BY <1>22 DEF FlushBuffers
  <2>2. callbackQ \in Seq(plan.images) /\ images \in Seq(plan.images)
    BY <2>1, FlushedPlanned DEF TypeInv, TypeOK
  <2>3. callbackQ' \in Seq(plan.images)
    BY <2>1, <2>2
  <2> QED
    BY <1>22, <2>3 DEF FlushBuffers
<1>23. ASSUME NEW t \in Stoppers, FlushCallbacks(t) PROVE Images'
  BY <1>23 DEF FlushCallbacks
<1>24. ASSUME NEW t \in Stoppers, StopDone(t) PROVE Images'
  BY <1>24 DEF StopDone, CommitState
<1>25. CASE UNCHANGED vars
  BY <1>25 DEF vars
<1> QED
  BY <1>1, <1>2, <1>3, <1>4, <1>5, <1>6, <1>7, <1>8, <1>9, <1>10, <1>11, <1>12,
     <1>13, <1>14, <1>15, <1>16, <1>17, <1>18, <1>19, <1>20, <1>21, <1>22, <1>23, <1>24, <1>25, <1>26
  DEF Next, Application, Command, Component, Callback, Return, Stop

LEMMA SingleUntouched ==
  ASSUME AtOnePlace, UNCHANGED <<atComponent, callbackQ, cb, held, mCapturedFrames>>,
         \A t \in Returners : pc'[t] = pc[t], mAdapterState' = mAdapterState \/ AllBack
  PROVE  AtOnePlace'
BY DEF AtOnePlace, AllBack, Empty

LEMMA SingleMoves ==
  ASSUME AtOnePlace, pc \in [Threads -> Places], NEW t \in Returners, NEW l, pc[t] # "idle", Goto(t, l),
         UNCHANGED <<atComponent, callbackQ, cb, held, mCapturedFrames>>,
         mAdapterState' = mAdapterState \/ l = "idle"
  PROVE  AtOnePlace'
<1>1. Empty /\ held = {} /\ mCapturedFrames = 0 /\ mAdapterState = "capture"
  BY DEF AtOnePlace, AllBack, Empty
<1>2. \A u \in Returners : u # t => pc[u] = "idle"
  BY DEF AtOnePlace
<1>3. \A u \in Returners : u # t => pc'[u] = "idle"
  BY <1>2, ThreadsKnown DEF Goto
<1>4. pc'[t] = l
  BY ThreadsKnown DEF Goto
<1>5. l = "idle" => AllBack'
  BY <1>1, <1>3, <1>4 DEF AllBack
<1> QED
  BY <1>1, <1>3, <1>5 DEF AtOnePlace, Empty, AllBack

(* Nobody but a returner stops such a capture.                               *)
LEMMA SingleStopper ==
  ASSUME OneByOneInv, Single, NEW t \in Stoppers, pc[t] \in Stopping \union {"stop", "stop_capture"}
  PROVE  t \in Returners /\ pc[t] # "idle" /\ atComponent = {}
<1>1. t \in Returners /\ pc[t] # "idle"
  BY DEF OneByOneInv, Numbers, Stoppers, Stopping, Single
<1> QED
  BY <1>1 DEF OneByOneInv, OneOut, AtOnePlace, AllBack

LEMMA OneOutStep ==
  ASSUME TypeInv, LocksHeld, StatesAgree, OneByOneInv, OneByOne, [Next]_vars
  PROVE  OneOut'
<1> SUFFICES ASSUME Single PROVE AtOnePlace'
  BY Common DEF OneOut, Single
<1>s. PICK image \in Buffers : plan.images = {image}
  BY SingleImage DEF Single, TypeInv, TypeOK
<1>0. AtOnePlace /\ Images /\ Counts /\ Numbers /\ Finished /\ Signals
  BY DEF OneByOneInv, OneOut
<1> USE Common, ThreadsKnown, <1>0 DEF Goto, Free, Stopping, Starting, control, data, locks, requests, burst, signals, component, callbacks, client, history
<1>1. CASE TakePicture
  <2>1. UNCHANGED <<atComponent, callbackQ, cb, held, mCapturedFrames>>
    BY <1>1 DEF TakePicture
  <2>2. \A t \in Returners : pc'[t] = pc[t]
    BY <1>1 DEF TakePicture
  <2>3. mAdapterState' = mAdapterState \/ AllBack
    BY <1>1 DEF TakePicture, Counts, Fresh
  <2> QED
    BY <2>1, <2>2, <2>3, SingleUntouched
<1>2. CASE UseBuffersCapture
  <2>1. Fresh
    BY <1>2 DEF UseBuffersCapture, UseBuffers, Counts, Numbers
  <2>2. UNCHANGED <<atComponent, callbackQ, cb>> /\ held' = {} /\ \A t \in Returners : pc'[t] = pc[t]
    BY <1>2 DEF UseBuffersCapture, UseBuffers
  <2> QED
    BY <2>1, <2>2 DEF AtOnePlace, Fresh, Empty, AllBack
<1>3. CASE StartCommand
  <2>1. UNCHANGED <<atComponent, callbackQ, cb, held, mCapturedFrames>>
    BY <1>3 DEF StartCommand
  <2>2. \A t \in Returners : pc'[t] = pc[t]
    BY <1>3 DEF StartCommand
  <2>3. mAdapterState' = mAdapterState \/ AllBack
    BY <1>3 DEF StartCommand, StatesAgree, Numbers, Counts, Fresh
  <2> QED
    BY <2>1, <2>2, <2>3, SingleUntouched
<1>4. CASE StopRecording
  <2>1. UNCHANGED <<atComponent, callbackQ, cb, held, mCapturedFrames>>
    BY <1>4 DEF StopRecording
  <2>2. \A t \in Returners : pc'[t] = pc[t]
    BY <1>4 DEF StopRecording
  <2>3. mAdapterState' = mAdapterState \/ AllBack
    BY <1>4 DEF StopRecording, Counts, Fresh
  <2> QED
    BY <2>1, <2>2, <2>3, SingleUntouched
<1>5. CASE QueryState
  <2>1. UNCHANGED <<atComponent, callbackQ, cb, held, mCapturedFrames>>
    BY <1>5 DEF QueryState
  <2>2. \A t \in Returners : pc'[t] = pc[t]
    BY <1>5 DEF QueryState
  <2>3. mAdapterState' = mAdapterState \/ AllBack
    BY <1>5 DEF QueryState, Counts, Fresh
  <2> QED
    BY <2>1, <2>2, <2>3, SingleUntouched
<1>6. CASE GetCommand
  <2>1. UNCHANGED <<atComponent, callbackQ, cb, held, mCapturedFrames>>
    BY <1>6 DEF GetCommand
  <2>2. \A t \in Returners : pc'[t] = pc[t]
    BY <1>6 DEF GetCommand
  <2>3. mAdapterState' = mAdapterState \/ AllBack
    BY <1>6 DEF GetCommand, Counts, Fresh
  <2> QED
    BY <2>1, <2>2, <2>3, SingleUntouched
<1>7. CASE LockImageCapture
  <2>1. UNCHANGED <<atComponent, callbackQ, cb, held, mCapturedFrames>>
    BY <1>7 DEF LockImageCapture
  <2>2. \A t \in Returners : pc'[t] = pc[t]
    BY <1>7 DEF LockImageCapture
  <2>3. mAdapterState' = mAdapterState \/ AllBack
    BY <1>7 DEF LockImageCapture, Counts, Fresh
  <2> QED
    BY <2>1, <2>2, <2>3, SingleUntouched
<1>8. CASE GetNextState
  <2>1. UNCHANGED <<atComponent, callbackQ, cb, held, mCapturedFrames>>
    BY <1>8 DEF GetNextState
  <2>2. \A t \in Returners : pc'[t] = pc[t]
    BY <1>8 DEF GetNextState
  <2>3. mAdapterState' = mAdapterState \/ AllBack
    BY <1>8 DEF GetNextState, Counts, Fresh
  <2> QED
    BY <2>1, <2>2, <2>3, SingleUntouched
<1>9. CASE QueueImageBuffers
  <2>1. QueueAll /\ Fresh /\ mAdapterState = "capture" /\ mBurstFramesQueued = 0
    BY <1>9, QueuesAll DEF QueueImageBuffers, Counts, Pending
  <2>2. UNCHANGED <<callbackQ, cb, held, mCapturedFrames>> /\ \A t \in Returners : pc'[t] = pc[t]
    BY <1>9, <2>1 DEF QueueImageBuffers, QueueAll
  <2>3. mCapturedFrames = 1
    BY <1>9, <2>1 DEF Signals, Single
  <2> QED
    BY <2>1, <2>2, <2>3 DEF AtOnePlace, Fresh, Empty, AllBack
<1>10. CASE WaitForShutter
  <2>1. UNCHANGED <<atComponent, callbackQ, cb, held, mCapturedFrames>>
    BY <1>10 DEF WaitForShutter
  <2>2. \A t \in Returners : pc'[t] = pc[t]
    BY <1>10 DEF WaitForShutter
  <2>3. mAdapterState' = mAdapterState \/ AllBack
    BY <1>10 DEF WaitForShutter, Counts, Fresh
  <2> QED
    BY <2>1, <2>2, <2>3, SingleUntouched
<1>11. CASE ShutterEvent
  <2>1. UNCHANGED <<atComponent, callbackQ, cb, held, mCapturedFrames>>
    BY <1>11 DEF ShutterEvent
  <2>2. \A t \in Returners : pc'[t] = pc[t]
    BY <1>11 DEF ShutterEvent
  <2>3. mAdapterState' = mAdapterState \/ AllBack
    BY <1>11 DEF ShutterEvent, Counts, Fresh
  <2> QED
    BY <2>1, <2>2, <2>3, SingleUntouched
<1>12. ASSUME NEW b \in Buffers, FillImage(b) PROVE AtOnePlace'
  <2>1. atComponent = {b} /\ atComponent' = {}
    BY <1>12, <1>s DEF FillImage, Images
  <2>2. callbackQ = <<>> /\ cb.buffer = NoBuffer /\ AllBack /\ mCapturedFrames = 1
    BY <2>1 DEF AtOnePlace, Empty
  <2>3. callbackQ' = <<b>> /\ Len(callbackQ') = 1
    BY <1>12, <2>2, OneElement DEF FillImage, Put
  <2>4. UNCHANGED <<cb, held, mCapturedFrames, pc>>
    BY <1>12 DEF FillImage
  <2> QED
    BY <2>1, <2>2, <2>3, <2>4 DEF AtOnePlace, Empty, AllBack
<1>13. CASE TakeCallback
  <2>1. cb.buffer = NoBuffer /\ AllBack /\ Len(callbackQ) = 1 /\ atComponent = {} /\ mCapturedFrames = 1
    BY <1>13 DEF TakeCallback, AtOnePlace, Empty
  <2>2. callbackQ' = <<>>
    BY <1>13, <2>1 DEF TakeCallback, Images
  <2>3. UNCHANGED <<atComponent, held, mCapturedFrames, pc>>
    BY <1>13 DEF TakeCallback
  <2> QED
    BY <2>1, <2>2, <2>3 DEF AtOnePlace, Empty, AllBack
<1>14. CASE FillBufferDone
  <2>1. cb.buffer # NoBuffer /\ cb.state = "capture" /\ mAdapterState = "capture"
    BY <1>14 DEF FillBufferDone, ImageDone, Finished, Empty
  <2>2. callbackQ = <<>> /\ atComponent = {} /\ AllBack /\ mCapturedFrames = 1
    BY <2>1 DEF AtOnePlace, Empty
  <2>3. mCapturedFrames' = 0
    BY <1>14, <2>1, <2>2 DEF FillBufferDone, ImageDone
  <2>4. UNCHANGED <<atComponent, callbackQ, mAdapterState>> /\ cb'.buffer = NoBuffer
    BY <1>14 DEF FillBufferDone, ImageDone, TypeInv, TypeOK
  <2>5. \A t \in Returners : pc'[t] = "idle"
    BY <1>14, <2>2 DEF FillBufferDone, ImageDone, AllBack
  <2> QED
    BY <2>1, <2>2, <2>3, <2>4, <2>5 DEF AtOnePlace, Empty, AllBack
<1>15. ASSUME NEW t \in Returners, NEW b \in Buffers, ReturnFrame(t, b) PROVE AtOnePlace'
  <2>1. held = {b} /\ held' = {} /\ pc[t] = "idle"
    BY <1>15, <1>s DEF ReturnFrame, Images
  <2>2. Empty /\ mCapturedFrames = 0 /\ mAdapterState = "capture" /\ \A u \in Returners : pc[u] = "idle"
    BY <2>1 DEF AtOnePlace, Empty, AllBack
  <2>3. UNCHANGED <<atComponent, callbackQ, cb, mCapturedFrames, mAdapterState>>
    BY <1>15 DEF ReturnFrame
  <2>4. \A u \in Returners : u # t => pc'[u] = "idle"
    BY <1>15, <2>2 DEF ReturnFrame
  <2> QED
    BY <2>1, <2>2, <2>3, <2>4 DEF AtOnePlace, Empty, AllBack
<1>26. ASSUME NEW t \in Returners, FillThisBuffer(t) PROVE AtOnePlace'
  <2>1. UNCHANGED <<atComponent, callbackQ, cb, held, mCapturedFrames, mAdapterState>>
    BY <1>26, NoneQueued DEF FillThisBuffer
  <2>2. pc[t] # "idle" /\ \E l : Goto(t, l)
    BY <1>26 DEF FillThisBuffer
  <2> HIDE DEF Goto
  <2> QED
    BY <2>1, <2>2, SingleMoves
<1>16. ASSUME NEW t \in Returners, SignalEndImageCapture(t) PROVE AtOnePlace'
  <2>1. UNCHANGED <<atComponent, callbackQ, cb, held, mCapturedFrames, mAdapterState>>
    BY <1>16 DEF SignalEndImageCapture
  <2>2. Goto(t, "stop") /\ pc[t] # "idle"
    BY <1>16 DEF SignalEndImageCapture
  <2> HIDE DEF Goto
  <2> QED
    BY <2>1, <2>2, SingleMoves
<1>17. ASSUME NEW t \in Stoppers, StopCommand(t) PROVE AtOnePlace'
  <2>1. t \in Returners /\ pc[t] # "idle" /\ atComponent = {}
    BY <1>17, SingleStopper DEF StopCommand
  <2>2. \E l : Goto(t, l) /\ (mAdapterState' = mAdapterState \/ l = "idle")
    BY <1>17 DEF StopCommand
  <2>3. UNCHANGED <<atComponent, callbackQ, cb, held, mCapturedFrames>>
    BY <1>17 DEF StopCommand
  <2> HIDE DEF Goto
  <2> QED
    BY <2>1, <2>2, <2>3, SingleMoves
<1>18. ASSUME NEW t \in Stoppers, StopImageCapture(t) PROVE AtOnePlace'
  <2>1. t \in Returners /\ pc[t] # "idle" /\ atComponent = {}
    BY <1>18, SingleStopper DEF StopImageCapture
  <2>2. \E l : Goto(t, l) /\ (mAdapterState' = mAdapterState \/ l = "idle")
    BY <1>18 DEF StopImageCapture
  <2>3. UNCHANGED <<atComponent, callbackQ, cb, held, mCapturedFrames>>
    BY <1>18 DEF StopImageCapture
  <2> HIDE DEF Goto
  <2> QED
    BY <2>1, <2>2, <2>3, SingleMoves
<1>19. ASSUME NEW t \in Stoppers, CaptureDone(t) PROVE AtOnePlace'
  <2>1. t \in Returners /\ pc[t] # "idle" /\ atComponent = {}
    BY <1>19, SingleStopper DEF CaptureDone
  <2>2. \E l : Goto(t, l) /\ (mAdapterState' = mAdapterState \/ l = "idle")
    BY <1>19 DEF CaptureDone
  <2>3. UNCHANGED <<atComponent, callbackQ, cb, held, mCapturedFrames>>
    BY <1>19 DEF CaptureDone
  <2> HIDE DEF Goto
  <2> QED
    BY <2>1, <2>2, <2>3, SingleMoves
<1>20. ASSUME NEW t \in Stoppers, CaptureTimesOut(t) PROVE AtOnePlace'
  <2>1. t \in Returners /\ pc[t] # "idle" /\ atComponent = {}
    BY <1>20, SingleStopper DEF CaptureTimesOut
  <2>2. \E l : Goto(t, l) /\ (mAdapterState' = mAdapterState \/ l = "idle")
    BY <1>20 DEF CaptureTimesOut
  <2>3. UNCHANGED <<atComponent, callbackQ, cb, held, mCapturedFrames>>
    BY <1>20 DEF CaptureTimesOut
  <2> HIDE DEF Goto
  <2> QED
    BY <2>1, <2>2, <2>3, SingleMoves
<1>21. ASSUME NEW t \in Stoppers, DisableCapturing(t) PROVE AtOnePlace'
  <2>1. t \in Returners /\ pc[t] # "idle" /\ atComponent = {}
    BY <1>21, SingleStopper DEF DisableCapturing
  <2>2. \E l : Goto(t, l) /\ (mAdapterState' = mAdapterState \/ l = "idle")
    BY <1>21 DEF DisableCapturing
  <2>3. UNCHANGED <<atComponent, callbackQ, cb, held, mCapturedFrames>>
    BY <1>21 DEF DisableCapturing
  <2> HIDE DEF Goto
  <2> QED
    BY <2>1, <2>2, <2>3, SingleMoves
<1>22. ASSUME NEW t \in Stoppers, FlushBuffers(t) PROVE AtOnePlace'
  <2>1. t \in Returners /\ pc[t] # "idle" /\ atComponent = {}
    BY <1>22, SingleStopper DEF FlushBuffers
  <2>2. PICK images \in SetToSeqs(atComponent) : Put(images)
    BY <1>22 DEF FlushBuffers
  <2>3. callbackQ \in Seq(plan.images) /\ images = <<>>
    BY <2>1, <2>2, FlushedPlanned DEF Images, TypeInv, TypeOK
  <2>4. callbackQ' = callbackQ
    BY <2>2, <2>3 DEF Put
  <2>5. UNCHANGED <<atComponent, callbackQ, cb, held, mCapturedFrames, mAdapterState>> /\ Goto(t, "check")
    BY <1>22, <2>1, <2>4 DEF FlushBuffers
  <2> HIDE DEF Goto
  <2> QED
    BY <2>1, <2>5, SingleMoves
<1>23. ASSUME NEW t \in Stoppers, FlushCallbacks(t) PROVE AtOnePlace'
  <2>1. t \in Returners /\ pc[t] # "idle" /\ atComponent = {}
    BY <1>23, SingleStopper DEF FlushCallbacks
  <2>2. \E l : Goto(t, l) /\ (mAdapterState' = mAdapterState \/ l = "idle")
    BY <1>23 DEF FlushCallbacks
  <2>3. UNCHANGED <<atComponent, callbackQ, cb, held, mCapturedFrames>>
    BY <1>23 DEF FlushCallbacks
  <2> HIDE DEF Goto
  <2> QED
    BY <2>1, <2>2, <2>3, SingleMoves
<1>24. ASSUME NEW t \in Stoppers, StopDone(t) PROVE AtOnePlace'
  <2>1. t \in Returners /\ pc[t] # "idle" /\ atComponent = {}
    BY <1>24, SingleStopper DEF StopDone
  <2>2. \E l : Goto(t, l) /\ (mAdapterState' = mAdapterState \/ l = "idle")
    BY <1>24 DEF StopDone, CommitState
  <2>3. UNCHANGED <<atComponent, callbackQ, cb, held, mCapturedFrames>>
    BY <1>24 DEF StopDone
  <2> HIDE DEF Goto
  <2> QED
    BY <2>1, <2>2, <2>3, SingleMoves
<1>25. CASE UNCHANGED vars
  BY <1>25, SingleUntouched DEF vars
<1> QED
  BY <1>1, <1>2, <1>3, <1>4, <1>5, <1>6, <1>7, <1>8, <1>9, <1>10, <1>11, <1>12,
     <1>13, <1>14, <1>15, <1>16, <1>17, <1>18, <1>19, <1>20, <1>21, <1>22, <1>23, <1>24, <1>25, <1>26
  DEF Next, Application, Command, Component, Callback, Return, Stop

LEMMA SignalsStep ==
  ASSUME TypeInv, LocksHeld, StatesAgree, OneByOneInv, OneByOne, [Next]_vars
  PROVE  Signals'
<1> SUFFICES ASSUME ~plan.cancels PROVE Signals'
  BY Common DEF Signals
<1> USE Common, ThreadsKnown DEF OneByOneInv, Numbers, Counts, Pending, Fresh, Empty, AllBack, Finished, Signals, Over, LocksHeld, StatesAgree, Stoppers, Goto, Free, Stopping, Starting, control, data, locks, requests, burst, signals, component, callbacks, client, history
<1>1. CASE TakePicture
  BY <1>1 DEF TakePicture
<1>2. CASE UseBuffersCapture
  BY <1>2 DEF UseBuffersCapture, UseBuffers
<1>3. CASE StartCommand
  BY <1>3 DEF StartCommand
<1>4. CASE StopRecording
  BY <1>4 DEF StopRecording
<1>5. CASE QueryState
  BY <1>5 DEF QueryState
<1>6. CASE GetCommand
  BY <1>6 DEF GetCommand
<1>7. CASE LockImageCapture
  BY <1>7 DEF LockImageCapture
<1>8. CASE GetNextState
  BY <1>8 DEF GetNextState
<1>9. CASE QueueImageBuffers
  <2>1. QueueAll /\ Fresh /\ mAdapterState = "capture" /\ mBurstFramesQueued = 0
    BY <1>9, QueuesAll DEF QueueImageBuffers
  <2>2. mCaptureSignalled' = FALSE /\ mCapturedFrames' = Burst
    BY <1>9, <2>1 DEF QueueImageBuffers, QueueAll
  <2>3. mBurstFramesQueued' = Burst /\ UNCHANGED <<mCaptureSem, mAdapterState>>
    BY <1>9, <2>1 DEF QueueImageBuffers, QueueAll
  <2>4. \A t \in Returners : pc'[t] = "idle"
    BY <1>9, <2>1 DEF QueueImageBuffers
  <2> QED
    BY <2>1, <2>2, <2>3, <2>4
<1>10. CASE WaitForShutter
  BY <1>10 DEF WaitForShutter
<1>11. CASE ShutterEvent
  BY <1>11 DEF ShutterEvent
<1>12. ASSUME NEW b \in Buffers, FillImage(b) PROVE Signals'
  BY <1>12 DEF FillImage
<1>13. CASE TakeCallback
  BY <1>13 DEF TakeCallback
<1>14. CASE FillBufferDone
  <2>1. mAdapterState = "capture" /\ mBurstFramesQueued # 0 /\ cb.state = "capture"
    BY <1>14 DEF FillBufferDone, ImageDone
  <2>2. UNCHANGED <<mAdapterState, mBurstFramesQueued>>
    BY <1>14 DEF FillBufferDone, ImageDone
  <2>3. \A t \in Returners : /\ pc'[t] \in Over <=> pc[t] \in Over
                             /\ pc'[t] \in {"idle", "fill"} <=> pc[t] \in {"idle", "fill"}
    BY <1>14 DEF FillBufferDone, ImageDone
  <2>4. mCapturedFrames' <= mCapturedFrames /\ mCapturedFrames' \in Nat
    BY <1>14 DEF FillBufferDone, ImageDone
  <2>5. CASE ~mCaptureSignalled
    <3>1. mCapturedFrames = Burst /\ mCaptureSem = 0
      BY <2>1, <2>5
    <3>2. mCaptureSignalled' = TRUE /\ mCaptureSem' = 1
      <4>1. mCapturedFrames > 0
        BY <3>1
      <4>2. mCaptureSem' = mCaptureSem + 1
        BY <1>14, <2>5, <4>1 DEF FillBufferDone, ImageDone
      <4>3. mCaptureSignalled' = TRUE
        BY <1>14, <2>5, <4>1, Zenon DEF FillBufferDone, ImageDone
      <4> QED
        BY <3>1, <4>2, <4>3
    <3>3. \A t \in Returners : pc[t] \in {"idle", "fill"}
      BY <2>1, <3>1
    <3> QED
      BY <2>1, <2>2, <2>3, <2>4, <3>2, <3>3
  <2>6. CASE mCaptureSignalled
    <3>1. mCaptureSem' = mCaptureSem
      BY <1>14, <2>6 DEF FillBufferDone, ImageDone
    <3>2. mCaptureSignalled' = TRUE
      BY <1>14, <2>6, Zenon DEF FillBufferDone, ImageDone
    <3>3. \A t \in Returners : pc'[t] \notin {"idle", "fill"} => mCapturedFrames' = 0
      BY <2>1, <2>3, <2>4
    <3> QED
      BY <2>1, <2>2, <2>3, <2>6, <3>1, <3>2, <3>3
  <2> QED
    BY <2>5, <2>6
<1>15. ASSUME NEW t \in Returners, NEW b \in Buffers, ReturnFrame(t, b) PROVE Signals'
  BY <1>15 DEF ReturnFrame
<1>26. ASSUME NEW t \in Returners, FillThisBuffer(t) PROVE Signals'
  BY <1>26 DEF FillThisBuffer
<1>16. ASSUME NEW t \in Returners, SignalEndImageCapture(t) PROVE Signals'
  BY <1>16 DEF SignalEndImageCapture
<1>17. ASSUME NEW t \in Stoppers, StopCommand(t) PROVE Signals'
  BY <1>17 DEF StopCommand
<1>18. ASSUME NEW t \in Stoppers, StopImageCapture(t) PROVE Signals'
  BY <1>18 DEF StopImageCapture
<1>19. ASSUME NEW t \in Stoppers, CaptureDone(t) PROVE Signals'
  <2>1. t \in Returners /\ mAdapterState = "capture" /\ mCapturedFrames = 0 /\ mBurstFramesQueued # 0
    BY <1>19 DEF CaptureDone
  <2>2. mCaptureSignalled = TRUE
    BY <2>1 DEF TypeInv, TypeOK
  <2>3. \A u \in Returners : u # t => pc[u] \notin Over
    BY <1>19 DEF CaptureDone
  <2>4. mCaptureSem = 1 /\ mCaptureSem' = 0
    BY <1>19, <2>1, <2>2, <2>3 DEF CaptureDone
  <2>5. pc' = [pc EXCEPT ![t] = "disable"] /\ UNCHANGED <<mAdapterState, burst, mCaptureSignalled>>
    BY <1>19 DEF CaptureDone
  <2> QED
    BY <2>1, <2>2, <2>4, <2>5
<1>20. ASSUME NEW t \in Stoppers, CaptureTimesOut(t) PROVE Signals'
  BY <1>20 DEF CaptureTimesOut
<1>21. ASSUME NEW t \in Stoppers, DisableCapturing(t) PROVE Signals'
  <2>1. t \in Returners /\ mAdapterState = "capture" /\ mCapturedFrames = 0 /\ mBurstFramesQueued # 0
    BY <1>21 DEF DisableCapturing
  <2>2. mCaptureSignalled = TRUE
    BY <2>1 DEF TypeInv, TypeOK
  <2>3. mCaptureSem = 0
    BY <1>21, <2>1, <2>2 DEF DisableCapturing
  <2>4. mCaptureSignalled' = TRUE /\ UNCHANGED <<mCaptureSem, mAdapterState, burst>>
    BY <1>21, Zenon DEF DisableCapturing
  <2>5. pc' = [pc EXCEPT ![t] = "flush"]
    BY <1>21 DEF DisableCapturing
  <2> QED
    BY <2>1, <2>3, <2>4, <2>5
<1>22. ASSUME NEW t \in Stoppers, FlushBuffers(t) PROVE Signals'
  BY <1>22 DEF FlushBuffers
<1>23. ASSUME NEW t \in Stoppers, FlushCallbacks(t) PROVE Signals'
  BY <1>23 DEF FlushCallbacks
<1>24. ASSUME NEW t \in Stoppers, StopDone(t) PROVE Signals'
  <2>1. t \in Returners /\ mAdapterState = "capture" /\ mCapturedFrames = 0 /\ mBurstFramesQueued # 0
    BY <1>24 DEF StopDone
  <2>2. mCaptureSignalled = TRUE
    BY <2>1 DEF TypeInv, TypeOK
  <2>3. mCaptureSem = 0
    BY <1>24, <2>1, <2>2 DEF StopDone
  <2>4. mAdapterState' = "preview" /\ mCaptureSem' = mCaptureSem
    BY <1>24, <2>1 DEF StopDone, CommitState
  <2> QED
    BY <2>3, <2>4
<1>25. CASE UNCHANGED vars
  BY <1>25 DEF vars
<1> QED
  BY <1>1, <1>2, <1>3, <1>4, <1>5, <1>6, <1>7, <1>8, <1>9, <1>10, <1>11, <1>12,
     <1>13, <1>14, <1>15, <1>16, <1>17, <1>18, <1>19, <1>20, <1>21, <1>22, <1>23, <1>24, <1>25, <1>26
  DEF Next, Application, Command, Component, Callback, Return, Stop

LEMMA OwedStep ==
  ASSUME TypeInv, LocksHeld, StatesAgree, OneByOneInv, OneByOne, [Next]_vars
  PROVE  Owed'
<1> SUFFICES ASSUME ~plan.cancels PROVE Owed'
  BY Common DEF Owed
<1> USE Common, ThreadsKnown DEF OneByOneInv, Numbers, Counts, Pending, Fresh, Empty, AllBack, Finished, Signals, Owed, StatesAgree, Stoppers, Goto, Free, Stopping, Starting, control, data, locks, requests, burst, signals, component, callbacks, client, history
<1>1. CASE TakePicture
  BY <1>1 DEF TakePicture
<1>2. CASE UseBuffersCapture
  BY <1>2 DEF UseBuffersCapture, UseBuffers
<1>3. CASE StartCommand
  BY <1>3 DEF StartCommand
<1>4. CASE StopRecording
  BY <1>4 DEF StopRecording
<1>5. CASE QueryState
  BY <1>5 DEF QueryState
<1>6. CASE GetCommand
  BY <1>6 DEF GetCommand
<1>7. CASE LockImageCapture
  BY <1>7 DEF LockImageCapture
<1>8. CASE GetNextState
  BY <1>8 DEF GetNextState
<1>9. CASE QueueImageBuffers
  <2>1. QueueAll
    BY <1>9, QueuesAll
  <2> QED
    BY <1>9, <2>1 DEF QueueImageBuffers, QueueAll
<1>10. CASE WaitForShutter
  BY <1>10 DEF WaitForShutter
<1>11. CASE ShutterEvent
  BY <1>11 DEF ShutterEvent
<1>12. ASSUME NEW b \in Buffers, FillImage(b) PROVE Owed'
  BY <1>12 DEF FillImage
<1>13. CASE TakeCallback
  BY <1>13 DEF TakeCallback
<1>14. CASE FillBufferDone
  <2>1. mAdapterState = "capture" /\ mAdapterState' = "capture" /\ cb.state = "capture" /\ captures' = captures
    BY <1>14 DEF FillBufferDone, ImageDone
  <2>2. \/ mCapturedFrames' = mCapturedFrames - 1 /\ delivered' = delivered + 1
        \/ mCapturedFrames' = mCapturedFrames /\ delivered' = delivered
    BY <1>14 DEF FillBufferDone, ImageDone
  <2>3. delivered + mCapturedFrames = captures * Burst
    BY <2>1
  <2>4. delivered' + mCapturedFrames' = delivered + mCapturedFrames
    BY <2>2 DEF TypeInv, TypeOK
  <2>5. delivered' + mCapturedFrames' = captures * Burst
    BY <2>3, <2>4
  <2> QED
    BY <2>1, <2>5
<1>15. ASSUME NEW t \in Returners, NEW b \in Buffers, ReturnFrame(t, b) PROVE Owed'
  BY <1>15 DEF ReturnFrame
<1>26. ASSUME NEW t \in Returners, FillThisBuffer(t) PROVE Owed'
  BY <1>26 DEF FillThisBuffer
<1>16. ASSUME NEW t \in Returners, SignalEndImageCapture(t) PROVE Owed'
  BY <1>16 DEF SignalEndImageCapture
<1>17. ASSUME NEW t \in Stoppers, StopCommand(t) PROVE Owed'
  BY <1>17 DEF StopCommand
<1>18. ASSUME NEW t \in Stoppers, StopImageCapture(t) PROVE Owed'
  BY <1>18 DEF StopImageCapture
<1>19. ASSUME NEW t \in Stoppers, CaptureDone(t) PROVE Owed'
  BY <1>19 DEF CaptureDone
<1>20. ASSUME NEW t \in Stoppers, CaptureTimesOut(t) PROVE Owed'
  BY <1>20 DEF CaptureTimesOut
<1>21. ASSUME NEW t \in Stoppers, DisableCapturing(t) PROVE Owed'
  BY <1>21 DEF DisableCapturing
<1>22. ASSUME NEW t \in Stoppers, FlushBuffers(t) PROVE Owed'
  BY <1>22 DEF FlushBuffers
<1>23. ASSUME NEW t \in Stoppers, FlushCallbacks(t) PROVE Owed'
  BY <1>23 DEF FlushCallbacks
<1>24. ASSUME NEW t \in Stoppers, StopDone(t) PROVE Owed'
  <2>1. t \in Returners /\ mAdapterState = "capture" /\ mCapturedFrames = 0
    BY <1>24 DEF StopDone, LocksHeld
  <2>2. mAdapterState' = "preview" /\ UNCHANGED <<delivered, captures>>
    BY <1>24, <2>1 DEF StopDone, CommitState, LocksHeld
  <2>3. delivered = captures * Burst
    BY <2>1 DEF TypeInv, TypeOK
  <2> QED
    BY <2>2, <2>3
<1>25. CASE UNCHANGED vars
  BY <1>25 DEF vars
<1> QED
  BY <1>1, <1>2, <1>3, <1>4, <1>5, <1>6, <1>7, <1>8, <1>9, <1>10, <1>11, <1>12,
     <1>13, <1>14, <1>15, <1>16, <1>17, <1>18, <1>19, <1>20, <1>21, <1>22, <1>23, <1>24, <1>25, <1>26
  DEF Next, Application, Command, Component, Callback, Return, Stop

-----------------------------------------------------------------------------
CaptureInv == TypeInv /\ LocksHeld /\ StatesAgree /\ (OneByOne => OneByOneInv)

LEMMA CaptureInit == Init => CaptureInv
<1> SUFFICES ASSUME Init PROVE CaptureInv
  OBVIOUS
<1>1. plan \in Plans /\ Burst \in Nat /\ plan.pictures \in Nat
  BY BurstPositive, PlansAssumption DEF Init, PlanType
<1>2. Fresh /\ ~Pending
  BY ThreadsKnown DEF Init, Fresh, Empty, AllBack, Pending, Threads, Stoppers
<1>3. Processed /\ Numbers
  BY <1>1, ThreadsKnown DEF Init, Processed, Numbers, Starting
<1>4. Counts
  BY <1>1, <1>2 DEF Init, Counts
<1>5. Finished
  BY DEF Init, Finished, Empty
<1>6. Images
  BY DEF Init, Images
<1>7. OneOut
  BY <1>2 DEF Init, OneOut, AtOnePlace, Fresh, Empty, AllBack
<1>8. Signals
  BY <1>1, <1>2 DEF Init, Signals
<1>9. Owed
  BY <1>1 DEF Init, Owed
<1> QED
  BY <1>3, <1>4, <1>5, <1>6, <1>7, <1>8, <1>9, TypeInit, LocksInit, StatesInit DEF CaptureInv, OneByOneInv

LEMMA CaptureStep == CaptureInv /\ [Next]_vars => CaptureInv'
<1> SUFFICES ASSUME CaptureInv, [Next]_vars PROVE CaptureInv'
  OBVIOUS
<1>1. TypeInv' /\ LocksHeld' /\ StatesAgree'
  BY TypeStep, LocksStep, StatesStep DEF CaptureInv, TypeInv
<1>2. OneByOne' <=> OneByOne
  BY PlanStep DEF OneByOne, Burst
<1>3. ASSUME OneByOne PROVE OneByOneInv'
  BY <1>3, NumbersStep, ProcessedStep, CountsStep, FinishedStep, ImagesStep, OneOutStep, SignalsStep, OwedStep
  DEF CaptureInv, OneByOneInv
<1> QED
  BY <1>1, <1>2, <1>3 DEF CaptureInv

THEOREM CaptureInvariant == Spec => []CaptureInv
BY CaptureInit, CaptureStep, PTL DEF Spec

(* However a capture that comes alone is started, filled, returned and        *)
(* stopped, its end leaves no buffer at the component or on its way up.       *)
THEOREM StopIsClean == Spec => []StopLeavesNothing
<1>1. CaptureInv => StopLeavesNothing
  <2> SUFFICES ASSUME CaptureInv, OneByOne, mAdapterState # "capture" PROVE atComponent = {} /\ InQueue = {}
    BY DEF StopLeavesNothing
  <2>1. atComponent = {} /\ callbackQ = <<>> /\ cb.buffer = NoBuffer
    BY DEF CaptureInv, OneByOneInv, Finished, Empty
  <2> QED
    BY <2>1 DEF InQueue
<1> QED
  BY <1>1, CaptureInvariant, PTL

(* The wait of a stop takes the token of its own capture and leaves none.     *)
THEOREM SemaphoreIsEmpty == Spec => []SemaphoreEmptyBetween
<1>1. CaptureInv => SemaphoreEmptyBetween
  BY DEF CaptureInv, OneByOneInv, Signals, SemaphoreEmptyBetween
<1> QED
  BY <1>1, CaptureInvariant, PTL

(* A start message that comes after the stop of its capture queues nothing.   *)
THEOREM StoppedStartsNot == Spec => []StoppedNeverStarts
<1>1. CaptureInv => StoppedNeverStarts
  <2> SUFFICES ASSUME CaptureInv, OneByOne, pc["cmd"] = "queue" PROVE job \notin ended
    BY DEF StoppedNeverStarts
  <2>1. mAdapterState = "capture" /\ job = captures /\ captures \notin ended
    BY DEF CaptureInv, StatesAgree, OneByOneInv, Numbers
  <2> QED
    BY <2>1
<1> QED
  BY <1>1, CaptureInvariant, PTL

-----------------------------------------------------------------------------
(* What the application sees of a picture                                     *)

(* The steps that neither deliver an image nor move mAdapterState between     *)
(* what the application tells apart.                                          *)
LEMMA NothingSeen ==
  ASSUME CaptureInv, plan' = plan, UNCHANGED <<captures, delivered>>,
         mAdapterState' = "capture" <=> mAdapterState = "capture"
  PROVE  UNCHANGED Picture!vars
<1>1. Watched' <=> Watched
  BY DEF Watched, OneByOne, Burst
<1>2. UNCHANGED (IF Watched THEN captures * Burst - delivered ELSE 0)
  BY <1>1 DEF Burst
<1>3. UNCHANGED (Watched /\ mAdapterState = "capture")
  BY <1>1, Zenon
<1> QED
  BY <1>2, <1>3 DEF Picture!vars

LEMMA UnseenSteps ==
  ASSUME CaptureInv, [Next]_vars, ~StartCommand, ~FillBufferDone, \A t \in Stoppers : ~StopDone(t)
  PROVE  UNCHANGED <<captures, delivered>> /\ (mAdapterState' = "capture" <=> mAdapterState = "capture")
<1> USE DEF control, data, locks, requests, client
<1>1. CASE Application
  BY <1>1 DEF Application, TakePicture, UseBuffersCapture, UseBuffers, StopRecording, QueryState
<1>2. CASE Command
  BY <1>2 DEF Command, GetCommand, LockImageCapture, GetNextState, QueueImageBuffers, WaitForShutter
<1>3. CASE Component
  BY <1>3 DEF Component, ShutterEvent, FillImage
<1>4. CASE TakeCallback
  BY <1>4 DEF TakeCallback
<1>5. ASSUME NEW t \in Returners, Return(t)
      PROVE  UNCHANGED <<captures, delivered, mAdapterState>>
  BY <1>5 DEF Return, ReturnFrame, FillThisBuffer, SignalEndImageCapture
<1>6. ASSUME NEW t \in Stoppers, Stop(t)
      PROVE  UNCHANGED <<captures, delivered, mAdapterState>>
  BY <1>6 DEF Stop, StopCommand, StopImageCapture, CaptureDone, CaptureTimesOut, DisableCapturing,
              FlushBuffers, FlushCallbacks
<1>7. CASE UNCHANGED vars
  BY <1>7 DEF vars
<1> QED
  BY <1>1, <1>2, <1>3, <1>4, <1>5, <1>6, <1>7 DEF Next, Callback

LEMMA PictureStep == CaptureInv /\ [Next]_vars => [Picture!Next]_Picture!vars
<1> SUFFICES ASSUME CaptureInv, [Next]_vars PROVE [Picture!Next]_Picture!vars
  OBVIOUS
<1>1. plan' = plan /\ Burst' = Burst /\ (Watched' <=> Watched)
  BY PlanStep DEF Watched, OneByOne, Burst
<1>2. Burst \in Nat /\ captures \in Nat /\ delivered \in Nat /\ mCapturedFrames \in Nat /\ plan \in Plans
  BY BurstPositive DEF CaptureInv, TypeInv, TypeOK
<1>3. CASE StartCommand
  <2>1. CASE ~Watched
    BY <1>1, <2>1 DEF Picture!vars
  <2>2. CASE Watched
    <3>1. OneByOneInv /\ ~plan.cancels /\ mAdapterState = "loaded"
      BY <1>3, <2>2 DEF Watched, CaptureInv, StatesAgree, StartCommand
    <3>2. delivered = captures * Burst
      BY <3>1 DEF OneByOneInv, Owed
    <3>3. captures' = captures + 1 /\ delivered' = delivered /\ mAdapterState' = "capture"
      BY <1>3 DEF StartCommand, client
    <3>4. captures' * Burst' - delivered' = Burst
      BY <1>1, <1>2, <3>2, <3>3
    <3>5. Burst \in {Cardinality(p.images) : p \in Plans}
      BY <1>2 DEF Burst
    <3>6. Picture!Ask
      BY <1>1, <2>2, <3>1, <3>3, <3>4, <3>5 DEF Picture!Ask
    <3> QED
      BY <3>6 DEF Picture!Next
  <2> QED
    BY <2>1, <2>2
<1>4. CASE FillBufferDone
  <2>1. mAdapterState' = mAdapterState /\ captures' = captures
    BY <1>4 DEF FillBufferDone, ImageDone, requests
  <2>2. CASE ~Watched
    BY <1>1, <2>2 DEF Picture!vars
  <2>3. CASE Watched /\ delivered' = delivered
    BY <1>1, <2>1, <2>3, NothingSeen
  <2>4. CASE Watched /\ delivered' # delivered
    <3>1. OneByOneInv /\ ~plan.cancels /\ cb.buffer # NoBuffer
      BY <1>4, <2>4 DEF Watched, CaptureInv, FillBufferDone, ImageDone
    <3>2. mAdapterState = "capture"
      BY <3>1 DEF OneByOneInv, Finished, Empty
    <3>3. delivered' = delivered + 1 /\ mCapturedFrames >= 1
      BY <1>4, <2>4 DEF FillBufferDone, ImageDone
    <3>4. captures * Burst - delivered = mCapturedFrames
      BY <1>2, <3>1, <3>2 DEF OneByOneInv, Owed
    <3>5. captures' * Burst' - delivered' = captures * Burst - delivered - 1
      BY <1>1, <1>2, <2>1, <3>3
    <3>6. UNCHANGED (Watched /\ mAdapterState = "capture")
      BY <1>1, <2>1, Zenon
    <3>7. Picture!Deliver
      BY <1>1, <1>2, <2>4, <3>2, <3>3, <3>4, <3>5, <3>6 DEF Picture!Deliver
    <3> QED
      BY <3>7 DEF Picture!Next
  <2> QED
    BY <2>2, <2>3, <2>4
<1>5. ASSUME NEW t \in Stoppers, StopDone(t)
      PROVE  [Picture!Next]_Picture!vars
  <2>1. mAdapterState = "capture" /\ mAdapterState' = "preview" /\ UNCHANGED <<captures, delivered>>
    <3>1. mLock = t /\ t \in Threads /\ NoThread \notin Threads
      BY <1>5, ThreadsKnown, NoThreadAssumption, ReturnersAssumption
      DEF CaptureInv, LocksHeld, StopDone, Stopping, Threads
    <3> QED
      BY <1>5, <3>1 DEF CaptureInv, StatesAgree, StopDone, CommitState, requests, client
  <2>2. CASE ~Watched
    BY <1>1, <2>2 DEF Picture!vars
  <2>3. CASE Watched
    <3>1. OneByOneInv /\ ~plan.cancels
      BY <2>3 DEF Watched, CaptureInv
    <3>2. delivered' = captures' * Burst'
      <4>1. OneByOneInv'
        BY <1>1, <2>3, CaptureStep DEF CaptureInv, Watched
      <4>2. ~plan'.cancels /\ mAdapterState' # "capture"
        BY <1>1, <2>1, <3>1
      <4> QED
        BY <4>1, <4>2 DEF OneByOneInv, Owed
    <3>3. captures * Burst - delivered = 0
      BY <1>1, <1>2, <2>1, <3>2
    <3>4. Picture!End
      BY <1>1, <2>1, <2>3, <3>3 DEF Picture!End
    <3> QED
      BY <3>4 DEF Picture!Next
  <2> QED
    BY <2>2, <2>3
<1>6. CASE ~StartCommand /\ ~FillBufferDone /\ \A t \in Stoppers : ~StopDone(t)
  BY <1>1, <1>6, UnseenSteps, NothingSeen
<1> QED
  BY <1>3, <1>4, <1>5, <1>6

(* What the application sees of takePicture() when it stops no picture: one   *)
(* is asked for, exactly its images are delivered, and it ends before the     *)
(* next one is asked for.  That it does end is TakesPictures, which TLC       *)
(* checks under the fairness.                                                 *)
THEOREM PicturesAreWhole == Spec => Picture!Init /\ [][Picture!Next]_Picture!vars
<1>1. Init => Picture!Init
  <2> SUFFICES ASSUME Init PROVE Picture!Init
    OBVIOUS
  <2>1. Burst \in Nat
    BY BurstPositive DEF Init
  <2> QED
    BY <2>1 DEF Init, Picture!Init
<1> QED
  BY <1>1, PictureStep, CaptureInvariant, PTL DEF Spec
=============================================================================
