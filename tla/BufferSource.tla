------------------------------ MODULE BufferSource ------------------------------
(* The adapter of a tap-out point (BufferSourceAdapter.cpp): images leave in  *)
(* buffers of a window.  The queue thread enqueues a filled buffer with the   *)
(* window and signals the return thread, which dequeues another buffer and    *)
(* gives it to the camera adapter.  mLock guards the queue thread and         *)
(* freeBufferList(), but not the return thread.  The tap-in point, which      *)
(* hands over one buffer at a time, is left out.                              *)
EXTENDS Naturals, Sequences, FiniteSets

CONSTANTS
  SourceBufs,      \* the window's buffers
  KeptBySource,    \* get_min_undequeued_buffer_count()
  Allocations,     \* calls of allocateBufferList()
  SourceFaults     \* calls of the window that may fail

VARIABLES
  sourcePc,        \* the application's call: "none" (no buffers), "dequeue", "ready"
  isSourceGone,    \* mBufferSource was set to NULL
  freeInSource, consumed,        \* buffers of the window: to be dequeued, with its consumer
  atAdapter,                   \* mFramesWithCameraAdapterMap
  filling,                       \* what the camera adapter has
  frameQueue,                    \* QueueFrame::mFrames, of this and of earlier lists
  queueBuf,                      \* the frame of the queue thread, once enqueued, or NoBuf
  waiting,                       \* the count of mWaitForSignal
  tapReturn,                     \* the buffer the return thread has dequeued, or NoBuf
  leaked,                        \* buffers the window never gets back
  mapRaced,                      \* the map was changed by two threads
  sourceCrashed,                 \* a read of freed or foreign memory, of a NULL window
  allocations, sourceFaults

sourceVars == <<sourcePc, isSourceGone, freeInSource, consumed, atAdapter, filling, frameQueue, queueBuf, waiting,
                tapReturn, leaked, mapRaced, sourceCrashed, allocations, sourceFaults>>
window == <<isSourceGone, freeInSource, consumed>>
bounds == <<allocations, sourceFaults>>

NoBuf == "none"
Up == ~sourceCrashed
Unlocked == queueBuf = NoBuf     \* mLock

Init ==
  /\ sourcePc = "none" /\ isSourceGone = FALSE /\ freeInSource = SourceBufs /\ consumed = {} /\ atAdapter = {}
  /\ filling = {} /\ frameQueue = <<>> /\ queueBuf = NoBuf /\ waiting = 0 /\ tapReturn = NoBuf /\ leaked = {}
  /\ mapRaced = FALSE /\ sourceCrashed = FALSE /\ allocations = 0 /\ sourceFaults = 0

SourceFault == sourceFaults < SourceFaults /\ sourceFaults' = sourceFaults + 1
-----------------------------------------------------------------------------
(* allocateBufferList() dequeues every buffer, then gives KeptBySource of     *)
(* them back.  It takes no lock.                                              *)

Allocate ==
  /\ Up /\ sourcePc = "none" /\ ~isSourceGone /\ allocations < Allocations
  /\ sourcePc' = "dequeue" /\ allocations' = allocations + 1
  /\ UNCHANGED <<window, atAdapter, filling, frameQueue, queueBuf, waiting, tapReturn, leaked, mapRaced, sourceCrashed, sourceFaults>>

DequeueOne ==
  /\ Up /\ sourcePc = "dequeue" /\ \E b \in freeInSource :
       freeInSource' = freeInSource \ {b} /\ atAdapter' = atAdapter \cup {b}
  /\ UNCHANGED <<sourcePc, isSourceGone, consumed, filling, frameQueue, queueBuf, waiting, tapReturn, leaked, mapRaced, sourceCrashed, bounds>>

KeepSome ==
  /\ Up /\ sourcePc = "dequeue" /\ atAdapter = SourceBufs /\ sourcePc' = "ready"
  /\ \E kept \in SUBSET SourceBufs :
       /\ Cardinality(kept) = KeptBySource
       /\ atAdapter' = SourceBufs \ kept /\ freeInSource' = freeInSource \cup kept /\ filling' = SourceBufs \ kept
  /\ UNCHANGED <<isSourceGone, consumed, frameQueue, queueBuf, waiting, tapReturn, leaked, mapRaced, sourceCrashed, bounds>>

(* A window that is gone ends the call: with a buffer dequeued already, it is *)
(* used nevertheless; any other failure gives the buffers back.               *)
AllocateFails ==
  /\ Up /\ sourcePc = "dequeue" /\ SourceFault
  /\ \/ /\ isSourceGone' = TRUE /\ sourceCrashed' = (atAdapter # {}) /\ sourcePc' = "none"
        /\ UNCHANGED <<freeInSource, atAdapter>>
     \/ /\ freeInSource' = freeInSource \cup atAdapter /\ atAdapter' = {} /\ sourcePc' = "none"
        /\ UNCHANGED <<isSourceGone, sourceCrashed>>
  /\ UNCHANGED <<consumed, filling, frameQueue, queueBuf, waiting, tapReturn, leaked, mapRaced, allocations>>

(* freeBufferList(): what the map holds goes back to the window, the array is *)
(* deleted.  The camera adapter has been stopped.                             *)
FreeBufferList ==
  /\ Up /\ sourcePc = "ready" /\ Unlocked /\ sourcePc' = "none"
  /\ freeInSource' = IF isSourceGone THEN freeInSource ELSE freeInSource \cup atAdapter
  /\ leaked' = leaked \cup (filling \ atAdapter) /\ atAdapter' = {} /\ filling' = {}
  /\ UNCHANGED <<isSourceGone, consumed, frameQueue, queueBuf, waiting, tapReturn, mapRaced, sourceCrashed, bounds>>
-----------------------------------------------------------------------------
(* A frame of the camera adapter: frameCallback(), addFrame().                *)
AddFrame ==
  /\ Up /\ \E b \in filling : filling' = filling \ {b} /\ frameQueue' = Append(frameQueue, [buf |-> b, list |-> allocations])
  /\ UNCHANGED <<sourcePc, window, atAdapter, queueBuf, waiting, tapReturn, leaked, mapRaced, sourceCrashed, bounds>>

(* handleFrameCallback(), under mLock.  A frame of an earlier list is not     *)
(* among mBuffers, and what lies behind the last of them is used.             *)
Enqueue ==
  /\ Up /\ frameQueue # <<>> /\ Unlocked /\ frameQueue' = Tail(frameQueue)
  /\ LET f == Head(frameQueue)
     IN IF sourcePc = "none" THEN UNCHANGED <<consumed, queueBuf, sourceCrashed, leaked, sourceFaults>>
        ELSE IF isSourceGone \/ f.list # allocations
          THEN sourceCrashed' = TRUE /\ UNCHANGED <<consumed, queueBuf, leaked, sourceFaults>>
        ELSE /\ queueBuf' = f.buf /\ UNCHANGED sourceCrashed
             /\ \/ consumed' = consumed \cup {f.buf} /\ UNCHANGED <<leaked, sourceFaults>>
                \/ SourceFault /\ leaked' = leaked \cup {f.buf} /\ UNCHANGED consumed
  /\ UNCHANGED <<sourcePc, isSourceGone, freeInSource, atAdapter, filling, waiting, tapReturn, mapRaced, allocations>>

(* The buffer leaves the map after it was enqueued.                           *)
RemoveFromMap ==
  /\ Up /\ queueBuf # NoBuf /\ queueBuf' = NoBuf /\ waiting' = waiting + 1
  /\ atAdapter' = atAdapter \ {queueBuf}
  /\ UNCHANGED <<sourcePc, window, filling, frameQueue, tapReturn, leaked, mapRaced, sourceCrashed, bounds>>

(* The consumer of the window.                                                *)
Consume ==
  /\ Up /\ \E b \in consumed : consumed' = consumed \ {b} /\ freeInSource' = freeInSource \cup {b}
  /\ UNCHANGED <<sourcePc, isSourceGone, atAdapter, filling, frameQueue, queueBuf, waiting, tapReturn, leaked, mapRaced, sourceCrashed, bounds>>
-----------------------------------------------------------------------------

(* handleFrameReturn().  A failure has used up the signal.                    *)
DequeueReturned ==
  /\ Up /\ waiting > 0 /\ tapReturn = NoBuf /\ waiting' = waiting - 1
  /\ IF isSourceGone THEN UNCHANGED <<isSourceGone, freeInSource, tapReturn, sourceFaults>>
     ELSE \/ \E b \in freeInSource : tapReturn' = b /\ freeInSource' = freeInSource \ {b} /\ UNCHANGED <<isSourceGone, sourceFaults>>
          \/ SourceFault /\ isSourceGone' \in BOOLEAN /\ UNCHANGED <<freeInSource, tapReturn>>
  /\ UNCHANGED <<sourcePc, consumed, atAdapter, filling, frameQueue, queueBuf, leaked, mapRaced, sourceCrashed, allocations>>

(* It looks the buffer up in an array that may be gone by now, or just being  *)
(* filled.                                                                    *)
GiveBack ==
  /\ Up /\ tapReturn # NoBuf /\ tapReturn' = NoBuf /\ mapRaced' = (mapRaced \/ tapReturn = queueBuf)
  /\ IF sourcePc # "ready" THEN sourceCrashed' = TRUE /\ UNCHANGED <<atAdapter, filling>>
     ELSE atAdapter' = atAdapter \cup {tapReturn} /\ filling' = filling \cup {tapReturn} /\ UNCHANGED sourceCrashed
  /\ UNCHANGED <<sourcePc, window, frameQueue, queueBuf, waiting, leaked, bounds>>
-----------------------------------------------------------------------------
QueueThread == Enqueue \/ RemoveFromMap
ReturnThread == DequeueReturned \/ GiveBack
Hal == DequeueOne \/ KeepSome \/ AllocateFails
Next == Hal \/ Allocate \/ FreeBufferList \/ AddFrame \/ QueueThread \/ Consume \/ ReturnThread

Spec == Init /\ [][Next]_sourceVars /\ WF_sourceVars(QueueThread) /\ WF_sourceVars(ReturnThread) /\ WF_sourceVars(Consume)
-----------------------------------------------------------------------------
Queued == {frameQueue[i].buf : i \in {i \in DOMAIN frameQueue : frameQueue[i].list = allocations}}

TypeOK ==
  /\ atAdapter \subseteq SourceBufs /\ filling \subseteq SourceBufs /\ queueBuf \in SourceBufs \cup {NoBuf}
  /\ waiting \in 0 .. Cardinality(SourceBufs) * (1 + Allocations)

(* The buffers to cancel are those the window has not got: the camera         *)
(* adapter's and those of the frames on their way to it; unless the same      *)
(* buffer has come back before it was removed.                                *)
MapMatchesAdapter ==
  (sourcePc = "ready" /\ ~sourceCrashed /\ ~mapRaced /\ queueBuf = NoBuf) => atAdapter = filling \cup Queued

(* No buffer is lost between the window, its consumer, the threads and the    *)
(* camera adapter.                                                            *)
NoBufferGone ==
  (~sourceCrashed /\ ~mapRaced /\ ~isSourceGone) =>
    (UNION {freeInSource, consumed, atAdapter, leaked, {tapReturn}, {queueBuf}}) \ {NoBuf} = SourceBufs

(* An image sent to the tap-out point leaves the queue.                       *)
InQueue(b) == \E i \in DOMAIN frameQueue : frameQueue[i].buf = b
LeftQueue(b) == ~InQueue(b) \/ sourceCrashed
FramesLeave == \A b \in SourceBufs : InQueue(b) ~> LeftQueue(b)
=============================================================================
