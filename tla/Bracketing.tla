------------------------------ MODULE Bracketing ------------------------------
(* Temporal bracketing of the OMX camera adapter (OMXCapture.cpp): from the   *)
(* start of the bracketing on, the callback thread keeps the newest images in *)
(* a ring of buffers, one of which is always with the component; when the     *)
(* picture is taken, those of the ring are sent, and then the following ones. *)
EXTENDS Integers, Sequences, FiniteSets

CONSTANTS
  RingSize,       \* image buffers
  BracketRange,          \* the range of startBracketing()
  MaxImages       \* images of the component

VARIABLES
  bState,         \* adapter state: "preview", "bracketing", "capture"
  bPc,            \* the call: "idle", "enable", "commit", "stop"
  enabled,        \* mBracketingEnabled
  queued, count, last,   \* mBracketingBuffersQueued, ..Count, mLastBracetingBufferIdx
  atComponent,    \* the buffers the component fills, in order
  atApp,          \* the buffers of images that were sent
  stamp,          \* the number of the image in a buffer
  images,         \* the images so far
  sent,           \* the numbers of the images that were sent
  captured,       \* mCapturedFrames
  accum, burst,   \* mBurstFramesAccum, mBurstFramesQueued
  escaped         \* an image came while the bracketing was being started

ringVars == <<bState, bPc, enabled, queued, count, last, atComponent, atApp, stamp, images, sent, captured,
              accum, burst, escaped>>
ring == <<queued, count, last>>
burstVars == <<captured, accum, burst>>

Ring == 0 .. RingSize - 1
After(b, n) == (b + n) % RingSize

Init ==
  /\ bState = "preview" /\ bPc = "idle" /\ enabled = FALSE
  /\ queued = [b \in Ring |-> FALSE] /\ count = 0 /\ last = 0
  /\ atComponent = <<>> /\ atApp = {} /\ stamp = [b \in Ring |-> 0] /\ images = 0 /\ sent = <<>>
  /\ captured = 1 /\ accum = 0 /\ burst = 0 /\ escaped = FALSE
-----------------------------------------------------------------------------
(* startBracketing(), in three steps: the buffers are given to the component  *)
(* by startImageCapture(TRUE), then mBracketingEnabled is set, and the state  *)
(* is committed last.                                                         *)
StartBracketing ==
  /\ bState = "preview" /\ bPc = "idle" /\ images < MaxImages /\ bPc' = "enable"
  /\ queued' = [b \in Ring |-> TRUE] /\ count' = RingSize /\ last' = RingSize - 1 /\ accum' = RingSize
  /\ atComponent' = [i \in 1 .. RingSize |-> i - 1] /\ burst' = RingSize
  /\ captured' = 1    \* UseBuffersCapture()
  /\ UNCHANGED <<bState, enabled, atApp, stamp, images, sent, escaped>>

Enable ==
  /\ bPc = "enable" /\ bPc' = "commit" /\ enabled' = TRUE
  /\ UNCHANGED <<bState, ring, atComponent, atApp, stamp, images, sent, burstVars, escaped>>

Commit ==
  /\ bPc = "commit" /\ bPc' = "idle" /\ bState' = "bracketing"
  /\ UNCHANGED <<enabled, ring, atComponent, atApp, stamp, images, sent, burstVars, escaped>>

FromLast == [n \in 1 .. RingSize |-> After(last, n)]

(* sendBracketFrames(): the images of the ring, from the one after the last   *)
(* that was given to the component; at[i] is the place of the i-th.           *)
SendBracketFrames ==
  LET held == {n \in 1 .. RingSize : ~queued[FromLast[n]]}
      h == Cardinality(held)
  IN \E at \in [1 .. h -> held] :
       /\ \A i, j \in 1 .. h : i < j => at[i] < at[j]
       /\ sent' = sent \o [i \in 1 .. h |-> stamp[FromLast[at[i]]]]
       /\ atApp' = atApp \cup {FromLast[n] : n \in held}
       /\ captured' = IF h < BracketRange - 1 THEN BracketRange + (BracketRange - 1 - h) ELSE BracketRange

(* startImageCapture(FALSE): the bracketing ends, under mBracketingLock.      *)
TakePicture ==
  /\ bState = "bracketing" /\ bPc = "idle" /\ enabled
  /\ enabled' = FALSE /\ SendBracketFrames /\ accum' = captured' /\ burst' = 0 /\ bState' = "capture"
  /\ UNCHANGED <<bPc, ring, atComponent, stamp, images, escaped>>

(* stopImageCapture() takes the buffers back.  It is all that ends a capture; *)
(* stopBracketing() then frees the ring under mBracketingLock.                *)
StopImageCapture ==
  /\ bState # "preview" /\ bPc = "idle"
  /\ IF bState = "capture" THEN bState' = "preview" /\ UNCHANGED bPc ELSE bPc' = "stop" /\ UNCHANGED bState
  /\ atComponent' = <<>> /\ atApp' = {}
  /\ UNCHANGED <<enabled, ring, stamp, images, sent, burstVars, escaped>>

StopBracketing ==
  /\ bPc = "stop" /\ bPc' = "idle" /\ bState' = "preview" /\ enabled' = FALSE
  /\ queued' = [b \in Ring |-> FALSE] /\ count' = 0 /\ last' = 0
  /\ UNCHANGED <<atComponent, atApp, stamp, images, sent, burstVars, escaped>>
-----------------------------------------------------------------------------
(* The callback thread, with the next image of the component.                 *)

Filled(b) == b = Head(atComponent) /\ images < MaxImages /\ images' = images + 1 /\ stamp' = [stamp EXCEPT ![b] = images']

(* doBracketing(): once no buffer is left with the component, the next one of *)
(* the ring is given back to it.                                              *)
DoBracketing(b) ==
  LET next == After(b, 1)
  IN IF count - 1 <= 0
       THEN /\ queued' = [queued EXCEPT ![b] = FALSE, ![next] = TRUE] /\ count' = count /\ last' = next
            /\ atComponent' = Append(Tail(atComponent), next)
       ELSE /\ queued' = [queued EXCEPT ![b] = FALSE] /\ count' = count - 1 /\ last' = last
            /\ atComponent' = Tail(atComponent)

FillBufferDone ==
  /\ atComponent # <<>> /\ bPc # "stop"
  /\ \E b \in Ring :
       /\ Filled(b)
       /\ IF bState = "preview"    \* not yet committed: the image is dropped
            THEN /\ atComponent' = Tail(atComponent) /\ escaped' = TRUE
                 /\ UNCHANGED <<ring, atApp, sent, captured>>
          ELSE IF enabled THEN DoBracketing(b) /\ UNCHANGED <<atApp, sent, captured, escaped>>
          ELSE /\ atComponent' = Tail(atComponent)
               /\ IF captured < 1 THEN UNCHANGED <<sent, atApp, captured>>
                  ELSE captured' = captured - 1 /\ sent' = Append(sent, images') /\ atApp' = atApp \cup {b}
               /\ UNCHANGED <<ring, escaped>>
  /\ UNCHANGED <<bState, bPc, enabled, accum, burst>>

(* fillThisBuffer() for an image that the application has returned.           *)
ReturnFrame ==
  /\ ~enabled /\ bPc # "stop"
  /\ \E b \in atApp :
       /\ atApp' = atApp \ {b}
       /\ IF captured >= 1 /\ burst < accum THEN burst' = burst + 1 /\ atComponent' = Append(atComponent, b)
          ELSE UNCHANGED <<burst, atComponent>>
  /\ UNCHANGED <<bState, bPc, enabled, ring, stamp, images, sent, captured, accum, escaped>>
-----------------------------------------------------------------------------
Next ==
  \/ StartBracketing \/ Enable \/ Commit \/ TakePicture \/ StopImageCapture \/ StopBracketing
  \/ FillBufferDone \/ ReturnFrame

Spec == Init /\ [][Next]_ringVars
-----------------------------------------------------------------------------
TypeOK ==
  /\ bState \in {"preview", "bracketing", "capture"} /\ queued \in [Ring -> BOOLEAN] /\ count \in 0 .. RingSize /\ last \in Ring
  /\ atApp \subseteq Ring /\ captured \in 0 .. 2 * BracketRange - 1

(* While the ring turns, a buffer is marked as queued exactly if the          *)
(* component has it, and it always has one: the bracketing does not stop.     *)
RingTurns ==
  (enabled /\ bState = "bracketing" /\ bPc = "idle" /\ ~escaped) =>
    /\ {b \in Ring : queued[b]} = {atComponent[i] : i \in DOMAIN atComponent}
    /\ count = Len(atComponent) /\ count > 0

(* The images arrive in the order they were taken, and none twice.            *)
SentInOrder == \A i, j \in DOMAIN sent : i < j => sent[i] < sent[j]
=============================================================================
