----------------------------- MODULE EncoderProxy -----------------------------
(* The proxy of the H.264 encoder (omx_proxy_h264enc.c) when its input is in  *)
(* the opaque format of the GPU: every frame is converted into an internal    *)
(* NV12 buffer whose index travels round a pipe (timm_osal_pipes.c).  The     *)
(* MPEG-4 proxy is the same program.  The client calls from one thread, the   *)
(* encoder answers in order from another.                                     *)
EXTENDS Naturals, Sequences, FiniteSets, TLC

CONSTANTS
  InputHeaders,      \* input buffers of the client
  EncoderFrames,     \* frames given in one run
  EncoderFaults      \* calls that fail

VARIABLES
  encPc,             \* "loading", "running", "sent", "freeing", "crashed" or "closed"
  bAndroidOpaqueFormat, remoteFormat,
  askedFormat,       \* the last the client has set
  proxyBufferType,   \* metadata, or not
  devices,           \* allocation devices open
  gralloc_handle,    \* by index: "none", "live", "stale"
  nCurBufIndex,
  hBufPipe, messageCount,
  inputs,            \* input headers allocated
  encoding,          \* what the encoder has: pairs of header and index, in order
  submitted,         \* of the call under way
  altered,           \* headers whose pBuffer is not the client's
  spoiled,           \* an index was converted into while the encoder read it
  stuffed,           \* an index has been put back that was not taken
  converted,         \* FALSE once a conversion has failed
  refused,           \* headers the encoder has refused
  freedTwice, halfAllocated,
  encFrames, encFaults

encoderVars == <<encPc, bAndroidOpaqueFormat, remoteFormat, askedFormat, proxyBufferType, devices, gralloc_handle, nCurBufIndex, hBufPipe,
                 messageCount, inputs, encoding, submitted, altered, spoiled, stuffed, converted, refused, freedTwice, halfAllocated,
                 encFrames, encFaults>>
formats == <<bAndroidOpaqueFormat, remoteFormat, askedFormat, proxyBufferType, devices>>
indices == <<gralloc_handle, nCurBufIndex, freedTwice, halfAllocated>>
pipe == <<hBufPipe, messageCount>>
frames == <<encoding, submitted, altered, spoiled, stuffed, converted, refused, encFrames>>

Indices == 0 .. Cardinality(InputHeaders) - 1
NoIndex == Cardinality(InputHeaders)           \* the encoder has the frame of the client itself
Fault == encFaults < EncoderFaults /\ encFaults' = encFaults + 1
Free(index) == [gralloc_handle EXCEPT ![index] = "none"]
-----------------------------------------------------------------------------
(* The pipe holds the indices, and beside them a count that is kept apart.    *)
CreatePipe == hBufPipe = <<>> /\ messageCount = 0
WriteToPipe(index) == hBufPipe' = Append(hBufPipe, index) /\ messageCount' = messageCount + 1
DropFromPipe == hBufPipe' = Tail(hBufPipe) /\ messageCount' = messageCount - 1
IsPipeReady == messageCount > 0

(* ReadFromPipe() and WriteToPipe() in one: the index goes to the end.        *)
Recirculate == hBufPipe' = Append(Tail(hBufPipe), Head(hBufPipe)) /\ UNCHANGED messageCount

ComponentInit ==
  /\ encPc = "loading" /\ CreatePipe /\ nCurBufIndex = 0 /\ gralloc_handle = [i \in Indices |-> "none"]
  /\ bAndroidOpaqueFormat = FALSE /\ remoteFormat = "nv12" /\ askedFormat = "nv12" /\ proxyBufferType = "virtual" /\ devices = 0

Init ==
  /\ ComponentInit /\ inputs = {} /\ encoding = <<>> /\ submitted = <<>> /\ altered = {} /\ spoiled = FALSE /\ stuffed = FALSE
  /\ converted = TRUE /\ refused = {} /\ freedTwice = FALSE /\ halfAllocated = FALSE /\ encFrames = 0 /\ encFaults = 0
-----------------------------------------------------------------------------
(* COLORCONVERT_open(): the device of an earlier call is forgotten.           *)
OpenConverter == devices' = (IF devices = 2 THEN 2 ELSE devices + 1)
CloseConverter == devices' = (IF devices = 0 THEN 0 ELSE devices - 1)

(* Setting the format of the port: opaque is not sent to the encoder, and is  *)
(* not taken back by another format.                                          *)
SetFormat(format) ==
  /\ encPc = "loading" /\ inputs = {}
  /\ IF format = "opaque" THEN OpenConverter /\ bAndroidOpaqueFormat' = TRUE ELSE UNCHANGED <<devices, bAndroidOpaqueFormat>>
  /\ askedFormat' = format /\ remoteFormat' = "nv12"
  /\ UNCHANGED <<encPc, proxyBufferType, pipe, inputs, indices, frames, encFaults>>

(* The format the client reads back.                                          *)
GetFormat == IF remoteFormat = "nv12" /\ bAndroidOpaqueFormat THEN "opaque" ELSE remoteFormat

StoreMetaData ==
  /\ encPc = "loading" /\ inputs = {} /\ proxyBufferType = "virtual" /\ proxyBufferType' = "metadata"
  /\ UNCHANGED <<encPc, bAndroidOpaqueFormat, remoteFormat, askedFormat, devices, pipe, inputs, indices, frames, encFaults>>

(* A buffer whose allocation fails at the encoder is freed, and its handle is *)
(* left in the table; so is one that was never allocated.                     *)
AllocateBuffer(h) ==
  /\ encPc = "loading" /\ h \notin inputs
  /\ \/ /\ inputs' = inputs \cup {h} /\ encPc' = (IF inputs' = InputHeaders THEN "running" ELSE "loading")
        /\ IF bAndroidOpaqueFormat
             THEN /\ gralloc_handle' = [gralloc_handle EXCEPT ![nCurBufIndex] = "live"]
                  /\ WriteToPipe(nCurBufIndex) /\ nCurBufIndex' = nCurBufIndex + 1
             ELSE UNCHANGED <<gralloc_handle, pipe, nCurBufIndex>>
        /\ UNCHANGED <<freedTwice, halfAllocated, encFaults>>
     \/ /\ Fault /\ encPc' = "freeing" /\ halfAllocated' = bAndroidOpaqueFormat /\ UNCHANGED <<pipe, inputs, nCurBufIndex>>
        /\ IF bAndroidOpaqueFormat
             THEN \/ gralloc_handle' = [gralloc_handle EXCEPT ![nCurBufIndex] = "stale"] /\ UNCHANGED freedTwice
                  \/ UNCHANGED gralloc_handle /\ freedTwice' = (freedTwice \/ gralloc_handle[nCurBufIndex] = "stale")
             ELSE UNCHANGED <<gralloc_handle, freedTwice>>
  /\ UNCHANGED <<formats, frames>>
-----------------------------------------------------------------------------
WithEncoder(index) == \E i \in DOMAIN encoding : encoding[i][2] = index
Waiting(h) == \E i \in DOMAIN encoding : encoding[i][1] = h

(* The header goes to the encoder, or it fails to: the result is not looked   *)
(* at, and the header does not come back.                                     *)
Send(h, index) ==
  /\ submitted' = <<h, index>> /\ encPc' = "sent"
  /\ \/ encoding' = Append(encoding, <<h, index>>) /\ UNCHANGED <<encFaults, refused>>
     \/ Fault /\ refused' = refused \cup {h} /\ UNCHANGED encoding

(* A header that refers to a buffer of the GPU: the frame is converted.       *)
ConvertAndSend(h) ==
  LET index == Head(hBufPipe) IN
  /\ hBufPipe # <<>>
  /\ \/ Send(h, index) /\ UNCHANGED <<pipe, converted>>
     \/ Fault /\ converted' = FALSE /\ Recirculate /\ UNCHANGED <<submitted, encPc, encoding, refused>>
  /\ altered' = altered \cup {h}
  /\ spoiled' = (spoiled \/ WithEncoder(index)) /\ UNCHANGED stuffed

(* Any other is sent as it is.                                                *)
SendUnconverted(h, kind) ==
  /\ Send(h, NoIndex) /\ altered' = altered \cup (IF kind = "end" \/ proxyBufferType # "metadata" THEN {} ELSE {h})
  /\ UNCHANGED <<pipe, converted, spoiled, stuffed>>

(* A frame of the GPU, one of the camera, or the end of the stream, which is  *)
(* an empty buffer.                                                           *)
EmptyThisBuffer(h, kind) ==
  /\ encPc = "running" /\ h \in inputs /\ ~Waiting(h) /\ h \notin refused /\ encFrames < EncoderFrames /\ encFrames' = encFrames + 1
  /\ IF proxyBufferType = "metadata" /\ kind = "gralloc" /\ bAndroidOpaqueFormat THEN ConvertAndSend(h) ELSE SendUnconverted(h, kind)
  /\ UNCHANGED <<formats, inputs, indices>>

(* The index goes back into the pipe before the encoder is done with it; a    *)
(* frame that was not converted puts index 0 there.  The header is restored.  *)
Restore ==
  /\ encPc = "sent" /\ encPc' = "running" /\ submitted' = <<>>
  /\ IF bAndroidOpaqueFormat
       THEN IF submitted[2] = NoIndex THEN WriteToPipe(0) /\ stuffed' = TRUE
            ELSE Recirculate /\ UNCHANGED stuffed
       ELSE UNCHANGED <<pipe, stuffed>>
  /\ altered' = altered \ {submitted[1]}
  /\ UNCHANGED <<formats, inputs, indices, encoding, spoiled, converted, refused, encFrames, encFaults>>

(* The encoder is done with its oldest frame.                                 *)
EmptyBufferDone ==
  /\ encoding # <<>> /\ encoding' = Tail(encoding)
  /\ UNCHANGED <<encPc, formats, indices, pipe, inputs, submitted, altered, spoiled, stuffed, converted, refused, encFrames, encFaults>>
-----------------------------------------------------------------------------
Stop ==
  /\ encPc = "running" /\ encoding = <<>> /\ encPc' = "freeing"
  /\ UNCHANGED <<formats, indices, pipe, inputs, frames, encFaults>>

(* The last handle is freed, and the first index of the pipe is dropped.      *)
FreeBuffer(h) ==
  /\ encPc = "freeing" /\ h \in inputs /\ inputs' = inputs \ {h}
  /\ IF bAndroidOpaqueFormat
       THEN /\ nCurBufIndex' = nCurBufIndex - 1 /\ gralloc_handle' = Free(nCurBufIndex - 1)
            /\ IF IsPipeReady THEN DropFromPipe ELSE UNCHANGED pipe
       ELSE UNCHANGED <<nCurBufIndex, gralloc_handle, pipe>>
  /\ UNCHANGED <<encPc, formats, freedTwice, halfAllocated, frames, encFaults>>

(* The component is loaded again, or let go.                                  *)
Reload ==
  /\ encPc = "freeing" /\ inputs = {} /\ encPc' = "loading" /\ altered' = {} /\ refused' = {}
  /\ UNCHANGED <<formats, indices, pipe, inputs, encoding, submitted, spoiled, stuffed, converted, encFrames, encFaults>>

ComponentDeInit ==
  /\ encPc = "freeing" /\ inputs = {} /\ encPc' = "closed"
  /\ hBufPipe' = <<>> /\ messageCount' = 0
  /\ IF bAndroidOpaqueFormat
       THEN /\ gralloc_handle' = [i \in Indices |-> "none"] /\ freedTwice' = (freedTwice \/ \E i \in Indices : gralloc_handle[i] = "stale")
            /\ CloseConverter /\ bAndroidOpaqueFormat' = FALSE
       ELSE UNCHANGED <<gralloc_handle, freedTwice, devices, bAndroidOpaqueFormat>>
  /\ UNCHANGED <<remoteFormat, askedFormat, proxyBufferType, nCurBufIndex, inputs, halfAllocated, frames, encFaults>>

Client ==
  \/ \E f \in {"opaque", "nv12"} : SetFormat(f)
  \/ StoreMetaData
  \/ \E h \in InputHeaders : AllocateBuffer(h) \/ FreeBuffer(h)
  \/ \E h \in InputHeaders, kind \in {"gralloc", "camera", "end"} : EmptyThisBuffer(h, kind)
  \/ Stop \/ Reload \/ ComponentDeInit
Next == Client \/ Restore \/ EmptyBufferDone

Spec == Init /\ [][Next]_encoderVars /\ WF_encoderVars(Restore) /\ WF_encoderVars(EmptyBufferDone)
-----------------------------------------------------------------------------
TypeOK ==
  /\ encPc \in {"loading", "running", "sent", "freeing", "closed"} /\ nCurBufIndex \in 0 .. NoIndex
  /\ gralloc_handle \in [Indices -> {"none", "live", "stale"}] /\ messageCount = Len(hBufPipe) /\ inputs \subseteq InputHeaders

(* While frames are given, the pipe has every internal buffer exactly once:   *)
(* as long as only converted frames put an index back.                        *)
EveryIndexOnce ==
  (encPc = "running" /\ bAndroidOpaqueFormat /\ ~stuffed) =>
    /\ Len(hBufPipe) = Cardinality(InputHeaders)
    /\ \A i \in Indices : gralloc_handle[i] = "live" /\ \E k \in DOMAIN hBufPipe : hBufPipe[k] = i

(* A frame is not converted into the buffer the encoder still reads, though   *)
(* its index is back in the pipe: the oldest index is taken, and the header   *)
(* that had it must be back.  A failed conversion upsets the order.           *)
EncodedInPeace == (converted /\ ~stuffed) => ~spoiled

(* The client's header is its own again when the call has returned.           *)
HeadersRestored == (encPc = "running" /\ proxyBufferType = "metadata" /\ converted) => altered = {}

(* No handle is freed twice unless an allocation had failed.                  *)
FreedOnce == ~halfAllocated => ~freedTwice

(* The client gets every header back that was not refused.                    *)
HeadersComeBack == \A h \in InputHeaders : Waiting(h) ~> ~Waiting(h)
=============================================================================
