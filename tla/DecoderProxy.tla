----------------------------- MODULE DecoderProxy -----------------------------
(* The proxy of the video decoder (omx_proxy_videodec.c): it locks a graphics *)
(* buffer while the decoder has it, and sets the stride of 2D buffers before  *)
(* they are given to the port.  The client calls from one thread; the answers *)
(* of the decoder come on the callback thread.                                *)
EXTENDS Naturals, FiniteSets

CONSTANTS
  OutputBuffers,     \* graphics buffers of the output port
  PortSettings,      \* times the client sets the port's definition
  DecoderFaults      \* calls and commands that fail

VARIABLES
  decoderState,      \* of the remote component: "loaded", "toIdle", "idle" or "toLoaded"
  IsLoadedState,
  outputPort,        \* "enabled" or "disabled"
  stride,            \* of the output port: "client" or "page"
  place,             \* of a buffer: "client", "decoder", "done", "unlocked" or "refused"
  locks,             \* held on each graphics buffer
  commandFailed,     \* a change of state has failed after the stride was set
  portSettings, decFaults

decoderVars == <<decoderState, IsLoadedState, outputPort, stride, place, locks, commandFailed, portSettings, decFaults>>
port == <<outputPort, stride>>
states == <<decoderState, IsLoadedState, commandFailed>>
buffers == <<place, locks>>

OMX_ProxyViddecInit == decoderState = "loaded" /\ IsLoadedState = TRUE /\ outputPort = "enabled" /\ stride = "client"
Init ==
  /\ OMX_ProxyViddecInit /\ place = [b \in OutputBuffers |-> "client"] /\ locks = [b \in OutputBuffers |-> 0]
  /\ commandFailed = FALSE /\ portSettings = 0 /\ decFaults = 0

Fault == decFaults < DecoderFaults /\ decFaults' = decFaults + 1
AtClient == \A b \in OutputBuffers : place[b] \in {"client", "refused"}
-----------------------------------------------------------------------------
(* The port's definition is set with the stride the client has; formats are   *)
(* translated and sent on.                                                    *)
SetParameter ==
  /\ decoderState = "loaded" \/ outputPort = "disabled"
  /\ portSettings < PortSettings /\ portSettings' = portSettings + 1 /\ stride' = "client"
  /\ UNCHANGED <<outputPort, states, buffers, decFaults>>

SetStrideAndPadding == stride' = "page"

(* The stride is set before the first command to idle.  It is not set again   *)
(* if that command fails and the port is defined anew.                        *)
ToIdle ==
  /\ decoderState = "loaded"
  /\ \/ Fault /\ IsLoadedState /\ UNCHANGED <<stride, states>>                \* the stride could not be set
     \/ /\ IF IsLoadedState THEN SetStrideAndPadding /\ IsLoadedState' = FALSE ELSE UNCHANGED <<stride, IsLoadedState>>
        /\ \/ decoderState' = "toIdle" /\ UNCHANGED <<commandFailed, decFaults>>
           \/ Fault /\ commandFailed' = TRUE /\ UNCHANGED decoderState
  /\ UNCHANGED <<outputPort, buffers, portSettings>>

ToLoaded ==
  /\ decoderState = "idle" /\ AtClient /\ decoderState' = "toLoaded"
  /\ UNCHANGED <<IsLoadedState, commandFailed, port, buffers, portSettings, decFaults>>

(* The output port is enabled again, as after a change of its size.           *)
PortEnable ==
  /\ decoderState = "idle" /\ outputPort = "disabled"
  /\ \/ SetStrideAndPadding /\ outputPort' = "enabled" /\ UNCHANGED decFaults
     \/ Fault /\ UNCHANGED <<stride, outputPort>>
  /\ UNCHANGED <<states, buffers, portSettings>>

PortDisable ==
  /\ decoderState = "idle" /\ outputPort = "enabled" /\ AtClient /\ outputPort' = "disabled"
  /\ UNCHANGED <<stride, states, buffers, portSettings, decFaults>>

(* The decoder has changed its state, or says that it could not.              *)
EventHandler ==
  /\ \/ decoderState = "toIdle" /\ decoderState' = "idle" /\ UNCHANGED <<IsLoadedState, commandFailed, decFaults>>
     \/ decoderState = "toIdle" /\ Fault /\ decoderState' = "loaded" /\ commandFailed' = TRUE /\ UNCHANGED IsLoadedState
     \/ decoderState = "toLoaded" /\ decoderState' = "loaded" /\ IsLoadedState' = TRUE /\ UNCHANGED <<commandFailed, decFaults>>
  /\ UNCHANGED <<port, buffers, portSettings>>
-----------------------------------------------------------------------------
(* The buffer is locked before it is sent.  The proxy's own failure to send   *)
(* it is not reported, and leaves it locked.                                  *)
FillThisBuffer(b) ==
  /\ decoderState = "idle" /\ outputPort = "enabled" /\ place[b] = "client"
  /\ \/ Fault /\ UNCHANGED buffers                                            \* the frame's size could not be read
     \/ /\ locks' = [locks EXCEPT ![b] = @ + 1]
        /\ \/ place' = [place EXCEPT ![b] = "decoder"] /\ UNCHANGED decFaults
           \/ Fault /\ place' = [place EXCEPT ![b] = "refused"]
  /\ UNCHANGED <<states, port, portSettings>>

Decoded(b) ==
  /\ place[b] = "decoder" /\ place' = [place EXCEPT ![b] = "done"]
  /\ UNCHANGED <<states, port, locks, portSettings, decFaults>>

(* PROXY_VIDDEC_FillBufferDone(): the lock is let go, then the client called. *)
Unlock(b) ==
  /\ place[b] = "done" /\ \A c \in OutputBuffers : place[c] # "unlocked"
  /\ place' = [place EXCEPT ![b] = "unlocked"] /\ locks' = [locks EXCEPT ![b] = @ - 1]
  /\ UNCHANGED <<states, port, portSettings, decFaults>>

FillBufferDone(b) ==
  /\ place[b] = "unlocked" /\ place' = [place EXCEPT ![b] = "client"]
  /\ UNCHANGED <<states, port, locks, portSettings, decFaults>>

Client == SetParameter \/ ToIdle \/ ToLoaded \/ PortEnable \/ PortDisable \/ \E b \in OutputBuffers : FillThisBuffer(b)
Answers(b) == Decoded(b) \/ Unlock(b) \/ FillBufferDone(b)
Next == Client \/ EventHandler \/ \E b \in OutputBuffers : Answers(b)

Spec == Init /\ [][Next]_decoderVars /\ \A b \in OutputBuffers : SF_decoderVars(Answers(b))
-----------------------------------------------------------------------------
TypeOK ==
  /\ decoderState \in {"loaded", "toIdle", "idle", "toLoaded"} /\ outputPort \in {"enabled", "disabled"} /\ stride \in {"client", "page"}
  /\ place \in [OutputBuffers -> {"client", "decoder", "done", "unlocked", "refused"}] /\ locks \in [OutputBuffers -> 0 .. 1]

(* The decoder writes only buffers that are locked, once, and none stays      *)
(* locked that it has given back.                                             *)
LockedWhileDecoding == \A b \in OutputBuffers : (locks[b] = 1) <=> (place[b] \in {"decoder", "done", "refused"})

(* The decoder never runs on an enabled port that has not the stride of 2D    *)
(* buffers, unless a command to idle had failed before.                       *)
StrideOfBuffers == (decoderState = "idle" /\ outputPort = "enabled" /\ ~commandFailed) => stride = "page"

AtDecoder(b) == place[b] = "decoder"
BackFromDecoder(b) == place[b] = "client"
BuffersDecoded == \A b \in OutputBuffers : AtDecoder(b) ~> BackFromDecoder(b)
=============================================================================
