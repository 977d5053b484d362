------------------------------ MODULE OmxProxy ------------------------------
(* A component proxy of domx and the remote calls under it                    *)
(* (omx_proxy_common.c, omx_rpc.c, omx_rpc_stub.c, omx_rpc_skel.c).  A call   *)
(* writes a packet to the device and reads the answer from the pipe of its    *)
(* function; the callback thread reads the device, puts the answers into the  *)
(* pipes and runs the callbacks of the component.  A packet carries no        *)
(* number: the next reader of a pipe takes the next answer.                   *)
(* A header is named by the header of the remote side that it stands for.     *)
EXTENDS Naturals, Sequences, FiniteSets

CONSTANTS
  ProxyThreads,   \* threads of the client
  Opener,         \* the one of them that opens, closes and allocates
  RemoteHdrs,     \* headers the remote component can make
  ProxySlots,     \* 1 .. MAX_NUM_PROXY_BUFFERS
  PlainCalls,     \* calls of one packet that only pass values on
  ProxyFaults     \* remote calls that may fail

VARIABLES
  proxy,          \* pComponentPrivate and its context: "none", "open", "closed"
  cbThread,       \* RPC_CallbackThread(): "none", "running", "gone"
  remote,         \* the remote processor: "alive", "dead"
  op,             \* thread -> call of the client
  opBuf,          \* thread -> its buffer
  rpcs,           \* thread -> remote calls left, the first one being waited for
  toRemote,       \* packets written and not served
  toHost,         \* packets of the remote side not read
  pMsgPipe,       \* function -> answers in its pipe
  tBufList,       \* slot -> header, or None
  nTotalBuffers, nAllocatedBuffers,
  client,         \* headers the client may use
  remoteBufs,     \* headers the remote component has
  remoteHolds,    \* those it is to fill
  stray,          \* headers whose slot was never made, or freed on one side only
  events,         \* set of what the client was told
  proxyFaults

rpcVars == <<proxy, cbThread, remote, pMsgPipe, toRemote, toHost>>
slotVars == <<tBufList, nTotalBuffers, nAllocatedBuffers>>
remoteVars == <<remoteBufs, remoteHolds>>
proxyVars == <<rpcVars, slotVars, remoteVars, op, opBuf, rpcs, client, stray, events, proxyFaults>>

NoHdr == 0
Functions == {"GetHandle", "FreeHandle", "GetParameter", "UseBuffer", "FreeBuffer",
              "FillThisBuffer", "EmptyThisBuffer"} \cup PlainCalls
Callbacks == {"FillBufferDone", "EmptyBufferDone", "EventHandler"}

(* The remote calls of each call: UseBuffer() asks for the stride and for the *)
(* metadata of the port first, AllocateBuffer() for the stride once more.     *)
RemoteCalls ==
  [o \in {"open", "close", "use", "allocate", "free", "fill", "empty"} \cup PlainCalls |->
     CASE o = "open"  -> <<"GetHandle">>
       [] o = "close" -> <<"FreeHandle">>
       [] o = "use"   -> <<"GetParameter", "GetParameter", "UseBuffer">>
       [] o = "allocate" -> <<"GetParameter", "GetParameter", "GetParameter", "UseBuffer">>
       [] o = "free"  -> <<"FreeBuffer">>
       [] o = "fill"  -> <<"FillThisBuffer">>
       [] o = "empty" -> <<"EmptyThisBuffer">>
       [] OTHER       -> <<o>>]

Init ==
  /\ proxy = "none" /\ cbThread = "none" /\ remote = "alive"
  /\ op = [t \in ProxyThreads |-> "idle"] /\ opBuf = [t \in ProxyThreads |-> NoHdr]
  /\ rpcs = [t \in ProxyThreads |-> <<>>]
  /\ toRemote = <<>> /\ toHost = <<>> /\ pMsgPipe = [f \in Functions |-> <<>>]
  /\ tBufList = [s \in ProxySlots |-> NoHdr]
  /\ nTotalBuffers = 0 /\ nAllocatedBuffers = 0
  /\ client = {} /\ remoteBufs = {} /\ remoteHolds = {} /\ stray = {} /\ events = {}
  /\ proxyFaults = 0

Idle(t) == op[t] = "idle"
Packet(t, f, b) == [fn |-> f, by |-> t, hdr |-> b]
Used == {s \in ProxySlots : tBufList[s] # NoHdr}
Fail == proxyFaults < ProxyFaults /\ proxyFaults' = proxyFaults + 1

(* RPC_sendPacket_sync(), the half that writes.                               *)
Call(t, o, b) ==
  /\ Idle(t) /\ remote = "alive"
  /\ op' = [op EXCEPT ![t] = o] /\ opBuf' = [opBuf EXCEPT ![t] = b]
  /\ rpcs' = [rpcs EXCEPT ![t] = RemoteCalls[o]]
  /\ toRemote' = Append(toRemote, Packet(t, RemoteCalls[o][1], b))

(* OMX_ProxyCommonInit(): RPC_InstanceInit() makes the pipes and the callback *)
(* thread, then the remote handle is asked for.                               *)
ProxyInit(t) ==
  /\ t = Opener /\ proxy = "none" /\ Call(t, "open", NoHdr)
  /\ proxy' = "open" /\ cbThread' = "running"
  /\ UNCHANGED <<remote, pMsgPipe, toHost, slotVars, remoteVars, client, stray, events, proxyFaults>>

(* UseBuffer(), AllocateBuffer(): refused when every slot was used once.      *)
UseBuffer(t, o) ==
  /\ t = Opener /\ proxy = "open" /\ nTotalBuffers < Cardinality(ProxySlots)
  /\ "handle" \in events /\ Call(t, o, NoHdr)
  /\ UNCHANGED <<proxy, cbThread, remote, pMsgPipe, toHost, slotVars, remoteVars, client, stray, events, proxyFaults>>

(* A header that is given up must be in the list.                             *)
Known(b) == \E s \in 1 .. nTotalBuffers : tBufList[s] = b

Give(t, o, b) ==
  /\ proxy = "open" /\ b \in client /\ Known(b) /\ Call(t, o, b)
  /\ client' = client \ {b}
  /\ UNCHANGED <<proxy, cbThread, remote, pMsgPipe, toHost, slotVars, remoteVars, stray, events, proxyFaults>>

FillThisBuffer(t, b)  == Give(t, "fill", b)
EmptyThisBuffer(t, b) == t = Opener /\ Give(t, "empty", b)
FreeBuffer(t, b)      == t = Opener /\ Give(t, "free", b)

(* The calls that pass a structure on.  Bound: all but SendCommand() are made *)
(* before there are buffers.                                                  *)
Plain(t, f) ==
  /\ t = Opener /\ f \in PlainCalls /\ proxy = "open" /\ "handle" \in events
  /\ f # "SendCommand" => nTotalBuffers = 0
  /\ Call(t, f, NoHdr)
  /\ UNCHANGED <<proxy, cbThread, remote, pMsgPipe, toHost, slotVars, remoteVars, client, stray, events, proxyFaults>>

SetParameter(t)        == Plain(t, "SetParameter")
GetParameter(t)        == Plain(t, "GetParameterOnly")
SetConfig(t)           == Plain(t, "SetConfig")
GetConfig(t)           == Plain(t, "GetConfig")
GetState(t)            == Plain(t, "GetState")
GetComponentVersion(t) == Plain(t, "GetComponentVersion")
GetExtensionIndex(t)   == Plain(t, "GetExtensionIndex")
SendCommand(t)         == Plain(t, "SendCommand")

(* The first half of ComponentDeInit() frees every header; the client has     *)
(* ended its other calls.                                                     *)
ComponentDeInit(t) ==
  /\ t = Opener /\ proxy = "open" /\ "handle" \in events
  /\ \A u \in ProxyThreads : Idle(u)
  /\ Call(t, "close", NoHdr)
  /\ tBufList' = [s \in ProxySlots |-> NoHdr] /\ stray' = stray \cup remoteBufs
  /\ client' = {}
  /\ UNCHANGED <<proxy, cbThread, remote, pMsgPipe, toHost, nTotalBuffers, nAllocatedBuffers,
                 remoteVars, events, proxyFaults>>

(* The remote side serves a packet; it makes as many headers as there are.    *)
Answer(p, ok, b) == Append(toHost, [fn |-> p.fn, by |-> p.by, hdr |-> b, ok |-> ok])

Serve ==
  /\ remote = "alive" /\ toRemote # <<>>
  /\ toRemote' = Tail(toRemote)
  /\ LET p == Head(toRemote) IN
     \/ /\ IF p.fn = "UseBuffer" /\ remoteBufs = RemoteHdrs THEN UNCHANGED proxyFaults ELSE Fail
        /\ toHost' = Answer(p, FALSE, p.hdr) /\ UNCHANGED remoteVars
     \/ /\ UNCHANGED proxyFaults
        /\ \/ /\ p.fn = "UseBuffer"
              /\ \E b \in RemoteHdrs \ remoteBufs :
                   /\ b = CHOOSE c \in RemoteHdrs \ remoteBufs : TRUE
                   /\ toHost' = Answer(p, TRUE, b)
                   /\ remoteBufs' = remoteBufs \cup {b} /\ UNCHANGED remoteHolds
           \/ /\ p.fn = "FreeBuffer" /\ toHost' = Answer(p, TRUE, p.hdr)
              /\ remoteBufs' = remoteBufs \ {p.hdr} /\ UNCHANGED remoteHolds
           \/ /\ p.fn \in {"FillThisBuffer", "EmptyThisBuffer"} /\ toHost' = Answer(p, TRUE, p.hdr)
              /\ remoteHolds' = remoteHolds \cup {p} /\ UNCHANGED remoteBufs
           \/ /\ p.fn = "SendCommand" /\ UNCHANGED remoteVars
              /\ toHost' = Append(Answer(p, TRUE, p.hdr), [fn |-> "EventHandler", hdr |-> NoHdr])
           \/ /\ p.fn \notin {"UseBuffer", "FreeBuffer", "FillThisBuffer", "EmptyThisBuffer", "SendCommand"}
              /\ toHost' = Answer(p, TRUE, p.hdr) /\ UNCHANGED remoteVars
  /\ UNCHANGED <<proxy, cbThread, remote, pMsgPipe, slotVars, op, opBuf, rpcs, client, stray, events>>

(* The remote component is done with a buffer.                                *)
RemoteReturns ==
  /\ remote = "alive"
  /\ \E p \in remoteHolds :
       /\ remoteHolds' = remoteHolds \ {p}
       /\ toHost' = Append(toHost,
            [fn |-> IF p.fn = "FillThisBuffer" THEN "FillBufferDone" ELSE "EmptyBufferDone", hdr |-> p.hdr])
  /\ UNCHANGED <<proxy, cbThread, remote, pMsgPipe, toRemote, slotVars, remoteBufs, op, opBuf,
                 rpcs, client, stray, events, proxyFaults>>

RemoteDies ==
  /\ remote = "alive" /\ proxy = "open" /\ Fail /\ remote' = "dead"
  /\ UNCHANGED <<proxy, cbThread, pMsgPipe, toRemote, toHost, slotVars, remoteVars, op, opBuf,
                 rpcs, client, stray, events>>

PipeOf(f) == f

(* RPC_CallbackThread() with an answer.                                       *)
CbAnswer ==
  /\ cbThread = "running" /\ toHost # <<>> /\ Head(toHost).fn \notin Callbacks
  /\ toHost' = Tail(toHost)
  /\ pMsgPipe' = [pMsgPipe EXCEPT ![PipeOf(Head(toHost).fn)] = Append(@, Head(toHost))]
  /\ UNCHANGED <<proxy, cbThread, remote, toRemote, slotVars, remoteVars, op, opBuf, rpcs,
                 client, stray, events, proxyFaults>>

(* RPC_SKEL_FillBufferDone(), PROXY_FillBufferDone() and those of an emptied  *)
(* buffer: a header that is not in the list is reported as an error.          *)
BufferDone(f) ==
  /\ cbThread = "running" /\ toHost # <<>> /\ Head(toHost).fn = f
  /\ toHost' = Tail(toHost)
  /\ IF Known(Head(toHost).hdr)
     THEN client' = client \cup {Head(toHost).hdr} /\ UNCHANGED events
     ELSE events' = events \cup {"unknown header"} /\ UNCHANGED client
  /\ UNCHANGED <<proxy, cbThread, remote, pMsgPipe, toRemote, slotVars, remoteVars, op, opBuf,
                 rpcs, stray, proxyFaults>>

FillBufferDone  == BufferDone("FillBufferDone")
EmptyBufferDone == BufferDone("EmptyBufferDone")

(* RPC_SKEL_EventHandler(), PROXY_EventHandler(): an event is passed on.      *)
EventHandler ==
  /\ cbThread = "running" /\ toHost # <<>> /\ Head(toHost).fn = "EventHandler"
  /\ toHost' = Tail(toHost)
  /\ UNCHANGED <<proxy, cbThread, remote, pMsgPipe, toRemote, slotVars, remoteVars, op, opBuf,
                 rpcs, client, stray, events, proxyFaults>>

(* The read fails with ENXIO: the client is told, if it has got its handle,   *)
(* and the thread ends.                                                       *)
CbRemoteIsDead ==
  /\ cbThread = "running" /\ remote = "dead" /\ toHost = <<>>
  /\ cbThread' = "gone"
  /\ events' = IF "handle" \in events THEN events \cup {"hardware error"} ELSE events
  /\ UNCHANGED <<proxy, remote, pMsgPipe, toRemote, toHost, slotVars, remoteVars, op, opBuf, rpcs,
                 client, stray, proxyFaults>>

(* RPC_sendPacket_sync(), the half that reads: a thread takes what its        *)
(* function's pipe holds.                                                     *)
Waiting(t) == rpcs[t] # <<>>
Got(t) == Head(pMsgPipe[PipeOf(rpcs[t][1])])
HasAnswer(t) == Waiting(t) /\ pMsgPipe[PipeOf(rpcs[t][1])] # <<>>
TakeAnswer(t) ==
  pMsgPipe' = [pMsgPipe EXCEPT ![PipeOf(rpcs[t][1])] = Tail(@)]

Continue(t) ==
  /\ HasAnswer(t) /\ Got(t).ok /\ Len(rpcs[t]) > 1 /\ TakeAnswer(t)
  /\ rpcs' = [rpcs EXCEPT ![t] = Tail(@)]
  /\ toRemote' = Append(toRemote, Packet(t, rpcs[t][2], opBuf[t]))
  /\ UNCHANGED <<proxy, cbThread, remote, toHost, slotVars, remoteVars, op, opBuf, client, stray,
                 events, proxyFaults>>

Return(t) ==
  /\ op' = [op EXCEPT ![t] = "idle"] /\ opBuf' = [opBuf EXCEPT ![t] = NoHdr]
  /\ rpcs' = [rpcs EXCEPT ![t] = <<>>]

Ends(t, o) ==
  /\ HasAnswer(t) /\ op[t] = o /\ (~Got(t).ok \/ Len(rpcs[t]) = 1)
  /\ TakeAnswer(t) /\ Return(t)

(* The refusal of another buffer is taken for that of the own.                *)
Crossed(t) == ~Got(t).ok /\ Got(t).hdr # opBuf[t]

EndPlain(t, o) ==
  /\ Ends(t, o)
  /\ events' = IF Crossed(t) THEN events \cup {"crossed"} ELSE events
  /\ client' = IF o \in {"fill", "empty"} /\ ~Got(t).ok THEN client \cup {opBuf[t]} ELSE client
  /\ UNCHANGED <<proxy, cbThread, remote, toRemote, toHost, slotVars, remoteVars, stray, proxyFaults>>

EndSet(t) == \E o \in PlainCalls \cap {"SetParameter", "SetConfig", "SendCommand"} : EndPlain(t, o)
EndGet(t) == \E o \in PlainCalls \ {"SetParameter", "SetConfig", "SendCommand"} : EndPlain(t, o)

(* A slot that was freed is used again before a new one.                      *)
Slot == LET free == {s \in 1 .. nTotalBuffers : tBufList[s] = NoHdr} IN
        IF free # {} THEN CHOOSE s \in free : \A r \in free : s <= r ELSE nTotalBuffers + 1

TotalOf == nTotalBuffers' = IF nTotalBuffers < nAllocatedBuffers' THEN nAllocatedBuffers' ELSE nTotalBuffers

Store(b) ==
  /\ tBufList' = [tBufList EXCEPT ![Slot] = b]
  /\ nAllocatedBuffers' = nAllocatedBuffers + 1
  /\ TotalOf

(* A mapping that fails returns an error with the remote buffer made; a       *)
(* remote error frees the local header.                                       *)
EndUse(t, o) ==
  /\ Ends(t, o)
  /\ \/ /\ Got(t).ok /\ Store(Got(t).hdr) /\ client' = client \cup {Got(t).hdr}
        /\ UNCHANGED <<stray, proxyFaults>>
     \/ /\ Got(t).ok /\ Fail /\ stray' = stray \cup {Got(t).hdr}
        /\ UNCHANGED <<slotVars, client>>
     \/ /\ ~Got(t).ok /\ UNCHANGED <<slotVars, client, stray, proxyFaults>>
  /\ UNCHANGED <<proxy, cbThread, remote, toRemote, toHost, remoteVars, events>>

Cleared(t) == opBuf[t]

(* FreeBuffer() clears the slot whatever the remote side says.                *)
EndFree(t) ==
  /\ Ends(t, "free")
  /\ tBufList' = [s \in ProxySlots |-> IF tBufList[s] = Cleared(t) THEN NoHdr ELSE tBufList[s]]
  /\ nAllocatedBuffers' = nAllocatedBuffers - 1
  /\ stray' = IF Got(t).ok THEN stray ELSE stray \cup {opBuf[t]}
  /\ UNCHANGED <<proxy, cbThread, remote, toRemote, toHost, nTotalBuffers, remoteVars, client,
                 events, proxyFaults>>

(* RPC_InstanceDeInit(): the callback thread is told to end and joined, the   *)
(* pipes go.                                                                  *)
InstanceDeInit ==
  /\ proxy' = "closed" /\ cbThread' = "gone" /\ toRemote' = <<>> /\ toHost' = <<>>

EndOpen(t) ==
  /\ Ends(t, "open")
  /\ IF Got(t).ok
     THEN /\ events' = events \cup {"handle"}
          /\ UNCHANGED <<proxy, cbThread, toRemote, toHost>>
     ELSE InstanceDeInit /\ UNCHANGED events
  /\ UNCHANGED <<remote, slotVars, remoteVars, client, stray, proxyFaults>>

EndClose(t) ==
  /\ Ends(t, "close") /\ InstanceDeInit
  /\ UNCHANGED <<remote, slotVars, remoteVars, client, stray, events, proxyFaults>>

End(t) ==
  \/ EndSet(t) \/ EndGet(t) \/ EndPlain(t, "fill") \/ EndPlain(t, "empty")
  \/ EndUse(t, "use") \/ EndUse(t, "allocate")
  \/ EndFree(t) \/ EndOpen(t) \/ EndClose(t) \/ Continue(t)

Begin(t) ==
  \/ ProxyInit(t) \/ UseBuffer(t, "use") \/ UseBuffer(t, "allocate")
  \/ \E b \in client : FreeBuffer(t, b) \/ FillThisBuffer(t, b) \/ EmptyThisBuffer(t, b)
  \/ SetParameter(t) \/ GetParameter(t) \/ SetConfig(t) \/ GetConfig(t) \/ GetState(t)
  \/ GetComponentVersion(t) \/ GetExtensionIndex(t) \/ SendCommand(t) \/ ComponentDeInit(t)

Cb == CbAnswer \/ FillBufferDone \/ EmptyBufferDone \/ EventHandler \/ CbRemoteIsDead

Next ==
  \/ \E t \in ProxyThreads : Begin(t) \/ End(t)
  \/ Serve \/ RemoteReturns \/ RemoteDies \/ Cb

Spec ==
  /\ Init /\ [][Next]_proxyVars
  /\ WF_proxyVars(Serve) /\ WF_proxyVars(Cb) /\ \A t \in ProxyThreads : SF_proxyVars(End(t))
-----------------------------------------------------------------------------
TypeOK ==
  /\ proxy \in {"none", "open", "closed"} /\ cbThread \in {"none", "running", "gone"}
  /\ remote \in {"alive", "dead"}
  /\ op \in [ProxyThreads -> DOMAIN RemoteCalls \cup {"idle"}]
  /\ opBuf \in [ProxyThreads -> RemoteHdrs \cup {NoHdr}]
  /\ \A t \in ProxyThreads : Idle(t) <=> rpcs[t] = <<>>
  /\ tBufList \in [ProxySlots -> RemoteHdrs \cup {NoHdr}]
  /\ nTotalBuffers \in 0 .. Cardinality(ProxySlots)
  /\ nAllocatedBuffers \in 0 .. nTotalBuffers
  /\ client \subseteq RemoteHdrs /\ {p.hdr : p \in remoteHolds} \subseteq RemoteHdrs
  /\ stray \subseteq RemoteHdrs /\ remoteBufs \subseteq RemoteHdrs

(* As long as the component is open, each header of the remote side is in     *)
(* exactly one slot that the searches reach, or is one of those a failure has *)
(* parted from it; the counts agree with the slots.                           *)
Making == {p \in {toHost[i] : i \in DOMAIN toHost} \cup UNION {{pMsgPipe[f][i] : i \in DOMAIN pMsgPipe[f]} : f \in Functions} :
             p.fn \in {"UseBuffer", "FreeBuffer"} /\ p.ok}
SlotsMatchRemote ==
  proxy = "open" /\ op[Opener] # "close" =>
    /\ nAllocatedBuffers = Cardinality(Used) /\ Used \subseteq 1 .. nTotalBuffers
    /\ \A s, r \in Used : tBufList[s] = tBufList[r] => s = r
    /\ \A b \in remoteBufs : b \in stray \/ (\E s \in Used : tBufList[s] = b) \/ (\E p \in Making : p.hdr = b)

(* No answer goes astray and none is left over: in each function's pipe, on   *)
(* the wire and with the remote side there is one packet for each thread that *)
(* waits for that function.                                                   *)
InFlight(f) ==
  Cardinality({i \in DOMAIN toRemote : toRemote[i].fn = f})
    + Cardinality({i \in DOMAIN toHost : toHost[i].fn = f}) + Len(pMsgPipe[f])
AnswersConserved ==
  proxy = "open" =>
    \A f \in Functions :
      InFlight(f) = Cardinality({t \in ProxyThreads : Waiting(t) /\ rpcs[t][1] = f})

(* The callback of a filled buffer finds its header, unless the component is  *)
(* being closed or two threads that gave buffers have crossed their answers.  *)
CallbackFindsHeader ==
  "unknown header" \in events => op[Opener] = "close" \/ proxy = "closed" \/ "crossed" \in events

(* A call comes back, unless the remote side dies: then who waits waits for   *)
(* ever.                                                                      *)
Calling(t) == op[t] # "idle"
Returned(t) == op[t] = "idle" \/ remote = "dead"
ProxyCallsReturn == \A t \in ProxyThreads : Calling(t) ~> Returned(t)
=============================================================================
