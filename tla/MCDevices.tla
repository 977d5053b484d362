------------------------------ MODULE MCDevices ------------------------------
(* The components round the camera adapter: OMX core and the proxies of domx, *)
(* the display and the composer, the tap-in points and the HAL's module.      *)
(* They share no state; each is the one that runs in a part of the            *)
(* behaviours, so that one run checks them all.                               *)
CONSTANTS
  CoreClients, CoreSlots, CoreFaults, ProxyThreads, Opener, RemoteHdrs, ProxySlots, PlainCalls, ProxyFaults,
  InputHeaders, EncoderFrames, EncoderFaults, OutputBuffers, PortSettings, DecoderFaults, DisplayBufs, MinUndequeued,
  DisplayFaults, HwcKinds, HwcLists, FbIsBGR, OnTv, Transformed, HwcFaults, SourceBufs, KeptBySource, Allocations,
  SourceFaults, ServiceThreads, CameraIds, CamerasFound, MaxSimulCameras, Opens, ModuleFaults

VARIABLES
  active,            \* the component that runs
  count, coreInitMutex, coreMutex, pModules, pComponents, coreTable, corePc, coreFaults, lost,
  proxy, cbThread, remote, op, opBuf, rpcs, toRemote, toHost, pMsgPipe, tBufList, nTotalBuffers, nAllocatedBuffers,
  client, remoteBufs, remoteHolds, stray, events, proxyFaults,
  encPc, bAndroidOpaqueFormat, remoteFormat, askedFormat, proxyBufferType, devices, gralloc_handle, nCurBufIndex,
  hBufPipe, messageCount, inputs, encoding, submitted, altered, spoiled, stuffed, converted, refused, freedTwice,
  halfAllocated, encFrames, encFaults,
  decoderState, IsLoadedState, outputPort, stride, place, locks, commandFailed, portSettings, decFaults,
  mANativeWindow, abandoned, mBuffers, mDisplayState, mDisplayEnabled, subscribed, mPaused, mDisplayQ, displayMsgQ,
  inWindow, withAdapter, leftover, atCamera, mFramesType, posting, fetching, returning, halPc, raced, displayCrashed,
  windowFaults,
  hdmiState, forceDock, dockEnabled, mirrorEnabled, current, lastDocking, lastExt, lastInt, extOvls, extWanted, post2,
  ovls, numMgrs, useSgx, ovlsBlending, forceSgx, skewed, hidden, tilerFull, posted, hwcPc, redraw, timer, hwcFaults,
  sourcePc, isSourceGone, freeInSource, consumed, atAdapter, filling, frameQueue, queueBuf, waiting, tapReturn,
  leaked, mapRaced, sourceCrashed, allocations, sourceFaults,
  mInitialized, mCamerasSupported, propertyLock, gCameraHalDeviceLock, gCameraHals, gCamerasOpen, modulePc, asked,
  device, adapters, leakedAdapters, listener, inCallback, missing, opens, moduleFaults

Core == INSTANCE OmxCore
Proxy == INSTANCE OmxProxy
Encoder == INSTANCE EncoderProxy
Decoder == INSTANCE DecoderProxy
Display == INSTANCE DisplayAdapter
Composer == INSTANCE Hwc
Source == INSTANCE BufferSource
Loader == INSTANCE HalModule

coreVars == <<count, coreInitMutex, coreMutex, pModules, pComponents, coreTable, corePc, coreFaults, lost>>
proxyVars == <<proxy, cbThread, remote, op, opBuf, rpcs, toRemote, toHost, pMsgPipe, tBufList, nTotalBuffers,
               nAllocatedBuffers, client, remoteBufs, remoteHolds, stray, events, proxyFaults>>
encoderVars == <<encPc, bAndroidOpaqueFormat, remoteFormat, askedFormat, proxyBufferType, devices, gralloc_handle,
                 nCurBufIndex, hBufPipe, messageCount, inputs, encoding, submitted, altered, spoiled, stuffed,
                 converted, refused, freedTwice, halfAllocated, encFrames, encFaults>>
decoderVars == <<decoderState, IsLoadedState, outputPort, stride, place, locks, commandFailed, portSettings, decFaults>>
displayVars == <<mANativeWindow, abandoned, mBuffers, mDisplayState, mDisplayEnabled, subscribed, mPaused, mDisplayQ,
                 displayMsgQ, inWindow, withAdapter, leftover, atCamera, mFramesType, posting, fetching, returning,
                 halPc, raced, displayCrashed, windowFaults>>
hwcVars == <<hdmiState, forceDock, dockEnabled, mirrorEnabled, current, lastDocking, lastExt, lastInt, extOvls,
             extWanted, post2, ovls, numMgrs, useSgx, ovlsBlending, forceSgx, skewed, hidden, tilerFull, posted,
             hwcPc, redraw, timer, hwcFaults>>
sourceVars == <<sourcePc, isSourceGone, freeInSource, consumed, atAdapter, filling, frameQueue, queueBuf, waiting,
                tapReturn, leaked, mapRaced, sourceCrashed, allocations, sourceFaults>>
moduleVars == <<mInitialized, mCamerasSupported, propertyLock, gCameraHalDeviceLock, gCameraHals, gCamerasOpen,
                modulePc, asked, device, adapters, leakedAdapters, listener, inCallback, missing, opens, moduleFaults>>

vars == <<active,
          coreVars, proxyVars, encoderVars, decoderVars, displayVars, hwcVars, sourceVars, moduleVars>>
-----------------------------------------------------------------------------
(* What the components that do not run keep.                                 *)
Alone(me) ==
  /\ active = me /\ UNCHANGED active
  /\ IF me = "core" THEN TRUE ELSE UNCHANGED coreVars
  /\ IF me = "proxy" THEN TRUE ELSE UNCHANGED proxyVars
  /\ IF me = "encoder" THEN TRUE ELSE UNCHANGED encoderVars
  /\ IF me = "decoder" THEN TRUE ELSE UNCHANGED decoderVars
  /\ IF me = "display" THEN TRUE ELSE UNCHANGED displayVars
  /\ IF me = "hwc" THEN TRUE ELSE UNCHANGED hwcVars
  /\ IF me = "source" THEN TRUE ELSE UNCHANGED sourceVars
  /\ IF me = "module" THEN TRUE ELSE UNCHANGED moduleVars

Init ==
  /\ active \in {"core", "proxy", "encoder", "decoder", "display", "hwc", "source", "module"}
  /\ Core!Init /\ Proxy!Init /\ Encoder!Init /\ Decoder!Init /\ Display!Init /\ Composer!Init /\ Source!Init /\ Loader!Init
  /\ active = "hwc" \/ ~hdmiState

Next ==
  \/ Alone("core") /\ Core!Next
  \/ Alone("proxy") /\ Proxy!Next
  \/ Alone("encoder") /\ Encoder!Next
  \/ Alone("decoder") /\ Decoder!Next
  \/ Alone("display") /\ Display!Next
  \/ Alone("hwc") /\ Composer!Next
  \/ Alone("source") /\ Source!Next
  \/ Alone("module") /\ Loader!Next

(* The steps each component is sure to take: at most one action of a kind is  *)
(* that of the component which runs.                                          *)
First ==
  \/ Alone("core") /\ Core!Step("a")
  \/ Alone("proxy") /\ Proxy!Serve
  \/ Alone("encoder") /\ Encoder!Restore
  \/ Alone("display") /\ Display!Displays
  \/ Alone("hwc") /\ Composer!SurfaceFlinger
  \/ Alone("source") /\ Source!QueueThread
  \/ Alone("module") /\ Loader!OrientationHandled
Second ==
  \/ Alone("core") /\ Core!Step("b")
  \/ Alone("proxy") /\ Proxy!Cb
  \/ Alone("encoder") /\ Encoder!EmptyBufferDone
  \/ Alone("display") /\ Display!Proceeds
  \/ Alone("source") /\ Source!ReturnThread
Third ==
  \/ Alone("display") /\ Display!Compositor
  \/ Alone("source") /\ Source!Consume
Thread(t) ==
  \/ Alone("proxy") /\ Proxy!End(t)
  \/ Alone("decoder") /\ Decoder!Answers(t)
  \/ Alone("module") /\ Loader!Steps(t)

Spec ==
  /\ Init /\ [][Next]_vars /\ WF_vars(First) /\ WF_vars(Second) /\ WF_vars(Third)
  /\ \A t \in ProxyThreads : SF_vars(Thread(t))
-----------------------------------------------------------------------------
(* Nothing that travels between threads, processes or processors is lost,     *)
(* handed out twice or used after it is gone: handles and slots of the OMX    *)
(* core and of the proxies (OmxCore, OmxProxy), internal frames and locks of  *)
(* the codec proxies, buffers of the window, of the overlays and of the       *)
(* tap-in point, cameras of the module.  Each conjunct is explained in the    *)
(* module it comes from.                                                      *)
NothingAstray ==
  /\ Core!TypeOK /\ Core!MutexAlive /\ Core!SlotsMatchComponents
  /\ Proxy!TypeOK /\ Proxy!SlotsMatchRemote /\ Proxy!AnswersConserved /\ Proxy!CallbackFindsHeader
  /\ Encoder!TypeOK /\ Encoder!EveryIndexOnce /\ Encoder!EncodedInPeace /\ Encoder!HeadersRestored /\ Encoder!FreedOnce
  /\ Decoder!TypeOK /\ Decoder!LockedWhileDecoding /\ Decoder!StrideOfBuffers
  /\ Display!TypeOK /\ Display!MapIsExact /\ Display!MessagesMatchWindow /\ Display!AllReturned
  /\ Composer!TypeOK /\ Composer!OverlaysFit /\ Composer!NoPipeSwitchedAtOnce /\ Composer!EveryLayerShown
  /\ Source!TypeOK /\ Source!MapMatchesAdapter /\ Source!NoBufferGone
  /\ Loader!TypeOK /\ Loader!TableIsExact /\ Loader!CalledIsAlive

(* Calls return, frames come back and screens are redrawn, when the threads   *)
(* of these components run and the other side answers.  As one component      *)
(* runs, this is what CoreAnswers, ProxyCallsReturn, HeadersComeBack,         *)
(* BuffersDecoded, FramesLeave and ModuleCallsReturn say of each thread or    *)
(* buffer; of the display, FramesComeBack and DisplayAnswers, and of the      *)
(* composer, MirrorArrives and UnpluggedIsCleared: one of the two for the     *)
(* first thread, the other for the second.                                    *)
Asked(t) ==
  \/ active = "core" /\ Core!CoreAsked(t)
  \/ active = "proxy" /\ Proxy!Calling(t)
  \/ active = "encoder" /\ Encoder!Waiting(t)
  \/ active = "decoder" /\ Decoder!AtDecoder(t)
  \/ active = "display" /\ t = Opener /\ Display!CameraStarves
  \/ active = "display" /\ t # Opener /\ Display!DisplayAsked
  \/ active = "hwc" /\ t = Opener /\ Composer!MirrorIsDue
  \/ active = "hwc" /\ t # Opener /\ Composer!LeftOnScreen
  \/ active = "source" /\ Source!InQueue(t)
  \/ active = "module" /\ Loader!InModule(t)
Answered(t) ==
  \/ active = "core" /\ Core!CoreAnswered(t)
  \/ active = "proxy" /\ Proxy!Returned(t)
  \/ active = "encoder" /\ ~Encoder!Waiting(t)
  \/ active = "decoder" /\ Decoder!BackFromDecoder(t)
  \/ active = "display" /\ t = Opener /\ Display!CameraIsFed
  \/ active = "display" /\ t # Opener /\ Display!DisplayAnswered
  \/ active = "hwc" /\ t = Opener /\ ~Composer!MirrorIsDue
  \/ active = "hwc" /\ t # Opener /\ ~Composer!LeftOnScreen
  \/ active = "source" /\ Source!LeftQueue(t)
  \/ active = "module" /\ ~Loader!InModule(t)
DevicesAnswer == \A t \in ProxyThreads : Asked(t) ~> Answered(t)
=============================================================================
