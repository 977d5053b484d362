# Verification of the OMAP4 camera HAL

TLA+ models of the camera HAL in `src/`, checked by TLC on small instances and, for
most of them, proved by TLAPS for every value of their constants. Every module is read
off the code under `src/`; `PROJECT.json` maps each definition to the lines it models.

## The system

The tree holds a camera HAL for OMAP4 (`camera/`), its utility library (`libtiutils/`),
the distributed OpenMAX stack it talks to (`domx/`), and separate services (`hwc/`,
`security/`, `ion/`, colour conversion, test programs). Control flows down from the
Android camera service, frames flow up:

    camera service -> CameraHal_Module -> CameraHal -> CameraAdapter (Base, OMX or V4L)
                                                           |  OMX IL: core, proxy, RPC
                                                           v
                                             camera component on the remote core
    frames: OMX callback thread -> BaseCameraAdapter subscribers
              -> display adapter / AppCallbackNotifier / buffer source adapters
              -> returnFrame() -> fillThisBuffer() -> the component

| Component | State it keeps | Operations | What is hard |
|---|---|---|---|
| Adapter state machine (`BaseCameraAdapter`) | `mAdapterState`, `mNextState`, `mLock`, `mRecording` | `sendCommand`, `setState`, `commitState`, `rollbackState`, `rollbackToInitializedState` | a lock taken in one method and released in another; commands refused half way; roll back from every state |
| Buffers and reference counts (`BaseCameraAdapter`, `OMXCameraAdapter`) | `m*BuffersAvailable`, subscriber lists, `mRecording` | `FillBufferDone`, `setInitFrameRefCount`, `sendFrameToSubscribers`, `returnFrame`, `startVideoCapture`, `stopVideoCapture` | callbacks, client threads and the recording thread share counts under four locks |
| Capture (`OMXCapture`) | `mImageCaptureLock`, shutter, bracketing | `startImageCapture`, `stopImageCapture`, bracketing | two locks taken in both orders, semaphores that wait for OMX events |
| Ports and events (`OMXCameraAdapter`) | port data, `mEventSignalQ`, component state | `RegisterForEvent`, `SignalEvent`, `RemoveEvent`, state switches | a late event and a timed out waiter |
| Focus (`OMXFocus`) | `mFocusStarted`, `mDoAFCond` | `doAutoFocus`, `stopAutoFocus`, the focus callback | a wait, its timeout and a cancel |
| `AppCallbackNotifier` | frame and event queues, state, recording | notification thread, `start`, `stop`, `flushAndReturnFrames` | messages to a thread that may have stopped |
| Display adapter, buffer source adapters | frame maps, display state | post, dequeue, return threads | frames in the window when the display is disabled |
| 3A, zoom, faces, algorithms, capture settings (`OMX3A`, `OMXZoom`, `OMXFD`, `OMXAlgo`, `OMXCapture`) | what was asked for, what is pending, what the component has | `setParameters*`, `apply*`, per-frame callbacks | marks set on one thread and cleared on another |
| Reprocessing, capabilities (`OMXReprocess`, `OMXCapabilities`) | port, registrations, semaphores | `useBuffers`, `startReprocess`, the search for cameras | late answers, clean-up after half a call |
| `CameraHal`, `CameraHal_Module` | preview and recording flags, parameters, the open cameras | the HAL interface | sequences of calls, failures half way |
| `V4LCameraAdapter` | driver queue, preview thread | start, stop, frame thread | stop while a frame is dequeued |
| libtiutils | semaphore count, message pipe | `Wait`, `WaitTimeout`, `Signal`; `put`, `get`, `waitForMsg` | time outs, partial reads |
| domx | pipes, event groups, component table, RPC reply table, buffer headers | IL core, proxy, RPC | unsynchronised counters, one waiter woken, handles reused |
| hwc | overlays, docking, the last composition | `prepare`, `set`, hotplug, idle time out | pipes shared by two displays, events between prepare and set |
| security, ion, tools | sessions | per call | mostly sequential; not modelled |

`PROJECT.json` lists the parts file by file with their status, and under `hazards`
what in this code a test hardly reaches, each at its line with the properties that
watch it.

## The modules

| Module | Models |
|---|---|
| `AdapterTransitions` | the transition tables of `setState()` and of the roll back, as a relation on states and commands |
| `AdapterLifecycle` | abstract: what an observer of the committed adapter state may see |
| `AdapterState` | calls of `sendCommand()` and `rollbackToInitializedState()` with their lock, hooks and outcome |
| `AdapterStateProofs` | theorems about `AdapterState` |
| `FrameLoan` | abstract: buffers are lent to clients and go back when every hold is released |
| `FrameRefs` | the reference counts, deliveries, returns, subscriptions and recordings |
| `FrameRefsProofs` | theorems about `FrameRefs` |
| `PictureTaking` | abstract: a picture ends after all its images were delivered |
| `CaptureControl` | taking pictures: five kinds of threads, two mutexes and two semaphores |
| `CaptureControlProofs` | theorems about `CaptureControl` |
| `OmxEvents` | the queue of registrations and how an event finds the one it answers |
| `ComponentControl` | the commands the adapter sends to the OMX component, their answers and time outs |
| `ComponentControlProofs` | theorems about `ComponentControl` |
| `CameraHal` | the calls of the camera service as sequences of steps over adapter, display, notifier and buffers |
| `CameraHalProofs` | theorems about `CameraHal` |
| `Notifier` | AppCallbackNotifier: three queues, its thread, encoders, start, stop and flush |
| `NotifierProofs` | theorems about `Notifier` |
| `DevicesProofs`, `FeaturesProofs` | theorems about the modules of `MCDevices` but `Hwc`; about all modules of `MCFeatures` |
| `OmxCore`, `OmxProxy`, `EncoderProxy`, `DecoderProxy` | the OMX core and the proxies of domx with the remote calls under them |
| `DisplayAdapter`, `Hwc`, `BufferSource` | the preview window, the hardware composer, the tap-out point |
| `HalModule` | the table of cameras, their opening and closing, the orientation sensor |
| `Settings3A`, `PreviewSettings`, `CaptureSettings` | settings between the application and the component |
| `Focus`, `Zoom`, `Faces`, `Bracketing`, `Reprocess` | the features of the OMX camera adapter that have a protocol of their own |
| `Capabilities`, `HalParameters` | the search for cameras; the order of checks in `setParameters()` |
| `V4LAdapter` | the adapter of USB cameras |
| `MCDevices`, `MCFeatures` | compose the modules above for two runs; `MC*` of a module are its instances |

### AdapterState

State: `mAdapterState` and `mNextState` as in the code, the holder of `mLock`,
`mRecording`, and for the calling thread the command and the place it has reached.
A call is `Call` (the dispatch of `sendCommand()`), `SetState` (which takes the lock
and either refuses or sets `mNextState`), `Hook` (the virtual method, with every
outcome it can have), then `CommitState` or `RollbackState` and `Return`. The
commands that do not change the state skip the lock, as in the code. The roll back
loop has its own steps (`CallRollback`, `LoopTest`, `LoopBody`) and issues real
commands. `AdapterLifecycle` is the abstract view: the committed state only moves
along an edge of the table, and is implemented by `AdapterState`.

The constructor leaves `mNextState` unset, so `Init` lets it be any state.

| Run | Asks | Result |
|---|---|---|
| `adapter_state` | type, lock discipline, `mRecording` is set exactly in video states, refinement (committed states follow the table), no deadlock, and a roll back ends unless another thread calls meanwhile | holds |
| `adapter_refused` | a refused command leaves the adapter as it was (`BaseCameraAdapter.h:82`) | violated: four `CAMERA_USE_BUFFERS_*` cases test the wrong variable |

`rollbackToPreviousState()` has no case for the `LOADED_*` states, so the loop of the roll
back stops there against the comment at `CameraHal.h:944`; `RollbackReturns` counts that as
an end of the loop.

Fairness: the thread inside a call goes on (weak fairness of its steps), nothing makes
the application call.

### FrameRefs

State: `fills` (how often each buffer is queued at the component), `refs` (the counts
of `mPreviewBuffersAvailable`, `mVideoBuffersAvailable`, `mSnapshotBuffersAvailable`),
`videoKeys` (the keys of the one vector that is cleared while frames are out), `subs`
(subscriber lists), `held` (who has which buffer as what), `filling` (a buffer a thread
found free and has not queued yet: `fillThisBuffer()` is called outside
`mReturnFrameLock`), `recording`, and the locals of the callback thread and of the
thread that starts and stops recordings.

Actions, one per critical section: `FillBufferDone` (reads `mRecording` and builds the
mask), `SetInitFrameRefCount` and `SendFrameToSubscribers` per frame type under
`mSubscriberLock`, `SendFrameFails` and `ReturnUnsentFrame` (the error path),
`ReturnFrame` and `FillThisBuffer` per client, `EnableMsgType`/`DisableMsgType`,
`SubscribeVideo`, `StartVideoCapture`, `UnsubscribeVideo`, `StopVideoReturn`,
`StopVideoClear`, `StopVideoDone`, `LateRelease` and `ReleaseUnmapped`. Lookup of a missing key in a
`KeyedVector` is a crash (`crashed`).

`reclaimed` remembers, into later recordings, the frames that the encoder still has when the stop
takes them back. Its release of one has three outcomes: it had found its frame before the stop and
takes a reference in whatever recording is on by then; it comes while a recording is on and looks up a
key that `stopRecording()` has cleared, which aborts; or it is dropped, as `mRecordingEnabled` is off.
`ReleaseUnmapped` is the release between `stopRecording()` and the adapter's stop.

Bounds: two buffers, the display, one or two preview callbacks, one encoder, and
`MaxRecordings` recordings. Two buffers are enough for one to be delivered while the other
is returned; counts of three clients distinguish first, middle and last holder.
`MayStop` and `VideoSnapshots` say whether a recording may be stopped and whether a
snapshot may be taken in it.

| Run | Asks | Result |
|---|---|---|
| `frame_refs` | type, exclusive ownership, no buffer lost, counts are holders, refinement of `FrameLoan`, every buffer comes back to the component for ever; recording started, never stopped | holds |
| `frame_refs_stop` | no buffer lost and video frames reclaimed by the first stop; a late release takes no reference but that of a new delivery of the same buffer, over two recordings | holds |

With a stop, `NobodyHoldsAFilledBuffer` (`BaseCameraAdapter.cpp:387`) fails: the notifier
unsubscribes between the callback thread's mask and its delivery, and the failure path of
`FillBufferDone` returns the display's frame (`OMXCameraAdapter.cpp:3721`). With
`VideoSnapshots` it fails too, as only one partner type is counted.

`StopLosesNoBuffer` and `VideoFramesReclaimed` end with the first recording: a callback of
it can outlive the stop and the next start, and a buffer is lost. Nor does any run
with `VideoSnapshots` ask for `NoBufferLost`: two snapshot subscribers and a stop leave counts of the
snapshot behind. Between `StopVideoClear` and `StopVideoDone` a returned preview frame
looks up a key that is gone; the model stops there, and no property counts on it.

`LateReleaseTakesNothing` names what a later recording adds: the reference of a buffer that was
delivered again (`OutAgain`) is taken early, and a frame that could not be sent (`unsent`) has
counts without holders that any release may take. TLC reaches both.

Fairness: weak fairness of the callback thread, the recording thread and of every
`fillThisBuffer()` in progress; strong fairness of each client's return of each
buffer, as every client gives back in the end each frame it was sent, which is what
`BuffersComeBack` rests on. Starting and stopping recordings and subscribing are never
forced. That every release reaches the adapter assumes a service that releases frames after
`startRecording()` has returned: `mRecordingEnabled` is set at its end (`CameraHal.cpp:2310`), and a release
before is dropped.

### CaptureControl

Threads: the application (`TakePicture`, `UseBuffersCapture`, `StartCommand`,
`StopRecording`), the thread of `CommandHandler` (`startImageCapture()`, from `GetCommand`
to `WaitForShutter`), the thread of `OMXCallbackHandler` (`TakeCallback`,
`FillBufferDone`), the threads that return images (`ReturnFrame`, which takes the reference,
and `FillThisBuffer`, which acts on the counts of the burst some time later), and the
component. The stop (`StopCommand` to `StopDone`) runs on the
thread that returned the last image or on the application's. `pc` says where each thread
is; `mLock` is held from `setState()` to `commitState()`, across the wait for the capture,
the flush of the port and the wait for the callback thread.

`mCaptureSem` and `mStartCaptureSem` are counts. A wait with a time out is two actions: it
takes a token, or its time is up when there is none. `mIsProcessed` and the condition of
`flush()` are modelled as they are: the test, and the sleep that ends when the callback
thread finds its queue empty.

Simplified: the adapter's states are `preview`, `loaded`, `capture` (the `VIDEO_*` states
are the same in the video mode); the first frame and the shutter event come before
their time is up; the buffers are queued in one step; the component gives no error. Raw capture and CPCAM are
not modelled; bracketing is in `Bracketing`. The roll back of `forceStopPreview()` stops a
capture by the same command as `stopRecording()`.

| Run | Asks | Result |
|---|---|---|
| `capture` | types, who holds which lock, no token left behind by undisturbed pictures, a stop leaves nothing at the component or in the queue, a stopped capture does not start, every undisturbed capture ends, refinement of `PictureTaking` | holds |
| `capture_lock_order` | nobody waits for `mLock` with what its holder waits for (`BaseCameraAdapter.cpp:2588`) | violated: `startImageCapture()` calls the locked `getNextState()` |

`Plans` is the set of things the application may be up to; one is chosen at the start:
three pictures of one image, one burst of three or two bursts of two, in each mode, that
nobody stops, or one image or one burst in video mode that `stopRecording()` may stop at any
place. Two threads return images. The properties about images and tokens speak of captures
that come alone (`OneByOne`): one capture, or captures of one image that nobody stops. They
fail without it, as larger plans show:

- with two captures that may be stopped, `StoppedNeverStarts` fails against the comment at
  `OMXCapture.cpp:1091`: `mCaptureConfigured` stays set, so the start message of the
  stopped capture starts the next one;
- with two bursts, a thread that has taken the reference of an image of the first one and
  goes on after the buffers of the second were prepared meets the new counts: it queues the
  image at once (`OMXCameraAdapter.cpp:476`), `mBurstFramesQueued` is above zero, and
  `startImageCapture()` accumulates without ever switching capturing on, against the
  comment at `OMXCapture.cpp:1204`. (An image that is still held then does not come back:
  `useBuffersForImageCapture()` clears its reference count.)
- with two bursts, every returned image that finds no image expected reports the end of the
  capture, so the second report can stop the next picture (`TakesPictures` fails, and with
  it `StopLeavesNothing`);
- with two pictures that may be stopped, an image that arrives between the time out of the
  wait and `mCaptureSignalled = true` posts a token that nobody resets, and the next stop
  does not wait (`SemaphoreEmptyBetween` fails).

A stop may deadlock with the start, so the liveness properties speak of plans without one.

Fairness: each thread that can go on does, the component fills what it has and every client
returns its images. Calls of the application are not forced, those it has begun are.

### ComponentControl

The adapter drives the component by commands: it registers for the completion event in
`mEventSignalQ` (`Ask`), sends the command, and waits for a semaphore for at most
`OMX_CMD_TIMEOUT` (`Answered`, `Expired`). Two threads do so: the application's and that of
`CommandHandler`, which runs `doSwitchToExecuting()` when a preview is started before there
is a window. `Requests` lists the fifteen waits with the command and the semaphore of each;
`pc` says which one a thread is in. The component keeps its `state`, the `enabled` ports, the
ports with buffers (`supplied`) and the commands it was `sent`, which it executes in order
as OpenMAX IL says: Idle needs buffers on every enabled port, Loaded none at all, and a port
is disabled when its buffers are gone. `mComponentState` is what the adapter believes.

`OmxEvents` keeps the matching of `SignalEvent()` and `RemoveEvent()` as it is: numbers of
states, ports and events are compared without their kinds, and a zero matches everything. A
registration for the switch to Idle (`arg1` is `OMX_CommandStateSet`, which is zero, `arg2` is
2) is also found by an event of the preview port, which is number 2. The time out of
`UseBuffersPreview()` works because of that: it has noted Idle already and so signals the
event of the port, which takes the registration for Idle out of the queue.

An application call is one action up to its wait and one after it; the two steps in which
another thread sees something are kept apart (`UseBuffersPreview` and `BelieveIdle`, the walk
and the `clear()` of `FatalError`). After a failed call the client only releases the camera,
as after `CAMERA_ERROR_FATAL`. A wait that a hardware error ends is no time out: the call finds
`OMX_StateInvalid`, frees the handle (`performCleanupAfterError()`) and returns `NO_ERROR`, so its caller goes on.
`startPreview()` reports a running preview that way, with no component; `startPreview()` after
`UseBuffersPreview()`, `switchToLoaded()` after `switchToIdle()`, `stopPreview()` after `flushBuffers()` and
`disableImagePort()` go on through the NULL handle. Such a call ends in `crashed`. `startImageCapture()`
after `UseBuffersCapture()` does not: `mCaptureConfigured` is not set, and it returns at once (`OMXCapture.cpp:1089`). Left out: the
measurement port, raw capture, tunnelling (`CAMERA_CMD_PREVIEW_INITIALIZATION`), errors that
`OMX_SendCommand()` or `OMX_UseBuffer()` return at once, and `mIdleStateSwitchLock`, which only
one thread takes.

| Run | Asks | Result |
|---|---|---|
| `omx_component` | types, one thread asks at a time, the adapter knows the component's state and ports, no command, registration or token is left over, every call comes back | holds |

`Scenarios` says what goes wrong, one being chosen at the start: nothing; any answer but one
comes after its time out (`Slow`); the hardware fails at some point (`Fatal`). `MaxPreviews = 3`
lets a preview without a window be followed by one with a window and by a query that has to
leave Executing; every wait is reached. The application may stop calling, so deadlock
is not checked; `CallsReturn` says that no call stays inside.

Bounds of the properties:

- `StateAgrees` speaks of hardware that did not fail, at places where no thread is in a command. After a hardware error `mComponentState` may be wrong: the error
  sets `OMX_StateInvalid`, and `UseBuffersPreview()` or `doSwitchToExecuting()` can
  overwrite it with Idle. What then holds is that each later wait times out.
- `Slow` leaves out the wait for the preview port in `doSwitchToExecuting()`. If that answer is
  late, `StateAgrees` fails: the time out is only logged (`OMXCameraAdapter.cpp:1549`), its
  registration stays, the late answer wakes the wait for Idle and the answer of Idle the wait
  for Executing, so that the adapter is one step ahead of the component. `TokensAwaited` fails too.
- `initialize()` reports a time out of its wait as success (`OMXCameraAdapter.cpp:379`). The next
  call finds a handle that was freed. `CallsReturn` counts `crashed`, of this kind or after a hardware error,
  as an end, because no call waits any more; where nothing fails it does not.

Fairness: threads go on, a component that is alive executes what it can, and waits for one
that is gone expire. Late answers, hardware errors and calls of the application are not
forced; `SetErrorHandler` is part of opening the camera.

### CameraHal

A call of the camera service is a program: a sequence of steps on the adapter, the display,
the notifier and the buffers (`todo`). A step either has to succeed (`Must`), is tried and its
result ignored (`Try`), or is a piece of bookkeeping (`Do`); `OnError` is what the code does
where a `Must` fails, `Return` drops what is left up to the end of the function that is
running, and `End` closes a function called within another. The adapter is the table of
`AdapterTransitions`; a command may also fail in its hook, an allocation may fail
(`MaxFaults`). Beside the call run the threads of the adapter that end a focus or a
picture (`signalEndImageCapture()`). `taken` remembers that `setBufferSource()` took back the image
buffers of the tap there was (`CameraHal.cpp:2094`), which it does without asking whether a picture is
being taken; until new ones are allocated, `PicturesHaveBuffers` makes no claim. Left out: VTC, S3D layouts, measurement buffers.

| Run | Asks | Result |
|---|---|---|
| `hal` | five calls in any order with one failure anywhere: buffers are not freed under the adapter, pictures have buffers to the end, flags agree with the adapter's state, every call returns | holds |
| `hal_focus_picture` | `takePicture()` cancels a focus "before any operation and mutex lock" (`CameraHal.cpp:2845`) | violated: it holds `mLock`, which `cancelAutoFocus()` takes again |

What TLC also reaches, which no run lists: after a failed `startPreview()` the
adapter stays in `LOADED_PREVIEW` without buffers (`FailedStartIsUndone`; the error path says
"Do all the cleanup", `CameraHal.cpp:1722`); a NULL window during the preview destroys the
provider of the buffers the adapter writes; a late end of one picture ends the next; a refused
`CAMERA_START_VIDEO` leaves the notifier recording. Each is a
state with a refused roll back, a fault, or another tap, which the properties name as their exceptions.

Fairness: the running call and the adapter's thread go on. Five calls are enough for a window, a
preview and three calls that meet.

### Notifier

The notification thread waits for its three queues at once (`waitForMsg()`, whose flag
`get()` resets) and handles a message, an event under `mLock`, or a frame; frames go to the
application, to an encoder with a thread of its own, or straight back. `Plans` chooses the two
frames in circulation and whether the application stops, records, focuses or flushes.

The adapter's side is `out`, the frames it counts as handed out, and the application's `held` and
`late`, the video frames of this recording and of earlier ones, as counts. `TakeBack` is the adapter's stop of a recording: it
takes back every video frame that is out, also one that is still queued or with the
application. Entries of such frames stay behind, so after a stop a frame may be queued, and
sent, a second time.

`notifier` shows that a frame goes astray only in two ways the code has: a video
frame whose recording is being stopped, and a picture whose encoder `stop()` cancels
(`NoFrameLost`, which also says that a frame is at one place only, until a recording was stopped). The
process may die in two ways, which the liveness properties name (`Dies`): an image that the
thread takes from the queue when the preview was stopped has no memory for its thumbnail
(`AppCallbackNotifier.cpp:973`), and a frame that is released late finds no entry in the map
that `stopRecording()` has cleared (`AppCallbackNotifier.cpp:1759`).

No property speaks of the memory of an encoded picture. `stop()` and `EncoderDoneCb()` may both release it, or
neither, and while nobody stops there is one release on a straight line: nothing is left to ask. A
flush of the event queue after the thread has polled it leaves the thread in `get()` with `mLock`
(`plan.flushes`), so that later calls wait for ever.
Raw, snapshot and frame-data frames, shutter, zoom and metadata events are left out.

Fairness: the notification thread, the encoders, and the application's release of video frames, as
long as the process lives; what happens after its death counts as an end and not as unfair.

### The devices: `MCDevices`

Eight components that do not share state with each other, checked by one run: `active` says
which one runs, the others keep their initial state, so the run is the union of eight runs
rather than their product. `NothingAstray` is the conjunction of their invariants and
`DevicesAnswer` of their liveness properties (a component has one formula for each of two
threads or buffers); each conjunct is stated and explained in its module, and each module
has a `Spec` of its own that can be checked alone. Buffers and threads are called `a` and `b`
throughout, so that one quantifier serves all.

- `OmxCore`: two clients, two slots, one failure. The mutex lives exactly from the first
  `OMX_Init()` to the last `OMX_Deinit()`; a slot whose library could not be opened is lost, and
  `SlotsMatchComponents` names it.
- `OmxProxy`: two callers, two headers. A packet has no number, so the reader of a
  function's pipe takes the next answer. `AnswersConserved` counts them. TLC reaches: two
  `FillThisBuffer()` calls take each other's answers and the wrong buffer is believed refused
  (`crossed`); callers that wait when the remote processor dies wait for ever
  (`ProxyCallsReturn` counts that as an end); a failed mapping leaves a remote buffer with no slot (`stray`).
- `EncoderProxy`: two headers, three frames. The index of an internal buffer is in the pipe
  again before the encoder has read the buffer; as the oldest index is taken, that does no harm
  while every header has one (`EncodedInPeace`). A failed conversion, or an empty last buffer,
  which writes an index it never read (`omx_proxy_h264enc.c:680`), upsets the order
  (`stuffed`), and a handle is freed twice after a failed allocation (`halfAllocated`). The result of
  `PROXY_EmptyThisBuffer()` is not looked at: a header whose frame the encoder never got is lost to
  the client, which still believes it given (`refused`), while its index goes round as the others.
- `DecoderProxy`: locks and stride over two definitions of the port. `IsLoadedState`
  is cleared before the command is known to have succeeded, so a second attempt does not set
  the stride again (`commandFailed`).
- `DisplayAdapter`: two buffers, one of which the window keeps. `MessagesMatchWindow` is what keeps the
  display thread from waiting in `dequeue_buffer()` for ever. `handleFrameReturn()` removes the
  type of a frame after it has returned the frame, which may have been posted again by then
  (`raced`). The thread takes a message first and serves no command in `dequeue_buffer()` (`fetching`): after a call of
  the window has failed the buffer may never come, and a `disableDisplay()` waits with it (`WaitsInVain`, which
  `DisplayAnswers` names as an end). An `allocateBufferList()` that finds the window abandoned after the first buffer forgets it
  and cancels the buffer through NULL (`displayCrashed`, `ANativeWindowDisplayAdapter.cpp:617` and 690). A
  `returnBuffersToWindow()` that fails keeps its map, whose entries the next allocation adds to (`leftover`).
  Two failures, so that one can follow the other.
- `Hwc`: lists of up to two layers of four kinds over four pipes and two displays,
  with hotplug and the idle time out between `prepare()` and `set()`. Layers that fill the TILER slot
  exactly are shown by nobody (`tilerFull`: `hwc.c` compares with `<=` in one place and `<` in
  the other); a layer that leaves the GFX pipe because it is scaled is not counted
  (`skewed`, and `OverlaysDistinct` without it fails against the comment at `hwc.c:1351`).
- `BufferSource`: two buffers, two allocations, a failing window. The return thread
  reads `mBuffers` without `mLock` and may find it freed (`sourceCrashed`); a buffer is removed from the map
  after it was enqueued, and may have come back by then (`mapRaced`).
- `HalModule`: two threads of the service, three camera numbers of which two exist, one open
  at a time, two failures in opening.

Fairness: the threads of the component that runs, the remote processor, codec, consumer of the
window and driver answer; calls of clients are not forced.
For the answers to one of several callers (`Thread`) the fairness is strong, because another caller's step
can disable it for a moment: the code's mutexes and pipes serve waiting threads in turn.

### The features: `MCFeatures`

Composed in the same way: nine features of the OMX camera adapter, the parameters of `CameraHal`, and
`V4LAdapter`. `RequestsTakeEffect` says that what the application asked for is with the component or
still marked, `OperationsEnd` that what was begun ends.

- `Settings3A`, `PreviewSettings`, `CaptureSettings`: a setter writes the value and marks it,
  another place applies and unmarks. The values are two (three modes in `PreviewSettings`). Named exceptions: a
  setter that fails loses its mark, that of the scene among them (`setScene()`'s mark is removed before the call,
  `OMX3A.cpp:1825`, and the modes it reads back may stay unknown); a scene that resets the exposure compensation, which is set again
  only if it is not zero; a setting changed within a scene that the manual scene does not force (`missed`); a change between `takePicture()` and the handler that clears the marks it has
  not applied (`overtaken`). The marks are changed by `|=` and `&=` of several threads
  without a common lock (`OMXFocus.cpp:227`, `OMXCapture.cpp:1451`, `OMXCapture.cpp:1146`): a
  write may undo any changes since its read. In `Settings3A` that loses marks of
  `setParameters()` or puts back marks that were just applied (`Undone`); the lost ones are
  named (`lostMarks`). In `CaptureSettings` the handler's clearing loses them (`Torn`), and
  they count as overtaken.
- `Focus`: the message, the scan, its time out, the status callback, a stop and a cancel. A
  failed configuration call in `doAutoFocus()` leaves `AF_STATE` for ever (`OMXFocus.cpp:149`);
  `NoFocusForgotten` and `AutoFocusEnds` speak of runs without one.
- `Zoom`: `mLock` and `mZoomLock` are taken in both orders; `Inverted` is the deadlock,
  which TLC reaches, and `SmoothZoomEnds` says that nothing else keeps a call from returning. A
  smooth zoom that starts with an update pending shows its target at once, so
  `ImmediateZoomKept` (`OMXZoom.cpp`, "CTS requirement") fails.
- `Faces`: the filter that keeps faces from trembling never lags by more than its threshold.
  `PriorityRestored` fails: `stopFaceDetection()` never takes the priority back.
- `Bracketing`: an image that comes before `mBracketingEnabled` is set leaves the ring
  (`escaped`).
- `Reprocess`: an answer right after its time out leaves a token in `mUseReprocessSem`
  (`answeredLate`), and `useBuffers()` goes on when the stop before it failed (`halfStopped`).
- `Capabilities`: a component per sensor and mode, with lost and late answers; five failures.
- `HalParameters`: the order of the checks of `setParameters()` and of its returns. A refused call
  leaves its first part in `mParameters` (`unapplied`). `HintedIsVideo`
  (`CameraHal.cpp:2322`, "Video Recording needs CAPTURE_MODE to be VIDEO_MODE") fails: the next
  `setParameters()` with the recording hint writes the mode back.
- `V4LAdapter`: two buffers, one picture, one failure. All threads use the one `mVideoInfo->buf`;
  when two meet in it the wrong buffer is queued (`v4lRaced`), the preview thread may dequeue the
  picture (`stolen`), and `stopPreview()` unmaps the buffers before it joins the thread
  (`crashed`). A failing call of the driver leaves the adapter `stuck`: the state machine stays in
  `LOADED_CAPTURE_STATE`, `LOADED_PREVIEW_STATE` or `PREVIEW_STATE`, which refuse what would follow, so
  `stopImageCapture()` never clears `mCapturing` and `stopPreview()` is not asked again. A STREAMOFF
  that fails in `stopPreview()` is only logged, and the call may then wait for a preview thread that waits for a frame
  (`ThreadLeftWaiting`, an end of `V4LCallsReturn`).

The two runs have 121,000 and 301,000 states. Bounds were chosen so that every
action and every exception named above occurs.

Fairness: the command handler, the callback thread with its frames, the call in progress and the
answers of the component, time outs included. No application call is forced.

## What is proved

`AdapterStateProofs`: type correctness, the lock discipline, `mRecording` set exactly in
the video states, and the refinement of `AdapterLifecycle`.

`FrameRefsProofs`, for any finite sets of buffers and preview callbacks and any number of
recordings. Without an assumption on what the application does: type correctness and
`LateReleaseTakesNothing`, in every recording. Assuming `Undisturbed` (`~MayStop /\ ~VideoSnapshots`):
`ExclusiveOwnership`, `RefsCountHolders`, `NoBufferLost`, `NobodyHoldsAFilledBuffer` and the
refinement of `FrameLoan`. Without either condition TLC finds a counterexample, as described
above. The argument: none of these properties is inductive. `IInv` adds what the callback
thread has done so far: the types of the frame not yet sent have no holders, and their
counts are zero or already the number of subscribers (`CountInv`); a buffer is out as a
snapshot or as a preview and video frame (`TypesInv`); a free buffer has no counts
(`FreeInv`); every type a frame can have has a subscriber (`SubsInv`), so that sending never
fails. From a holder follows a count above zero, so the buffer is not free; from the last
count going to zero follows that no holder is left and that the buffer is not the one being
delivered, as a type still to be sent has at least one subscriber. `NoBufferLost` needs
`KeptInv` on top: a buffer that is neither free nor being delivered has a count above zero.

Where a recording may be stopped, `StopLosesNoBuffer` and `VideoFramesReclaimed` are proved
without video snapshots (`~VideoSnapshots`). `VideoInv` is about video references alone: a frame
has at most one, only the encoder holds them, and what the stop takes back has a count of zero.
`FirstStopInv` is `IInv` and `KeptInv` up to the stop. After it they are lost, since a frame
that was masked before the notifier unsubscribed may be returned by the failure path and by
its holder. `StopInv` keeps what is left: a count is never above the number of those who will
give a reference back (`BoundInv`), so counts are only bounds; one thread queues a
buffer, and once (`QueuedOnce`); a buffer that is not free has a count unless its frame has
not been counted yet (`StopKept`); and the video references left are those that the stop has
still to take back (`StopVideo`).

`CaptureControlProofs`, for any buffers, threads, captures and mode: type correctness (no
semaphore goes below zero), `LocksHeld`, and that one thread at a time is inside
`startImageCapture()` or the waiting part of `stopImageCapture()`. `LocksHeld` is inductive
with the types: the places of the code and the holder of a lock determine each other. For
captures that come alone (`OneByOne`, a hypothesis of the properties themselves)
`StopLeavesNothing`, `SemaphoreEmptyBetween`, `StoppedNeverStarts` and the safety part of
`TakesPictures` follow from `CaptureInv`, whose parts are named after what they say:
`StatesAgree` (who is where while the state is what), `Numbers` (the queued start is the one
of the last capture), `Counts` (a burst is queued as a whole, and before that nothing is
out), `Finished` (after the flush the component and the queue are empty), `OneOut` (a single
image is at one place only), `Signals` (the token exists from the first image to the wait of
the stop) and `Owed` (delivered and expected images add up to those asked for). The counts
are the point: with one capture nobody resets them, and with single images the reset finds
every buffer back, because the one return that ends the capture is the last one.

`ComponentControlProofs`, for any scenarios and number of previews: type correctness and
`OneAtATime`; and for any scenarios in which the port's answer to `doSwitchToExecuting()` comes
in time (`Timely`), `TokensAwaited` and `StateAgrees`. The types rest on lemmas about `OmxEvents`: a nonempty set of indices has a
first one (by the well-foundedness of the natural numbers), and a queue without it is still a
queue of registrations. `OneAtATime` is not inductive, as half of the application's calls wait
without taking `mStateSwitchLock`. `SwitchIsLocked` adds why that is safe: while the switch is
requested or running the lock is held and the application's thread is at one of the places
that it does not enter through the lock; from those it can only go on by taking it.

`TokensAwaited` holds whether or not the hardware fails, and follows from `TokenInv`: the event
queue holds the registration of the one thread that asks, or its semaphore the token, and
nothing else. A thread whose wait timed out takes its registration out again (by the
accident described under ComponentControl for `UseBuffersPreview()`) and never asks a second
time, because all it does then is to free the handle (`TimedOut`). `Timely` is needed: without
it the check finds a token that nobody waits for. `StateAgrees` follows from `CalmInv`, for
hardware that does not fail. A command that is under way is registered and with the
component, or it is neither and has taken effect (`Sending`); and each place of the
code says which state and which ports the component has there (`Frame`). Late answers are
covered: a thread that gave up waiting leaves for good, and the places it leaves by are exempt.

`CameraHalProofs`, for any services the application uses, any capture modes and any number of
calls and faults: type correctness, `BuffersOutliveAdapter`, `PicturesHaveBuffers` and
`FlagsFollowAdapter`. The state of a call is what is left of it to do, a sequence of steps, so
none of these is inductive until it is known which sequences there are. `HalInv` says so in five
parts besides the types.

- `Program`: the sequence is wired. `Before` and `After` name what comes right before or right
  after a step (the image buffers are allocated right after they are asked for; the buffers of
  the preview are freed right after the roll back), and a call neither shoots twice nor
  starts a preview before it frees the buffers of the old one. `Fit` and `Ahead` are what a part
  of a sequence has to satisfy to be put in front of another; one lemma per function of the code
  shows it of the steps that the function expands to, and `Joined` puts them together.
- `Counts`: pictures and windows are no more than the calls.
- `Pictures` and `Preview`: what a step finds when it is reached (`PictureHeads`, `PreviewHeads`),
  as "the preview's buffers are freed while the adapter is in one of the `Parked` states", and
  what the flags say of the adapter and the buffers (`PreviewFlags`), with the steps at which
  they do not say it yet. `Parked` is INITIALIZED and the states a roll back cannot leave.
- `Windowed`: where there is a display a window was set.

`Preview` holds while no fault has occurred, as `BuffersOutliveAdapter` and `FlagsFollowAdapter` demand; the rest
holds with any number of faults. Each step of the invariant is proved per action and, where an
action depends on the step the call is at, per step of the call.

`NotifierProofs`, for any plans: type correctness and `NoFrameLost`. Five parts are
added to them: what `waitForMsg()` reported is still in the queue when it is taken (`Messages`,
since only the thread takes messages), the frame at work is in the thread's hands (`AtWork`),
an encoder has images only (`Encoding`), an application that never
stops leaves nothing cancelled (`NeverStopped`), and `Recordings` says when video frames can be out: between the start of
a recording and its `TakeBack`, and that the application has old ones only after a stop.

`DevicesProofs` is about the devices: every conjunct of `NothingAstray` but the four of the composer,
each for the module it comes from. `OmxCore`, for any finite set of clients, any slots and number of failures: type
correctness, `MutexAlive` and `SlotsMatchComponents`. `count` is the number of clients between
`OMX_Init()` and `OMX_Deinit()` (`CountsUsers`), so it is above zero for whoever is about to
lock; `InitMutexHeld` ties the first mutex to its two critical sections. The slots are
inductive once it is added that a lost slot has no client's component.

`DecoderProxy`, for any buffers: type correctness, `LockedWhileDecoding` and
`StrideOfBuffers`. The latter needs `StrideDue`: while no command has failed, the flag
`IsLoadedState` is set whenever the decoder is loaded, so the stride is set on the way to
every other state.

`DisplayAdapter`, for any finite set of buffers of which the window keeps at most all
(`DisplayConstants`): type correctness, `MapIsExact`, `MessagesMatchWindow` and `AllReturned`.
`Commanded` ties the place of CameraHal's thread to the message it waits for and to the state of
the display thread, `Mapped` says that the map names what the camera adapter has as soon as buffers were allocated,
whatever fails, and `Running` confines frames and messages to a display that runs. `FewMessages` is what
bounds the queue: the camera's buffers, the one being posted and the messages are together no
more than the buffers, since a message is sent for a buffer that came from the camera. `WindowFed` counts, while no
call of the window has failed, messages and dequeued buffers against those the window need not
keep. A frame returned takes one from the one and gives it to the other.

`HalModule` (with at most one open camera, as CameraProperties.h:39 has it): type correctness, `TableIsExact` and
`CalledIsAlive`. `BufferSource`: type correctness, `MapMatchesAdapter` and `NoBufferGone`. `EncoderProxy`:
type correctness, `EveryIndexOnce`, `EncodedInPeace`, `HeadersRestored` and `FreedOnce`. The pipe
of the encoder is a queue of indices without repetition, and an index is in the pipe, in the hands of
the thread that took it or with the encoder; lemmas about `Append` and `Tail` say what
queueing and taking do to the set of what is queued (`Appended`, `Dropped`).

`OmxProxy`, for any finite sets of threads, slots and headers and any number of faults: type
correctness, `SlotsMatchRemote`, `AnswersConserved` and `CallbackFindsHeader`. `ProxyConstants` also says
that the slots are 1 .. n, that one thread opens the component, and that plain calls are those of one
packet. A call is the sequence of the remote calls it has left, as in `CameraHalProofs`, and `CallsLeft`
says which there are; `Roles` which thread makes which call and when. `Conserved` counts for each function the packets on
the way, the answers on the way and those in its pipe, against the threads that wait for it: a packet
read is an answer written, and an answer taken from the pipe is one waiting thread less. `Slots` relates the
table to the buffers of the remote side through the answers between them: a header is in a slot, or its
answer of `UseBuffer` is under way. `OneToken` says that a buffer is with the client, on its way,
with the remote side or on its way back, once, and then in a slot; so the callback finds it.
It fails as soon as two threads that gave buffers have taken each other's answers (`crossed`), which is the
exception `CallbackFindsHeader` makes.

`FeaturesProofs` is about all modules of `MCFeatures`. Each has its invariant and a theorem of its own, and
`RequestsReach` puts them together: `RequestsTakeEffect` of the whole for all constants, as a step of the
whole is a step of one component and leaves the others alone (`StepOrNot`).

- `Settings3A`, for any of the settings and number of failures: `SettingsReachComponent` is inductive with the types. That no failure
  means no refused setting is a fact about cardinalities (`SetSceneKeeps`).
- `CaptureSettings`, for any of the settings, calls and failures: `NoSettingLost` and `BuffersOfFormat`. `ChangeIsMarked`
  says that what the application changed after it asked for the picture is marked or overtaken until the
  handler unmarks it, and `BurstIsSet` that the component has the burst the picture was asked with by the time
  the handler clears the mark of the burst for the second time. The proof found what two
  calls of `setParameters()` do not reach: with a third and a fourth one a burst that was
  overtaken before can be changed away and back during the next picture, and is unmarked
  although the component does not have it. `overtaken` therefore lasts until the
  setting is marked between pictures.
- `PreviewSettings`, for any number of calls and failures: what is pending behind its setter was marked later or
  waits for a video mode (`Past`), so a running preview has what was asked before it started.
- `Zoom`, for any number of stages, calls and failures: the component has the index the adapter believes in, unless it
  refused one or a smooth zoom was started while an update was pending (`ahead`). A smooth zoom that is to end has one more
  index in range, which is what keeps `current` in the table.
- `Faces`, for any number of places and faces: the reported faces are as many as in the frame and near to them; the filter takes the last
  of the old faces that is near, and a set of indices has a last one.
- `Focus`, for any number of calls and failures: one message per call, the calls that hold `mLock`, and who is still
  to end a focus that has begun.
- `Bracketing`, for rings of any size: the component has the last places of the ring in order, the images kept are newer the
  farther their place, and all are newer than those sent. What turns the ring is arithmetic on places (`After`).
- `Reprocess`, for any number of calls and failures: as long as no stop failed and no answer came after its time out, the
  port follows the progress of the call and nothing is left of earlier ones.
- `V4LAdapter`, for n buffers: `V4LTypes` says which steps leave which stream behind, also the failing ones. While the
  preview's stream runs and no two threads have met, the five places of a buffer are disjoint and together all buffers
  (`OnePlaceEach`), and `mVideoInfo->buf` is that of the thread that uses it (`OwnIndex`). The count that `EachBufferOnce` makes follows from
  disjointness.
- `Capabilities`, for any sensors, ports, modes and failures: a camera is counted when all its tables were read, whatever answers
  came late to the search.
- `HalParameters`, for any calls and failures: every check of `setParameters()` keeps the parameters that are on their way to the adapter
  (`OnItsWay`), one lemma per check; so a call that is not refused leaves the adapter told.

Only model-checked: liveness and the deadlock checks, which are out of the prover's reach; the
violation runs; and `Hwc`.

## Not modelled

- Conversions: `OMXExif`, `OMXMetadata`, `OMXDefaults`, `OMXDccDataSave`, the tables of
  `CameraParameters` and `TICameraParameters`, pixel code (`NV12_resize`, `ColorConvert`, the encoders'
  compression), the packing of arguments in the RPC stubs. They keep no state that another
  thread sees.
- `security/`: clients of a kernel driver that is not in the tree.
- Raw capture, CPCAM mode, VTC tunnelling, measurement frames, S3D layouts, zoom bracketing and vector shots:
  variants of paths that are modelled.
- libtiutils' partial reads of a pipe, event groups of mm_osal (nothing in the tree uses them),
  memory mapping in the proxies, the camera and VC-1 proxies.
- Data races as such: a plain variable written by two threads is read whole. Where the code
  pairs such a variable with another the steps are kept apart.

## What could follow

- Proofs for the composer.
- Compositions of components that do share state: `DisplayAdapter` as a client of `FrameRefs`,
  `CaptureSettings` within `CaptureControl`, `Focus` within `CaptureControl`.
