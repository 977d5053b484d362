----------------------- MODULE ComponentControlProofs -----------------------
(* Proofs about ComponentControl for any number of previews: types, that the  *)
(* two threads ask the component one by one, whose the tokens are, and that   *)
(* the adapter and the component agree between commands.                      *)
EXTENDS ComponentControl, SequenceTheorems, FiniteSetTheorems, WellFoundedInduction, TLAPS

Registrations == [command : {OMX_EventCmdComplete}, arg1 : Nat, arg2 : Nat, arg3 : Semaphores]

(* There is a first match whenever there is one.                              *)
LEMMA FirstMatches == ASSUME NEW S \in SUBSET Nat, S # {} PROVE First(S) \in S
<1> DEFINE Less == {ss \in Nat \X Nat : ss[1] < ss[2]}
<1>1. IsWellFoundedOn(Less, Nat)
  BY NatLessThanWellFounded DEF OpToRel
<1>2. PICK x \in S : \A y \in S : ~(<<y, x>> \in Less)
  <2> HIDE DEF Less
  <2> QED  BY <1>1, WFMin
<1>3. ASSUME NEW y \in S PROVE x =< y
  <2>1. x \in Nat /\ y \in Nat
    OBVIOUS
  <2>2. ~(<<y, x>> \in Less)
    BY <1>2
  <2>3. ~(y < x)
    BY <2>1, <2>2
  <2> QED
    BY <2>1, <2>3
<1> QED
  BY <1>3 DEF First

(* Taking the first match out of the queue leaves registrations.              *)
LEMMA WithoutMatchType ==
  ASSUME NEW q \in Seq(Registrations), NEW command \in Nat, NEW data \in Nat
  PROVE  WithoutMatch(q, OMX_EventCmdComplete, command, data) \in Seq(Registrations)
<1> DEFINE M == Matching(q, OMX_EventCmdComplete, command, data)
           n == First(M)
<1>1. CASE M = {}
  BY <1>1 DEF WithoutMatch
<1>2. CASE M # {}
  <2>1. M \in SUBSET Nat /\ M \subseteq 1 .. Len(q)
    BY DEF Matching
  <2>2. n \in 1 .. Len(q)
    BY <1>2, <2>1, FirstMatches
  <2>3. SubSeq(q, 1, n - 1) \in Seq(Registrations) /\ SubSeq(q, n + 1, Len(q)) \in Seq(Registrations)
    <3> HIDE DEF n, M
    <3> QED  BY <2>2, SubSeqProperties
  <2>4. RemoveAt(q, n) \in Seq(Registrations)
    <3> HIDE DEF n, M
    <3> QED  BY <2>3, ConcatProperties DEF RemoveAt
  <2> QED
    BY <1>2, <2>4 DEF WithoutMatch
<1> QED
  BY <1>1, <1>2

LEMMA RequestTypes ==
  \A w \in Waits : /\ Requests[w].command \in Nat /\ Requests[w].data \in Nat
                   /\ Requests[w].semaphore \in Semaphores
<1>1. \A w \in Waits : Requests[w].semaphore \in Semaphores
  BY DEF Semaphores
<1>2. \A w \in Waits : Requests[w].command \in Nat /\ Requests[w].data \in Nat
  BY DEF Waits, AppWaits, CmdWaits, Requests, Asks, OMX_CommandStateSet, OMX_CommandFlush,
     OMX_CommandPortDisable,
         OMX_CommandPortEnable, OMX_StateLoaded, OMX_StateIdle, OMX_StateExecuting, mPrevPortIndex, mImagePortIndex
<1> QED
  BY <1>1, <1>2

LEMMA RequestPorts == \A w \in Waits : Requests[w].command = OMX_CommandPortEnable => Requests[w].data \in Ports
BY DEF Waits, AppWaits, CmdWaits, Requests, Asks, Ports, OMX_CommandStateSet, OMX_CommandFlush,
   OMX_CommandPortDisable, OMX_CommandPortEnable

-----------------------------------------------------------------------------
(* Types.  The queues and the places have lemmas of their own.              *)

Places   == AppPlaces \union CmdPlaces
QueueOK  == mEventSignalQ \in Seq(Registrations) /\ sent \in Seq(Commands)
PlacesOK == pc \in [Threads -> Places] /\ answer \in [Threads -> {"none", "done", "expired"}]

LEMMA ThreadNames == "app" \in Threads /\ "cmd" \in Threads /\ "app" # "cmd"
BY DEF Threads

LEMMA PlaceNames ==
  /\ Waits \subseteq Places /\ AppSteps \subseteq Places /\ Rest \subseteq Places /\ "rest" \in Places
BY DEF Places, AppPlaces, CmdPlaces, Waits

LEMMA TypeParts == TypeOK => QueueOK /\ PlacesOK
BY DEF TypeOK, QueueOK, PlacesOK, Registrations, Places

LEMMA AskedQueues ==
  ASSUME QueueOK, NEW t \in Threads, NEW w \in Waits, NEW l, NEW before \in Seq(Commands), Ask(t, w, l, before)
  PROVE  QueueOK'
<1> DEFINE r == Requests[w]
           msg == Message(OMX_EventCmdComplete, r.command, r.data, r.semaphore)
           c == [command |-> r.command, data |-> r.data]
<1>1. msg \in Registrations /\ c \in Commands
  BY RequestTypes, RequestPorts DEF Message, Registrations, Commands
<1>2. mEventSignalQ' = Append(mEventSignalQ, msg) /\ sent' = sent \o before \o <<c>>
  BY DEF Ask
<1> HIDE DEF msg, c
<1>3. mEventSignalQ' \in Seq(Registrations)
  BY <1>1, <1>2 DEF QueueOK
<1>4. sent \o before \in Seq(Commands) /\ <<c>> \in Seq(Commands)
  BY <1>1, ConcatProperties DEF QueueOK
<1>5. sent' \in Seq(Commands)
  BY <1>2, <1>4, ConcatProperties
<1> QED
  BY <1>3, <1>5 DEF QueueOK

LEMMA AskThenQueues ==
  ASSUME QueueOK, NEW t \in Threads, NEW w \in Waits, NEW l, AskThen(t, w, l)
  PROVE  QueueOK'
<1>1. <<>> \in Seq(Commands)
  OBVIOUS
<1> QED
  BY <1>1, AskedQueues DEF AskThen, QueueOK

LEMMA WithdrawQueue ==
  ASSUME QueueOK, NEW t \in Threads, pc[t] \in Waits, Withdraw(t)
  PROVE  mEventSignalQ' \in Seq(Registrations)
<1>1. WithoutMatch(mEventSignalQ, OMX_EventCmdComplete, Requests[pc[t]].command, Requests[pc[t]].data) \in Seq(Registrations)
  BY RequestTypes, WithoutMatchType DEF QueueOK
<1> QED
  BY <1>1 DEF Withdraw, QueueOK

LEMMA GiveUpQueues ==
  ASSUME QueueOK, NEW t \in Threads, pc[t] \in Waits, NEW l, GiveUp(t, l)
  PROVE  QueueOK'
<1>1. sent' = <<>>
  BY DEF GiveUp, Cleanup
<1> QED
  BY <1>1, WithdrawQueue DEF GiveUp, QueueOK

LEMMA WaitPlaces == {"init", "useIdle", "useEnable", "start", "capture", "flushImage", "disableImage", "flush", "stopIdle",
                     "loadIdle", "loaded", "enable", "execDisable", "execIdle", "execExecuting"} = Waits
BY DEF Waits, AppWaits, CmdWaits

LEMMA QueuesStep == TypeOK /\ [Next]_vars => QueueOK'
<1> SUFFICES ASSUME TypeOK, [Next]_vars PROVE QueueOK'
  OBVIOUS
<1>0. QueueOK /\ <<>> \in Seq(Commands)
  BY TypeParts
<1> USE <1>0, ThreadNames, WaitPlaces DEF QueueOK
<1>1. CASE InitializeDone
  BY <1>1, GiveUpQueues DEF InitializeDone, Over, events, component
<1>2. CASE SetErrorHandler
  BY <1>2 DEF SetErrorHandler, events, component
<1>3. CASE ResolutionKnown
  BY <1>3 DEF ResolutionKnown, events, component
<1>4. CASE SwitchToExecuting
  BY <1>4 DEF SwitchToExecuting, events, component
<1>5. CASE UseBuffersPreview
  BY <1>5, AskThenQueues DEF UseBuffersPreview, AskComponent, events, component
<1>6. CASE BelieveIdle
  BY <1>6 DEF BelieveIdle, events, component
<1>7. CASE BuffersUsed
  <2>1. OMX_CommandPortEnable \in Nat /\ mPrevPortIndex \in Nat
    BY DEF OMX_CommandPortEnable, mPrevPortIndex
  <2>2. WithoutMatch(mEventSignalQ, OMX_EventCmdComplete, OMX_CommandPortEnable, mPrevPortIndex) \in Seq(Registrations)
    BY <2>1, WithoutMatchType
  <2>3. WithdrawBuffers => mEventSignalQ' \in Seq(Registrations)
    BY <2>2 DEF WithdrawBuffers, events
  <2> QED
    BY <1>7, <2>3 DEF BuffersUsed, Result, Cleanup, events
<1>8. CASE StartPreview
  BY <1>8, AskThenQueues DEF StartPreview, AskComponent, events, component
<1>9. CASE PreviewStarted
  BY <1>9, GiveUpQueues DEF PreviewStarted, Result, Over, events, component
<1>10. CASE QueueBuffers
  BY <1>10 DEF QueueBuffers, Fill, Cleanup, events, component
<1>11. CASE CaptureConfigured
  BY <1>11, GiveUpQueues DEF CaptureConfigured, Result, Over, events, component
<1>12. CASE ImageFlushed
  BY <1>12, AskThenQueues, GiveUpQueues DEF ImageFlushed, AskComponent, Over, events, component
<1>13. CASE ImagePortDisabled
  BY <1>13, AskThenQueues, GiveUpQueues DEF ImagePortDisabled, AskComponent, Over, events, component
<1>14. CASE PreviewFlushed
  BY <1>14, AskThenQueues, GiveUpQueues DEF PreviewFlushed, AskComponent, Over, events, component
<1>15. CASE PreviewStopped
  BY <1>15, GiveUpQueues DEF PreviewStopped, Over, events, component
<1>16. CASE SwitchToLoaded
  BY <1>16, AskThenQueues DEF SwitchToLoaded, AskComponent, events, component
<1>17. CASE IdleToLoad
  BY <1>17, AskThenQueues, GiveUpQueues DEF IdleToLoad, AskComponent, Over, events, component
<1>18. CASE LoadedReached
  BY <1>18, AskThenQueues, GiveUpQueues DEF LoadedReached, Result, AskComponent, Over, events, component
<1>19. CASE PortEnabled
  BY <1>19, GiveUpQueues DEF PortEnabled, Over, events, component
<1>20. CASE Initialize
  <2>1. <<[command |-> OMX_CommandPortDisable, data |-> mPrevPortIndex],
          [command |-> OMX_CommandPortDisable, data |-> mImagePortIndex]>> \in Seq(Commands)
    BY DEF Commands, Ports, OMX_CommandPortDisable, OMX_CommandPortEnable, mPrevPortIndex, mImagePortIndex
  <2> QED
    BY <1>20, <2>1, AskedQueues DEF Initialize
<1>21. CASE QueryResolution
  BY <1>21 DEF QueryResolution, events, component
<1>22. CASE StopWithoutWindow
  BY <1>22 DEF StopWithoutWindow, events, component
<1>23. CASE UseBuffersCapture
  BY <1>23, AskThenQueues DEF UseBuffersCapture, AskComponent, events, component
<1>24. CASE StopPreview
  BY <1>24, AskThenQueues DEF StopPreview, AskComponent, events, component
<1>25. CASE Release
  BY <1>25 DEF Release, events, component
<1>26. CASE DoSwitchToExecuting
  BY <1>26, AskThenQueues DEF DoSwitchToExecuting, AskComponent, events, component
<1>27. CASE ExecPortDisabled
  BY <1>27, AskThenQueues DEF ExecPortDisabled, AskComponent, events, component
<1>28. CASE ExecIdleReached
  BY <1>28, AskThenQueues
  DEF ExecIdleReached, AskComponent, ExecFails, Cleanup, Over, events, component
<1>29. CASE ExecutingReached
  BY <1>29 DEF ExecutingReached, ExecFails, Cleanup, Over, events, component
<1>30. CASE CommandComplete
  <2>1. PICK c \in Commands : SignalEvent(c) /\ sent' = Tail(sent)
    BY <1>30 DEF CommandComplete
  <2>2. sent # <<>>
    BY <1>30 DEF CommandComplete
  <2>3. mEventSignalQ' \in Seq(Registrations)
    BY <2>1, WithoutMatchType DEF SignalEvent, Commands
  <2> QED
    BY <2>1, <2>2, <2>3, HeadTailProperties
<1>31. CASE FatalError
  BY <1>31 DEF FatalError, events, component
<1>32. CASE ClearEvents
  BY <1>32 DEF ClearEvents, events, component
<1>33. ASSUME NEW t \in Threads, Wait(t) PROVE QueueOK'
  BY <1>33 DEF Wait, Answered, Expired, Expires, component
<1>34. CASE UNCHANGED vars
  BY <1>34 DEF vars, events, component
<1> QED
  BY <1>1, <1>2, <1>3, <1>4, <1>5, <1>6, <1>7, <1>8, <1>9, <1>10, <1>11, <1>12, <1>13, <1>14, <1>15,
     <1>16, <1>17, <1>18, <1>19, <1>20, <1>21, <1>22, <1>23, <1>24, <1>25, <1>26, <1>27, <1>28, <1>29,
     <1>30, <1>31, <1>32, <1>33, <1>34
  DEF Next, Calls, InCall, Switch, Component

LEMMA KnownPlaces ==
  {"useSent", "prepared", "fill", "load", "query", "ready", "rest", "idle", "preview", "failed", "released",
   "crashed"} \union Waits \subseteq Places
BY PlaceNames DEF AppSteps, Rest

LEMMA GotoPlaces ==
  ASSUME PlacesOK, NEW t \in Threads, NEW l \in Places, Goto(t, l)
  PROVE  pc' \in [Threads -> Places]
BY DEF Goto, PlacesOK

LEMMA AskThenPlaces ==
  ASSUME PlacesOK, NEW t \in Threads, NEW w, NEW l \in Places, AskThen(t, w, l)
  PROVE  PlacesOK'
<1>1. "crashed" \in Places
  BY KnownPlaces
<1>2. pc' \in [Threads -> Places]
  BY <1>1, GotoPlaces DEF AskThen, Ask
<1>3. answer' = [answer EXCEPT ![t] = "none"] \/ answer' = answer
  BY DEF AskThen, Ask
<1> QED
  BY <1>2, <1>3 DEF PlacesOK

LEMMA CallerPlaces ==
  ASSUME caller \in {"query", "stop", "release"}
  PROVE  Loaded[caller] \in Places /\ Failed[caller] \in Places
BY KnownPlaces DEF Loaded, Failed

LEMMA PlacesStep == TypeOK /\ [Next]_vars => PlacesOK'
<1> SUFFICES ASSUME TypeOK, [Next]_vars PROVE PlacesOK'
  OBVIOUS
<1>0. PlacesOK /\ caller \in {"query", "stop", "release"}
  BY TypeParts DEF TypeOK
<1> USE <1>0, ThreadNames, KnownPlaces, WaitPlaces, GotoPlaces
<1>1. CASE InitializeDone
  BY <1>1 DEF InitializeDone, GiveUp, places, PlacesOK
<1>2. CASE SetErrorHandler
  BY <1>2 DEF SetErrorHandler, places, PlacesOK
<1>3. CASE ResolutionKnown
  BY <1>3 DEF ResolutionKnown, places, PlacesOK
<1>4. CASE SwitchToExecuting
  BY <1>4 DEF SwitchToExecuting, places, PlacesOK
<1>5. CASE UseBuffersPreview
  BY <1>5, AskThenPlaces DEF UseBuffersPreview, AskComponent, places, PlacesOK
<1>6. CASE BelieveIdle
  BY <1>6 DEF BelieveIdle, places, PlacesOK
<1>7. CASE BuffersUsed
  BY <1>7 DEF BuffersUsed, Result, places, PlacesOK
<1>8. CASE StartPreview
  BY <1>8, AskThenPlaces DEF StartPreview, AskComponent, places, PlacesOK
<1>9. CASE PreviewStarted
  BY <1>9 DEF PreviewStarted, Result, GiveUp, places, PlacesOK
<1>10. CASE QueueBuffers
  BY <1>10 DEF QueueBuffers, Fill, places, PlacesOK
<1>11. CASE CaptureConfigured
  BY <1>11 DEF CaptureConfigured, Result, GiveUp, places, PlacesOK
<1>12. CASE ImageFlushed
  BY <1>12, AskThenPlaces DEF ImageFlushed, AskComponent, GiveUp, places, PlacesOK
<1>13. CASE ImagePortDisabled
  BY <1>13, AskThenPlaces DEF ImagePortDisabled, AskComponent, GiveUp, places, PlacesOK
<1>14. CASE PreviewFlushed
  BY <1>14, AskThenPlaces DEF PreviewFlushed, AskComponent, GiveUp, places, PlacesOK
<1>15. CASE PreviewStopped
  BY <1>15 DEF PreviewStopped, GiveUp, places, PlacesOK
<1>16. CASE SwitchToLoaded
  BY <1>16, AskThenPlaces, CallerPlaces DEF SwitchToLoaded, AskComponent, places, PlacesOK
<1>17. CASE IdleToLoad
  BY <1>17, AskThenPlaces, CallerPlaces DEF IdleToLoad, AskComponent, GiveUp, places, PlacesOK
<1>18. CASE LoadedReached
  BY <1>18, AskThenPlaces, CallerPlaces DEF LoadedReached, Result, AskComponent, GiveUp, places, PlacesOK
<1>19. CASE PortEnabled
  BY <1>19 DEF PortEnabled, GiveUp, places, PlacesOK
<1>20. CASE Initialize
  BY <1>20 DEF Initialize, Ask, places, PlacesOK
<1>21. CASE QueryResolution
  BY <1>21 DEF QueryResolution, places, PlacesOK
<1>22. CASE StopWithoutWindow
  BY <1>22 DEF StopWithoutWindow, places, PlacesOK
<1>23. CASE UseBuffersCapture
  BY <1>23, AskThenPlaces DEF UseBuffersCapture, AskComponent, places, PlacesOK
<1>24. CASE StopPreview
  BY <1>24, AskThenPlaces DEF StopPreview, AskComponent, places, PlacesOK
<1>25. CASE Release
  BY <1>25 DEF Release, places, PlacesOK
<1>26. CASE DoSwitchToExecuting
  BY <1>26, AskThenPlaces DEF DoSwitchToExecuting, AskComponent, places, PlacesOK
<1>27. CASE ExecPortDisabled
  BY <1>27, AskThenPlaces DEF ExecPortDisabled, AskComponent, places, PlacesOK
<1>28. CASE ExecIdleReached
  BY <1>28, AskThenPlaces DEF ExecIdleReached, AskComponent, ExecFails, places, PlacesOK
<1>29. CASE ExecutingReached
  BY <1>29 DEF ExecutingReached, ExecFails, places, PlacesOK
<1>30. CASE CommandComplete
  BY <1>30 DEF CommandComplete, places, PlacesOK
<1>31. CASE FatalError
  BY <1>31 DEF FatalError, places, PlacesOK
<1>32. CASE ClearEvents
  BY <1>32 DEF ClearEvents, places, PlacesOK
<1>33. ASSUME NEW t \in Threads, Wait(t) PROVE PlacesOK'
  BY <1>33 DEF Wait, Answered, Expired, Expires, PlacesOK
<1>34. CASE UNCHANGED vars
  BY <1>34 DEF vars, places, PlacesOK
<1> QED
  BY <1>1, <1>2, <1>3, <1>4, <1>5, <1>6, <1>7, <1>8, <1>9, <1>10, <1>11, <1>12, <1>13, <1>14, <1>15,
     <1>16, <1>17, <1>18, <1>19, <1>20, <1>21, <1>22, <1>23, <1>24, <1>25, <1>26, <1>27, <1>28, <1>29,
     <1>30, <1>31, <1>32, <1>33, <1>34
  DEF Next, Calls, InCall, Switch, Component

-----------------------------------------------------------------------------
(* Everything else keeps its type.                                          *)

StateOK ==
  /\ mComponentState \in States /\ mHandleComp \in BOOLEAN /\ mErrorNotifier \in BOOLEAN
  /\ mStateSwitchLock \in BOOLEAN /\ switchRequested \in BOOLEAN
  /\ semaphores \in [Semaphores -> Nat]
  /\ caller \in {"query", "stop", "release"} /\ mPreviewStartInProgress \in BOOLEAN
  /\ mCaptureConfigured \in BOOLEAN /\ previews \in Nat
  /\ clearing \in BOOLEAN /\ alive \in BOOLEAN
  /\ state \in States /\ enabled \subseteq Ports /\ supplied \subseteq Ports
  /\ scenario \in Scenarios

LEMMA TypeWhole == TypeOK <=> QueueOK /\ PlacesOK /\ StateOK
BY DEF TypeOK, QueueOK, PlacesOK, StateOK, Registrations, Places

LEMMA StateNames ==
  /\ {OMX_StateInvalid, OMX_StateLoaded, OMX_StateIdle, OMX_StateExecuting} \subseteq States
  /\ mPrevPortIndex \in Ports /\ mImagePortIndex \in Ports
BY DEF States, Ports, OMX_StateInvalid, OMX_StateLoaded, OMX_StateIdle, OMX_StateExecuting

(* A fatal error posts each registered semaphore a number of times.          *)
LEMMA Posts ==
  ASSUME QueueOK, NEW s PROVE Cardinality({i \in DOMAIN mEventSignalQ : mEventSignalQ[i].arg3 = s}) \in Nat
<1> DEFINE S == {i \in DOMAIN mEventSignalQ : mEventSignalQ[i].arg3 = s}
<1>1. Len(mEventSignalQ) \in Nat /\ DOMAIN mEventSignalQ = 1 .. Len(mEventSignalQ)
  BY DEF QueueOK
<1>2. IsFiniteSet(DOMAIN mEventSignalQ)
  BY <1>1, FS_Interval
<1>3. IsFiniteSet(S)
  BY <1>2, FS_Subset
<1> QED
  BY <1>3, FS_CardinalityType

LEMMA StateStep == TypeOK /\ [Next]_vars => StateOK'
<1> SUFFICES ASSUME TypeOK, [Next]_vars PROVE StateOK'
  OBVIOUS
<1>0. QueueOK /\ PlacesOK /\ StateOK
  BY TypeWhole
<1> USE <1>0, ThreadNames, WaitPlaces, StateNames
<1> USE DEF StateOK, events, adapter, calls, switching, machine, component, fixed
<1>1. CASE InitializeDone
  BY <1>1 DEF InitializeDone, GiveUp, Cleanup
<1>2. CASE SetErrorHandler
  BY <1>2 DEF SetErrorHandler
<1>3. CASE ResolutionKnown
  BY <1>3 DEF ResolutionKnown
<1>4. CASE SwitchToExecuting
  BY <1>4 DEF SwitchToExecuting, Lock
<1>5. CASE UseBuffersPreview
  BY <1>5 DEF UseBuffersPreview, Lock
<1>6. CASE BelieveIdle
  BY <1>6 DEF BelieveIdle, Believe
<1>7. CASE BuffersUsed
  <2>1. WithdrawBuffers => semaphores' \in [Semaphores -> Nat]
    BY DEF WithdrawBuffers
  <2>2. semaphores' \in [Semaphores -> Nat]
    BY <1>7, <2>1 DEF BuffersUsed, Result
  <2>3. mStateSwitchLock' \in BOOLEAN /\ mHandleComp' \in BOOLEAN /\ mErrorNotifier' \in BOOLEAN /\ alive' \in BOOLEAN
    BY <1>7 DEF BuffersUsed, Result, Cleanup, Unlock
  <2>4. mComponentState' \in States
    BY <1>7 DEF BuffersUsed, Result, Cleanup
  <2> QED
    BY <1>7, <2>2, <2>3, <2>4 DEF BuffersUsed, Result
<1>8. CASE StartPreview
  BY <1>8 DEF StartPreview
<1>9. CASE PreviewStarted
  BY <1>9 DEF PreviewStarted, Result, GiveUp, Cleanup, Believe, Unlock
<1>10. CASE QueueBuffers
  BY <1>10 DEF QueueBuffers, Fill, Cleanup, Unlock
<1>11. CASE CaptureConfigured
  BY <1>11 DEF CaptureConfigured, Result, GiveUp, Cleanup
<1>12. CASE ImageFlushed
  BY <1>12 DEF ImageFlushed, GiveUp, Cleanup
<1>13. CASE ImagePortDisabled
  BY <1>13 DEF ImagePortDisabled, GiveUp, Cleanup
<1>14. CASE PreviewFlushed
  BY <1>14 DEF PreviewFlushed, GiveUp, Cleanup
<1>15. CASE PreviewStopped
  BY <1>15 DEF PreviewStopped, GiveUp, Cleanup, Believe
<1>16. CASE SwitchToLoaded
  BY <1>16 DEF SwitchToLoaded, Lock
<1>17. CASE IdleToLoad
  BY <1>17 DEF IdleToLoad, GiveUp, Cleanup, Believe, Unlock
<1>18. CASE LoadedReached
  BY <1>18 DEF LoadedReached, Result, GiveUp, Cleanup, Believe, Unlock
<1>19. CASE PortEnabled
  BY <1>19 DEF PortEnabled, GiveUp, Cleanup, Unlock
<1>20. CASE Initialize
  BY <1>20 DEF Initialize
<1>21. CASE QueryResolution
  BY <1>21 DEF QueryResolution
<1>22. CASE StopWithoutWindow
  BY <1>22 DEF StopWithoutWindow
<1>23. CASE UseBuffersCapture
  BY <1>23 DEF UseBuffersCapture
<1>24. CASE StopPreview
  BY <1>24 DEF StopPreview
<1>25. CASE Release
  BY <1>25 DEF Release
<1>26. CASE DoSwitchToExecuting
  BY <1>26 DEF DoSwitchToExecuting, Unlock
<1>27. CASE ExecPortDisabled
  BY <1>27 DEF ExecPortDisabled
<1>28. CASE ExecIdleReached
  BY <1>28 DEF ExecIdleReached, ExecFails, Cleanup, Believe, Unlock
<1>29. CASE ExecutingReached
  BY <1>29 DEF ExecutingReached, ExecFails, Cleanup, Believe, Unlock
<1>30. CASE CommandComplete
  <2>0. Head(sent) \in Commands
    BY <1>30, HeadTailProperties DEF CommandComplete, QueueOK
  <2>1. PICK c \in Commands :
          /\ CanComplete(c) /\ SignalEvent(c)
          /\ state' = IF c.command = OMX_CommandStateSet THEN c.data ELSE state
          /\ enabled' = IF c.command = OMX_CommandPortEnable THEN enabled \union {c.data}
                        ELSE IF c.command = OMX_CommandPortDisable THEN enabled \ {c.data} ELSE enabled
    BY <1>30, <2>0 DEF CommandComplete
  <2>2. semaphores' \in [Semaphores -> Nat]
    BY <2>1 DEF SignalEvent
  <2>3. state' \in States
    BY <2>1 DEF CanComplete, MayEnter, OMX_CommandStateSet, OMX_CommandFlush, OMX_CommandPortDisable,
       OMX_CommandPortEnable
  <2>4. enabled' \subseteq Ports
    BY <2>1 DEF Commands
  <2> QED
    BY <1>30, <2>2, <2>3, <2>4 DEF CommandComplete
<1>31. CASE FatalError
  <2> DEFINE posts(s) == Cardinality({i \in DOMAIN mEventSignalQ : mEventSignalQ[i].arg3 = s})
  <2>1. \A s \in Semaphores : posts(s) \in Nat
    BY Posts
  <2>2. semaphores' = [s \in Semaphores |-> semaphores[s] + posts(s)]
    BY <1>31 DEF FatalError
  <2> HIDE DEF posts
  <2>3. semaphores' \in [Semaphores -> Nat]
    BY <2>1, <2>2
  <2> QED
    BY <1>31, <2>3 DEF FatalError
<1>32. CASE ClearEvents
  BY <1>32 DEF ClearEvents
<1>33. ASSUME NEW t \in Threads, Wait(t) PROVE StateOK'
  BY <1>33, RequestTypes DEF Wait, Answered, Expired, Expires
<1>34. CASE UNCHANGED vars
  BY <1>34 DEF vars
<1> QED
  BY <1>1, <1>2, <1>3, <1>4, <1>5, <1>6, <1>7, <1>8, <1>9, <1>10, <1>11, <1>12, <1>13, <1>14, <1>15,
     <1>16, <1>17, <1>18, <1>19, <1>20, <1>21, <1>22, <1>23, <1>24, <1>25, <1>26, <1>27, <1>28, <1>29,
     <1>30, <1>31, <1>32, <1>33, <1>34
  DEF Next, Calls, InCall, Switch, Component

(* Every variable keeps its type: no semaphore counts below zero, the queue   *)
(* holds registrations, and the component is only sent commands it knows.     *)
THEOREM TypeCorrect == Spec => []TypeOK
<1>1. Init => TypeOK
  <2> SUFFICES ASSUME Init PROVE TypeOK
    OBVIOUS
  <2>1. pc \in [Threads -> Places]
    BY PlaceNames DEF Init, Rest
  <2>2. QueueOK /\ PlacesOK
    BY <2>1 DEF Init, QueueOK, PlacesOK
  <2>3. StateOK
    BY StateNames DEF Init, StateOK
  <2> QED
    BY <2>2, <2>3, TypeWhole
<1>2. TypeOK /\ [Next]_vars => TypeOK'
  <2> SUFFICES ASSUME TypeOK, [Next]_vars PROVE QueueOK' /\ PlacesOK' /\ StateOK'
    BY DEF TypeOK, QueueOK, PlacesOK, StateOK, Registrations, Places
  <2> QED
    BY QueuesStep, PlacesStep, StateStep
<1> QED
  BY <1>1, <1>2, PTL DEF Spec

-----------------------------------------------------------------------------
(* One thread asks at a time.  While the switch to Executing is requested or  *)
(* running, mStateSwitchLock is held, and the application's thread is at a    *)
(* place that it has not come to through the lock.                            *)

NoSwitch == ~switchRequested /\ pc["cmd"] = "rest"
Outside  == pc["app"] \in {"idle", "query", "ready", "load", "failed", "released", "crashed"}

SwitchIsLocked ==
  /\ switchRequested => pc["cmd"] = "rest"
  /\ ~NoSwitch => mStateSwitchLock /\ Outside

LEMMA OneStep == TypeOK /\ TypeOK' /\ SwitchIsLocked /\ [Next]_vars => SwitchIsLocked'
<1> SUFFICES ASSUME TypeOK, TypeOK', SwitchIsLocked, [Next]_vars PROVE SwitchIsLocked'
  OBVIOUS
<1>0. PlacesOK
  BY TypeParts
<1> USE <1>0, ThreadNames DEF SwitchIsLocked, NoSwitch, Outside, Goto, switching, PlacesOK
<1>1. CASE InitializeDone
  BY <1>1 DEF InitializeDone, Over, GiveUp
<1>2. CASE SetErrorHandler
  BY <1>2 DEF SetErrorHandler, places
<1>3. CASE ResolutionKnown
  BY <1>3 DEF ResolutionKnown
<1>4. CASE SwitchToExecuting
  BY <1>4 DEF SwitchToExecuting, Lock
<1>5. CASE UseBuffersPreview
  BY <1>5 DEF UseBuffersPreview, AskComponent, AskThen, Ask, Lock
<1>6. CASE BelieveIdle
  BY <1>6 DEF BelieveIdle
<1>7. CASE BuffersUsed
  BY <1>7 DEF BuffersUsed, Result, Over, Unlock
<1>8. CASE StartPreview
  BY <1>8 DEF StartPreview, AskComponent, AskThen, Ask
<1>9. CASE PreviewStarted
  BY <1>9 DEF PreviewStarted, Result, Over, GiveUp, Unlock
<1>10. CASE QueueBuffers
  BY <1>10 DEF QueueBuffers, Fill, Unlock
<1>11. CASE CaptureConfigured
  BY <1>11 DEF CaptureConfigured, Result, Over, GiveUp
<1>12. CASE ImageFlushed
  BY <1>12 DEF ImageFlushed, Over, AskComponent, AskThen, Ask, GiveUp
<1>13. CASE ImagePortDisabled
  BY <1>13 DEF ImagePortDisabled, Over, AskComponent, AskThen, Ask, GiveUp
<1>14. CASE PreviewFlushed
  BY <1>14 DEF PreviewFlushed, Over, AskComponent, AskThen, Ask, GiveUp
<1>15. CASE PreviewStopped
  BY <1>15 DEF PreviewStopped, Over, GiveUp
<1>16. CASE SwitchToLoaded
  BY <1>16 DEF SwitchToLoaded, AskComponent, AskThen, Ask, Lock
<1>17. CASE IdleToLoad
  BY <1>17 DEF IdleToLoad, Over, AskComponent, AskThen, Ask, GiveUp, Unlock
<1>18. CASE LoadedReached
  BY <1>18 DEF LoadedReached, Result, Over, AskComponent, AskThen, Ask, GiveUp, Unlock
<1>19. CASE PortEnabled
  BY <1>19 DEF PortEnabled, Over, GiveUp, Unlock
<1>20. CASE Initialize
  BY <1>20 DEF Initialize, Ask
<1>21. CASE QueryResolution
  BY <1>21 DEF QueryResolution
<1>22. CASE StopWithoutWindow
  BY <1>22 DEF StopWithoutWindow, places
<1>23. CASE UseBuffersCapture
  BY <1>23 DEF UseBuffersCapture, AskComponent, AskThen, Ask
<1>24. CASE StopPreview
  BY <1>24 DEF StopPreview, AskComponent, AskThen, Ask
<1>25. CASE Release
  BY <1>25 DEF Release
<1>26. CASE DoSwitchToExecuting
  <2>1. switchRequested /\ ~switchRequested' /\ Outside /\ mStateSwitchLock
    BY <1>26 DEF DoSwitchToExecuting
  <2>2. pc' = pc \/ \E l : pc' = [pc EXCEPT !["cmd"] = l] /\ UNCHANGED mStateSwitchLock
    BY <1>26 DEF DoSwitchToExecuting, AskComponent, AskThen, Ask, places
  <2>3. pc'["app"] = pc["app"] /\ (pc'["cmd"] # "rest" => mStateSwitchLock')
    BY <2>1, <2>2
  <2> QED
    BY <2>1, <2>3
<1>27. CASE ExecPortDisabled
  <2>1. pc["cmd"] # "rest" /\ UNCHANGED <<switchRequested, mStateSwitchLock>>
    BY <1>27 DEF ExecPortDisabled, Over
  <2>2. \E l : pc' = [pc EXCEPT !["cmd"] = l]
    BY <1>27 DEF ExecPortDisabled, AskComponent, AskThen, Ask
  <2>3. pc'["app"] = pc["app"]
    BY <2>2
  <2> QED
    BY <2>1, <2>3
<1>28. CASE ExecIdleReached
  <2>1. pc["cmd"] # "rest" /\ UNCHANGED switchRequested
    BY <1>28 DEF ExecIdleReached, Over
  <2>2. \/ UNCHANGED mStateSwitchLock /\ \E l : pc' = [pc EXCEPT !["cmd"] = l]
        \/ pc' = [pc EXCEPT !["cmd"] = "rest"]
    BY <1>28 DEF ExecIdleReached, AskComponent, AskThen, Ask, ExecFails
  <2>3. pc'["app"] = pc["app"] /\ (pc'["cmd"] # "rest" => mStateSwitchLock')
    BY <2>1, <2>2
  <2> QED
    BY <2>1, <2>3
<1>29. CASE ExecutingReached
  BY <1>29 DEF ExecutingReached, Over, Unlock, ExecFails
<1>30. CASE CommandComplete
  BY <1>30 DEF CommandComplete, places
<1>31. CASE FatalError
  BY <1>31 DEF FatalError, places
<1>32. CASE ClearEvents
  BY <1>32 DEF ClearEvents, places
<1>33. ASSUME NEW t \in Threads, Wait(t) PROVE SwitchIsLocked'
  BY <1>33 DEF Wait, Answered, Expired, Expires
<1>34. CASE UNCHANGED vars
  BY <1>34 DEF vars, places
<1> QED
  BY <1>1, <1>2, <1>3, <1>4, <1>5, <1>6, <1>7, <1>8, <1>9, <1>10, <1>11, <1>12, <1>13, <1>14, <1>15,
     <1>16, <1>17, <1>18, <1>19, <1>20, <1>21, <1>22, <1>23, <1>24, <1>25, <1>26, <1>27, <1>28, <1>29,
     <1>30, <1>31, <1>32, <1>33, <1>34
  DEF Next, Calls, InCall, Switch, Component

(* The answer of a command goes to the thread that sent it, for every         *)
(* scenario and number of previews.                                           *)
THEOREM OneThreadAsks == Spec => []OneAtATime
<1>1. Init => SwitchIsLocked
  BY ThreadNames DEF Init, SwitchIsLocked, NoSwitch
<1>2. SwitchIsLocked => OneAtATime
  BY DEF SwitchIsLocked, NoSwitch, Outside, OneAtATime, AppWaits
<1> QED
  BY <1>1, <1>2, OneStep, TypeCorrect, PTL DEF Spec

-----------------------------------------------------------------------------
(* Tokens.  While no wait has timed out, a registration and the token it      *)
(* becomes are those of the one thread that asks.  A thread whose wait timed  *)
(* out gives up and frees the handle, so that it never asks again, unless it  *)
(* is doSwitchToExecuting() waiting for the port: Timely leaves that answer   *)
(* in time.                                                                   *)

Timely == \A s \in Scenarios : "execDisable" \notin s.late

Registration(w) == Message(OMX_EventCmdComplete, Requests[w].command, Requests[w].data, Requests[w].semaphore)

Asking(w) ==
  \/ \E t \in Threads : pc[t] = w /\ answer[t] = "none"
  \/ pc["app"] = "useSent" /\ answer["app"] = "none" /\ w = "useIdle"

NoToken     == \A s \in Semaphores : semaphores[s] = 0
TokenFor(w) == \A s \in Semaphores : semaphores[s] = IF s = Requests[w].semaphore THEN 1 ELSE 0
Posted      == \E w \in Waits : Asking(w) /\ TokenFor(w) /\ (alive => mEventSignalQ = <<>>)
Registered  == \E w \in Waits : Asking(w) /\ mEventSignalQ = <<Registration(w)>>
Tokens      == Posted \/ (NoToken /\ (alive => mEventSignalQ = <<>> \/ Registered))

InTime    == answer["app"] # "expired" /\ (answer["cmd"] = "expired" => pc["cmd"] = "execDisable" /\ ~alive)
Unstarted == pc["app"] = "new" => ~alive /\ mEventSignalQ = <<>> /\ \A t \in Threads : answer[t] = "none"
TimedOut  ==
  /\ \A t \in Threads : answer[t] = "expired" => pc[t] \in Waits \/ ~mHandleComp
  /\ answer["cmd"] = "expired" /\ pc["cmd"] = "execDisable" => ~alive
TokenInv  == Unstarted /\ TimedOut /\ (InTime => Tokens)

(* What SignalEvent() finds in a queue of at most one registration.          *)
LEMMA EmptyMatches ==
  ASSUME NEW e, NEW a, NEW b
  PROVE  WithoutMatch(<<>>, e, a, b) = <<>> /\ MatchedSemaphore(<<>>, e, a, b) = {}
<1>1. Matching(<<>>, e, a, b) = {}
  BY DEF Matching
<1> QED
  BY <1>1 DEF WithoutMatch, MatchedSemaphore

LEMMA SingleMatches ==
  ASSUME NEW m, NEW e, NEW a, NEW b
  PROVE  /\ WithoutMatch(<<m>>, e, a, b) = IF Matches(m, e, a, b) THEN <<>> ELSE <<m>>
         /\ MatchedSemaphore(<<m>>, e, a, b) = IF Matches(m, e, a, b) THEN {m.arg3} ELSE {}
<1>1. DOMAIN <<m>> = {1} /\ <<m>>[1] = m
  OBVIOUS
<1>2. Matching(<<m>>, e, a, b) = IF Matches(m, e, a, b) THEN {1} ELSE {}
  BY <1>1 DEF Matching
<1>3. First({1}) = 1
  BY FirstMatches
<1>4. RemoveAt(<<m>>, 1) = <<>>
  BY DEF RemoveAt
<1> QED
  BY <1>1, <1>2, <1>3, <1>4 DEF WithoutMatch, MatchedSemaphore

(* A thread goes to another place and asks for nothing.                       *)
LEMMA TokensKept ==
  ASSUME Tokens, UNCHANGED semaphores, alive' => alive /\ UNCHANGED mEventSignalQ,
         \A w \in Waits : Asking(w) => Asking(w)'
  PROVE  Tokens'
<1>1. Posted => Posted'
  BY DEF Posted, TokenFor
<1>2. NoToken => NoToken'
  BY DEF NoToken
<1>3. Registered /\ UNCHANGED mEventSignalQ => Registered'
  BY DEF Registered
<1> QED
  BY <1>1, <1>2, <1>3 DEF Tokens

LEMMA Moved ==
  ASSUME PlacesOK, TimedOut, InTime => Tokens, InTime', NEW t \in Threads, NEW l, l # "execDisable",
         Goto(t, l), UNCHANGED <<answer, semaphores>>, alive' => alive /\ UNCHANGED mEventSignalQ,
         answer[t] # "none" \/ pc[t] \notin Waits \union {"useSent"}
  PROVE  Tokens'
<1>1. InTime
  BY ThreadNames DEF InTime, TimedOut, Goto, PlacesOK, Threads
<1>2. ASSUME NEW w \in Waits, Asking(w) PROVE Asking(w)'
  BY <1>2, ThreadNames DEF Asking, Goto, PlacesOK, Threads
<1> QED
  BY <1>1, <1>2, TokensKept

(* A thread asks when nobody else does.                                       *)
LEMMA Asked ==
  ASSUME PlacesOK, NoToken, alive' => mEventSignalQ = <<>>, UNCHANGED semaphores,
         NEW t \in Threads, NEW w \in Waits, NEW l, NEW before, Ask(t, w, l, before),
         l = w \/ (t = "app" /\ l = "useSent" /\ w = "useIdle")
  PROVE  Tokens'
<1>1. NoToken'
  BY DEF NoToken
<1>2. Asking(w)'
  BY ThreadNames DEF Ask, Goto, Asking, PlacesOK
<1>3. alive' => mEventSignalQ' = <<Registration(w)>>
  BY DEF Ask, Registration
<1> QED
  BY <1>1, <1>2, <1>3 DEF Tokens, Registered

LEMMA NobodyAsks ==
  ASSUME Tokens, \A w \in Waits : ~Asking(w)
  PROVE  NoToken /\ (alive => mEventSignalQ = <<>>)
BY DEF Tokens, Posted, Registered

OtherRests(t) == (t = "app" /\ pc["cmd"] = "rest") \/ (t = "cmd" /\ Outside)

LEMMA NotWaits ==
  /\ \A l \in {"new", "idle", "preview", "failed", "released", "crashed", "load", "query", "ready",
               "useSent", "prepared", "fill", "rest"} : l \notin Waits
  /\ Outside => pc["app"] \notin Waits \union {"useSent"}
BY DEF Waits, AppWaits, CmdWaits, Outside

LEMMA AskedOrCrashed ==
  ASSUME PlacesOK, TimedOut, InTime => Tokens, InTime', NEW t \in Threads, NEW w \in Waits, NEW l,
         AskThen(t, w, l), l = w \/ (t = "app" /\ l = "useSent" /\ w = "useIdle"),
         UNCHANGED <<semaphores, alive>>, OtherRests(t),
         answer[t] # "none" \/ pc[t] \notin Waits \union {"useSent"},
         pc[t] \notin Waits \/ answer[t] = "done" \/ (t = "cmd" /\ pc[t] = "execDisable")
  PROVE  Tokens'
<1>1. CASE ~mHandleComp
  BY <1>1, Moved DEF AskThen
<1>2. CASE mHandleComp
  <2>1. Ask(t, w, l, <<>>)
    BY <1>2 DEF AskThen
  <2>2. answer' = [answer EXCEPT ![t] = "none"] /\ pc' = [pc EXCEPT ![t] = l]
    BY <2>1 DEF Ask, Goto
  <2>3. InTime
    BY <1>2, <2>2, ThreadNames DEF InTime, TimedOut, PlacesOK, Threads, OtherRests
  <2>4. \A v \in Waits : ~Asking(v)
    BY NotWaits, ThreadNames DEF OtherRests, Asking, Threads
  <2> QED
    BY <2>1, <2>3, <2>4, NobodyAsks, Asked
<1> QED
  BY <1>1, <1>2

(* The component reports a command: a registration becomes a token.          *)
LEMMA TokensSignalled ==
  ASSUME TypeOK, Tokens, alive, UNCHANGED <<places, alive>>, NEW c, SignalEvent(c)
  PROVE  Tokens'
<1>0. semaphores \in [Semaphores -> Nat] /\ \A w : Asking(w)' <=> Asking(w)
  BY DEF TypeOK, places, Asking
<1>1. CASE mEventSignalQ = <<>>
  <2> DEFINE posted == MatchedSemaphore(mEventSignalQ, OMX_EventCmdComplete, c.command, c.data)
  <2>1. posted = {} /\ mEventSignalQ' = mEventSignalQ
    BY <1>1, EmptyMatches DEF SignalEvent
  <2>2. semaphores' = [s \in Semaphores |-> semaphores[s] + IF s \in posted THEN 1 ELSE 0]
    BY DEF SignalEvent
  <2> HIDE DEF posted
  <2>3. semaphores' = semaphores
    BY <1>0, <2>1, <2>2
  <2> QED
    BY <1>0, <2>1, <2>3, TokensKept
<1>2. CASE mEventSignalQ # <<>>
  <2>1. PICK w \in Waits : Asking(w) /\ mEventSignalQ = <<Registration(w)>>
    BY <1>2 DEF Tokens, Posted, Registered
  <2>2. NoToken
    BY <1>2 DEF Tokens, Posted
  <2>3. CASE ~Matches(Registration(w), OMX_EventCmdComplete, c.command, c.data)
    <3> DEFINE posted == MatchedSemaphore(mEventSignalQ, OMX_EventCmdComplete, c.command, c.data)
    <3>1. posted = {} /\ mEventSignalQ' = mEventSignalQ
      BY <2>1, <2>3, SingleMatches DEF SignalEvent
    <3>2. semaphores' = [s \in Semaphores |-> semaphores[s] + IF s \in posted THEN 1 ELSE 0]
      BY DEF SignalEvent
    <3> HIDE DEF posted
    <3>3. semaphores' = semaphores
      BY <1>0, <3>1, <3>2
    <3> QED
      BY <1>0, <3>1, <3>3, TokensKept
  <2>4. CASE Matches(Registration(w), OMX_EventCmdComplete, c.command, c.data)
    <3>1. Registration(w).arg3 = Requests[w].semaphore
      BY DEF Registration, Message
    <3>2. mEventSignalQ' = <<>>
      BY <2>1, <2>4, SingleMatches DEF SignalEvent
    <3>3. semaphores' = [s \in Semaphores |-> semaphores[s] + IF s \in {Requests[w].semaphore} THEN 1 ELSE 0]
      BY <2>1, <2>4, <3>1, SingleMatches DEF SignalEvent
    <3>4. TokenFor(w)'
      BY <2>2, <3>3 DEF TokenFor, NoToken
    <3> QED
      BY <1>0, <2>1, <3>2, <3>4 DEF Tokens, Posted
  <2> QED
    BY <2>3, <2>4
<1> QED
  BY <1>1, <1>2

(* A fatal error posts the token of the one registration there is.           *)
LEMMA TokensPosted == ASSUME TypeOK, Tokens, FatalError PROVE Tokens'
<1> DEFINE posts(s) == Cardinality({i \in DOMAIN mEventSignalQ : mEventSignalQ[i].arg3 = s})
<1>0. semaphores \in [Semaphores -> Nat] /\ \A w : Asking(w)' <=> Asking(w)
  BY DEF TypeOK, FatalError, places, Asking
<1>1. alive /\ ~alive' /\ semaphores' = [s \in Semaphores |-> semaphores[s] + posts(s)]
  BY DEF FatalError
<1>2. CASE mEventSignalQ = <<>>
  <2>1. \A s : {i \in DOMAIN mEventSignalQ : mEventSignalQ[i].arg3 = s} = {}
    BY <1>2
  <2>2. \A s : posts(s) = 0
    BY <2>1, FS_EmptySet
  <2> HIDE DEF posts
  <2>3. semaphores' = semaphores
    BY <1>0, <1>1, <2>2
  <2> QED
    BY <1>0, <1>1, <2>3, TokensKept
<1>3. CASE mEventSignalQ # <<>>
  <2>1. PICK w \in Waits : Asking(w) /\ mEventSignalQ = <<Registration(w)>>
    BY <1>1, <1>3 DEF Tokens, Posted, Registered
  <2>2. NoToken
    BY <1>1, <1>3 DEF Tokens, Posted
  <2>3. DOMAIN mEventSignalQ = {1} /\ mEventSignalQ[1].arg3 = Requests[w].semaphore
    BY <2>1 DEF Registration, Message
  <2>4. \A s : posts(s) = IF s = Requests[w].semaphore THEN 1 ELSE 0
    <3>1. \A s : {i \in DOMAIN mEventSignalQ : mEventSignalQ[i].arg3 = s}
                   = IF s = Requests[w].semaphore THEN {1} ELSE {}
      BY <2>3
    <3>2. Cardinality({1}) = 1 /\ Cardinality({}) = 0
      BY FS_Singleton, FS_EmptySet
    <3> QED
      BY <3>1, <3>2
  <2> HIDE DEF posts
  <2>5. TokenFor(w)'
    BY <1>1, <2>2, <2>4 DEF TokenFor, NoToken
  <2> QED
    BY <1>0, <1>1, <2>1, <2>5 DEF Tokens, Posted
<1> QED
  BY <1>2, <1>3

(* A wait takes the token of the thread that waits, and leaves none.         *)
LEMMA TokensTaken ==
  ASSUME TypeOK, SwitchIsLocked, Tokens, NEW t \in Threads, Answered(t)
  PROVE  Tokens'
<1>0. PlacesOK /\ semaphores \in [Semaphores -> Nat]
  BY TypeParts DEF TypeOK
<1> DEFINE w == pc[t]
           s == Requests[w].semaphore
<1>1. w \in Waits /\ answer[t] = "none" /\ s \in Semaphores /\ semaphores[s] > 0
  BY RequestTypes DEF Answered
<1>2. semaphores' = [semaphores EXCEPT ![s] = @ - 1] /\ UNCHANGED <<mEventSignalQ, alive>>
  BY DEF Answered, component
<1>3. \A v \in Waits : Asking(v) => v = w
  BY <1>1, NotWaits, ThreadNames DEF Asking, SwitchIsLocked, NoSwitch, Outside, Threads
<1> HIDE DEF w
<1>4. ~NoToken
  BY <1>1 DEF NoToken
<1>5. Posted
  BY <1>4 DEF Tokens
<1>6. TokenFor(w) /\ (alive => mEventSignalQ = <<>>)
  BY <1>3, <1>5 DEF Posted
<1>7. NoToken'
  BY <1>0, <1>2, <1>6 DEF NoToken, TokenFor
<1> QED
  BY <1>2, <1>6, <1>7 DEF Tokens

(* Nothing is asked before initialize().                                      *)
LEMMA UnstartedStep == TypeOK /\ SwitchIsLocked /\ Unstarted /\ [Next]_vars => Unstarted'
<1> SUFFICES ASSUME TypeOK, SwitchIsLocked, Unstarted, [Next]_vars, pc'["app"] = "new" PROVE Unstarted'
  BY DEF Unstarted
<1>0. PlacesOK /\ caller \in {"query", "stop", "release"}
  BY TypeParts DEF TypeOK
<1> USE <1>0, ThreadNames, NotWaits
<1> USE DEF PlacesOK, Unstarted, SwitchIsLocked, NoSwitch, Outside, Goto, events, places, component
<1>1. CASE InitializeDone
  BY <1>1 DEF InitializeDone, GiveUp, Cleanup, Over
<1>2. CASE SetErrorHandler
  BY <1>2 DEF SetErrorHandler
<1>3. CASE ResolutionKnown
  BY <1>3 DEF ResolutionKnown
<1>4. CASE SwitchToExecuting
  BY <1>4 DEF SwitchToExecuting
<1>5. CASE UseBuffersPreview
  BY <1>5 DEF UseBuffersPreview, AskComponent, AskThen, Ask
<1>6. CASE BelieveIdle
  BY <1>6 DEF BelieveIdle
<1>7. CASE BuffersUsed
  BY <1>7 DEF BuffersUsed, Result, Cleanup, Over
<1>8. CASE StartPreview
  BY <1>8 DEF StartPreview, AskComponent, AskThen, Ask
<1>9. CASE PreviewStarted
  BY <1>9 DEF PreviewStarted, Result, GiveUp, Cleanup, Over
<1>10. CASE QueueBuffers
  BY <1>10 DEF QueueBuffers, Fill, Cleanup
<1>11. CASE CaptureConfigured
  BY <1>11 DEF CaptureConfigured, Result, GiveUp, Cleanup, Over
<1>12. CASE ImageFlushed
  BY <1>12 DEF ImageFlushed, AskComponent, AskThen, Ask, GiveUp, Cleanup, Over
<1>13. CASE ImagePortDisabled
  BY <1>13 DEF ImagePortDisabled, AskComponent, AskThen, Ask, GiveUp, Cleanup, Over
<1>14. CASE PreviewFlushed
  BY <1>14 DEF PreviewFlushed, AskComponent, AskThen, Ask, GiveUp, Cleanup, Over
<1>15. CASE PreviewStopped
  BY <1>15 DEF PreviewStopped, GiveUp, Cleanup, Over
<1>16. CASE SwitchToLoaded
  BY <1>16 DEF SwitchToLoaded, AskComponent, AskThen, Ask, Loaded, Failed
<1>17. CASE IdleToLoad
  BY <1>17 DEF IdleToLoad, AskComponent, AskThen, Ask, GiveUp, Cleanup, Over, Loaded, Failed
<1>18. CASE LoadedReached
  BY <1>18 DEF LoadedReached, Result, AskComponent, AskThen, Ask, GiveUp, Cleanup, Over, Loaded, Failed
<1>19. CASE PortEnabled
  BY <1>19 DEF PortEnabled, GiveUp, Cleanup, Over
<1>20. CASE Initialize
  BY <1>20 DEF Initialize, Ask
<1>21. CASE QueryResolution
  BY <1>21 DEF QueryResolution
<1>22. CASE StopWithoutWindow
  BY <1>22 DEF StopWithoutWindow
<1>23. CASE UseBuffersCapture
  BY <1>23 DEF UseBuffersCapture, AskComponent, AskThen, Ask
<1>24. CASE StopPreview
  BY <1>24 DEF StopPreview, AskComponent, AskThen, Ask
<1>25. CASE Release
  BY <1>25 DEF Release
<1>26. CASE DoSwitchToExecuting
  BY <1>26 DEF DoSwitchToExecuting, AskComponent, AskThen, Ask
<1>27. CASE ExecPortDisabled
  BY <1>27 DEF ExecPortDisabled, AskComponent, AskThen, Ask, Over
<1>28. CASE ExecIdleReached
  BY <1>28 DEF ExecIdleReached, AskComponent, AskThen, Ask, Cleanup, Over, ExecFails
<1>29. CASE ExecutingReached
  BY <1>29 DEF ExecutingReached, Cleanup, Over, ExecFails
<1>30. CASE CommandComplete
  BY <1>30 DEF CommandComplete
<1>31. CASE FatalError
  BY <1>31 DEF FatalError
<1>32. CASE ClearEvents
  BY <1>32 DEF ClearEvents
<1>33. ASSUME NEW t \in Threads, Wait(t) PROVE Unstarted'
  <2>1. pc[t] \in Waits /\ pc["app"] = "new"
    BY <1>33 DEF Wait, Answered, Expired, Expires
  <2>2. pc["cmd"] = "rest"
    BY <2>1
  <2> QED
    BY <2>1, <2>2 DEF Threads
<1>34. CASE UNCHANGED vars
  BY <1>34 DEF vars
<1> QED
  BY <1>1, <1>2, <1>3, <1>4, <1>5, <1>6, <1>7, <1>8, <1>9, <1>10, <1>11, <1>12, <1>13, <1>14, <1>15,
     <1>16, <1>17, <1>18, <1>19, <1>20, <1>21, <1>22, <1>23, <1>24, <1>25, <1>26, <1>27, <1>28, <1>29,
     <1>30, <1>31, <1>32, <1>33, <1>34
  DEF Next, Calls, InCall, Switch, Component

(* A thread whose wait timed out gives up.                                    *)
LEMMA TimedOutStep ==
  ASSUME Timely, TypeOK, SwitchIsLocked, Unstarted, TimedOut, InTime => Tokens, [Next]_vars
  PROVE  TimedOut'
<1>0. PlacesOK
  BY TypeParts
<1> USE <1>0, ThreadNames, NotWaits
<1> USE DEF PlacesOK, TimedOut, Threads, Goto, adapter, events, places, component
<1>1. CASE InitializeDone
  BY <1>1 DEF InitializeDone, GiveUp, Cleanup, Over, Succeeded
<1>2. CASE SetErrorHandler
  BY <1>2 DEF SetErrorHandler
<1>3. CASE ResolutionKnown
  BY <1>3 DEF ResolutionKnown
<1>4. CASE SwitchToExecuting
  BY <1>4 DEF SwitchToExecuting
<1>5. CASE UseBuffersPreview
  BY <1>5 DEF UseBuffersPreview, AskComponent, AskThen, Ask
<1>6. CASE BelieveIdle
  BY <1>6 DEF BelieveIdle, Believe
<1>7. CASE BuffersUsed
  BY <1>7 DEF BuffersUsed, Result, Cleanup, Over, Succeeded
<1>8. CASE StartPreview
  BY <1>8 DEF StartPreview, AskComponent, AskThen, Ask
<1>9. CASE PreviewStarted
  BY <1>9 DEF PreviewStarted, Result, GiveUp, Cleanup, Over, Succeeded, Believe
<1>10. CASE QueueBuffers
  BY <1>10 DEF QueueBuffers, Fill, Cleanup
<1>11. CASE CaptureConfigured
  BY <1>11 DEF CaptureConfigured, Result, GiveUp, Cleanup, Over, Succeeded
<1>12. CASE ImageFlushed
  BY <1>12 DEF ImageFlushed, AskComponent, AskThen, Ask, GiveUp, Cleanup, Over, Succeeded
<1>13. CASE ImagePortDisabled
  BY <1>13 DEF ImagePortDisabled, AskComponent, AskThen, Ask, GiveUp, Cleanup, Over, Succeeded
<1>14. CASE PreviewFlushed
  BY <1>14 DEF PreviewFlushed, AskComponent, AskThen, Ask, GiveUp, Cleanup, Over, Succeeded
<1>15. CASE PreviewStopped
  BY <1>15 DEF PreviewStopped, GiveUp, Cleanup, Over, Succeeded, Believe
<1>16. CASE SwitchToLoaded
  BY <1>16 DEF SwitchToLoaded, AskComponent, AskThen, Ask
<1>17. CASE IdleToLoad
  BY <1>17 DEF IdleToLoad, AskComponent, AskThen, Ask, GiveUp, Cleanup, Over, Succeeded, Believe
<1>18. CASE LoadedReached
  BY <1>18 DEF LoadedReached, Result, AskComponent, AskThen, Ask, GiveUp, Cleanup, Over, Succeeded, Believe
<1>19. CASE PortEnabled
  BY <1>19 DEF PortEnabled, GiveUp, Cleanup, Over, Succeeded
<1>20. CASE Initialize
  BY <1>20 DEF Initialize, Ask, Unstarted
<1>21. CASE QueryResolution
  BY <1>21 DEF QueryResolution
<1>22. CASE StopWithoutWindow
  BY <1>22 DEF StopWithoutWindow
<1>23. CASE UseBuffersCapture
  BY <1>23 DEF UseBuffersCapture, AskComponent, AskThen, Ask
<1>24. CASE StopPreview
  BY <1>24 DEF StopPreview, AskComponent, AskThen, Ask
<1>25. CASE Release
  BY <1>25 DEF Release
<1>26. CASE DoSwitchToExecuting
  BY <1>26 DEF DoSwitchToExecuting, AskComponent, AskThen, Ask
<1>27. CASE ExecPortDisabled
  BY <1>27 DEF ExecPortDisabled, AskComponent, AskThen, Ask, Over, Succeeded
<1>28. CASE ExecIdleReached
  BY <1>28 DEF ExecIdleReached, AskComponent, AskThen, Ask, Cleanup, Over, Succeeded, ExecFails, Believe
<1>29. CASE ExecutingReached
  BY <1>29 DEF ExecutingReached, Cleanup, Over, Succeeded, ExecFails, Believe
<1>30. CASE CommandComplete
  BY <1>30 DEF CommandComplete
<1>31. CASE FatalError
  BY <1>31 DEF FatalError
<1>32. CASE ClearEvents
  BY <1>32 DEF ClearEvents
<1>33. ASSUME NEW t \in Threads, Wait(t) PROVE TimedOut'
  <2>1. CASE Answered(t)
    BY <2>1 DEF Answered
  <2>2. CASE Expired(t)
    <3>1. answer' = [answer EXCEPT ![t] = "expired"] /\ UNCHANGED <<pc, mHandleComp, alive>> /\ pc[t] \in Waits
      BY <2>2 DEF Expired, Expires
    <3>2. t = "cmd" /\ pc[t] = "execDisable" => ~alive
      BY <2>2 DEF Expired, Expires, Timely, TypeOK
    <3> QED
      BY <3>1, <3>2
  <2> QED
    BY <1>33, <2>1, <2>2 DEF Wait
<1>34. CASE UNCHANGED vars
  BY <1>34 DEF vars
<1> QED
  BY <1>1, <1>2, <1>3, <1>4, <1>5, <1>6, <1>7, <1>8, <1>9, <1>10, <1>11, <1>12, <1>13, <1>14, <1>15,
     <1>16, <1>17, <1>18, <1>19, <1>20, <1>21, <1>22, <1>23, <1>24, <1>25, <1>26, <1>27, <1>28, <1>29,
     <1>30, <1>31, <1>32, <1>33, <1>34
  DEF Next, Calls, InCall, Switch, Component

LEMMA TokensStay ==
  ASSUME InTime => Tokens, InTime', UNCHANGED <<places, semaphores, mEventSignalQ, alive>>
  PROVE  Tokens'
<1>1. InTime /\ \A w : Asking(w)' <=> Asking(w)
  BY DEF InTime, Asking, places
<1> QED
  BY <1>1, TokensKept

LEMMA CallerNames ==
  ASSUME caller \in {"query", "stop", "release"}
  PROVE  {Loaded[caller], Failed[caller]} \subseteq {"query", "idle", "failed", "released"}
BY DEF Loaded, Failed

(* Tokens, action by action.                                                  *)
LEMMA TokensStep ==
  ASSUME TypeOK, SwitchIsLocked, Unstarted, TimedOut, InTime => Tokens, [Next]_vars, InTime'
  PROVE  Tokens'
<1>0. PlacesOK /\ QueueOK /\ caller \in {"query", "stop", "release"}
  BY TypeParts DEF TypeOK
<1> USE <1>0, ThreadNames, NotWaits, WaitPlaces
<1> USE DEF Over, SwitchIsLocked, NoSwitch, Outside, OtherRests, events, adapter, places, component
<1>1. CASE InitializeDone
  BY <1>1, Moved DEF InitializeDone, GiveUp, Cleanup
<1>2. CASE SetErrorHandler
  BY <1>2, TokensStay DEF SetErrorHandler
<1>3. CASE ResolutionKnown
  BY <1>3, Moved DEF ResolutionKnown
<1>4. CASE SwitchToExecuting
  BY <1>4, Moved DEF SwitchToExecuting
<1>5. CASE UseBuffersPreview
  BY <1>5, Moved, AskedOrCrashed DEF UseBuffersPreview, AskComponent, Succeeded, Lock
<1>6. CASE BelieveIdle
  <2>1. pc["app"] = "useSent" /\ pc' = [pc EXCEPT !["app"] = "useIdle"] /\ UNCHANGED <<answer, semaphores, mEventSignalQ, alive>>
    BY <1>6 DEF BelieveIdle, Goto
  <2>2. InTime
    BY <2>1 DEF InTime, PlacesOK
  <2>3. ASSUME NEW w \in Waits, Asking(w) PROVE Asking(w)'
    BY <2>1, <2>3 DEF Asking, PlacesOK, Threads
  <2> QED
    BY <2>1, <2>2, <2>3, TokensKept
<1>7. CASE BuffersUsed
  <2>1. UNCHANGED <<answer, semaphores>> /\ (alive' => alive /\ UNCHANGED mEventSignalQ)
    BY <1>7 DEF BuffersUsed, Result, WithdrawBuffers, Cleanup, InTime
  <2>2. \E l \in {"prepared", "failed"} : Goto("app", l)
    BY <1>7 DEF BuffersUsed, Result
  <2>3. answer["app"] # "none"
    BY <1>7 DEF BuffersUsed, Result
  <2> QED
    BY <2>1, <2>2, <2>3, Moved
<1>8. CASE StartPreview
  BY <1>8, Moved, AskedOrCrashed DEF StartPreview, AskComponent, Succeeded
<1>9. CASE PreviewStarted
  BY <1>9, Moved DEF PreviewStarted, Result, GiveUp, Cleanup
<1>10. CASE QueueBuffers
  BY <1>10, Moved DEF QueueBuffers, Fill, Cleanup
<1>11. CASE CaptureConfigured
  BY <1>11, Moved DEF CaptureConfigured, Result, GiveUp, Cleanup
<1>12. CASE ImageFlushed
  BY <1>12, Moved, AskedOrCrashed DEF ImageFlushed, AskComponent, Succeeded, GiveUp, Cleanup
<1>13. CASE ImagePortDisabled
  BY <1>13, Moved, AskedOrCrashed DEF ImagePortDisabled, AskComponent, Succeeded, GiveUp, Cleanup
<1>14. CASE PreviewFlushed
  BY <1>14, Moved, AskedOrCrashed DEF PreviewFlushed, AskComponent, Succeeded, GiveUp, Cleanup
<1>15. CASE PreviewStopped
  BY <1>15, Moved DEF PreviewStopped, GiveUp, Cleanup
<1>16. CASE SwitchToLoaded
  <2>1. pc["app"] = "load" /\ pc["cmd"] = "rest" /\ UNCHANGED <<semaphores, alive>>
    BY <1>16 DEF SwitchToLoaded
  <2>2. CASE Goto("app", Loaded[caller]) /\ UNCHANGED <<mEventSignalQ, answer>>
    BY <2>1, <2>2, CallerNames, Moved
  <2>3. CASE AskThen("app", "loadIdle", "loadIdle")
    BY <2>1, <2>3, AskedOrCrashed
  <2>4. CASE AskThen("app", "loaded", "loaded")
    BY <2>1, <2>4, AskedOrCrashed
  <2> QED
    BY <1>16, <2>2, <2>3, <2>4 DEF SwitchToLoaded, AskComponent
<1>17. CASE IdleToLoad
  <2>1. pc["app"] = "loadIdle" /\ answer["app"] # "none" /\ pc["cmd"] = "rest" /\ UNCHANGED semaphores
    BY <1>17 DEF IdleToLoad
  <2>2. CASE AskThen("app", "loaded", "loaded") /\ answer["app"] = "done" /\ UNCHANGED alive
    BY <2>1, <2>2, AskedOrCrashed
  <2>3. CASE Goto("app", Failed[caller]) /\ UNCHANGED answer /\ ~alive'
    BY <2>1, <2>3, CallerNames, Moved
  <2>4. CASE Goto("app", "crashed") /\ UNCHANGED answer /\ ~alive'
    BY <2>1, <2>4, Moved
  <2> QED
    BY <1>17, <2>2, <2>3, <2>4 DEF IdleToLoad, AskComponent, GiveUp, Cleanup, Succeeded
<1>18. CASE LoadedReached
  <2>1. pc["app"] = "loaded" /\ answer["app"] # "none" /\ pc["cmd"] = "rest" /\ UNCHANGED semaphores
    BY <1>18 DEF LoadedReached, Result
  <2>2. CASE AskThen("app", "enable", "enable") /\ answer["app"] = "done" /\ UNCHANGED alive
    BY <2>1, <2>2, AskedOrCrashed
  <2>3. CASE Goto("app", Loaded[caller]) /\ UNCHANGED <<answer, mEventSignalQ, alive>>
    BY <2>1, <2>3, CallerNames, Moved
  <2>4. CASE Goto("app", Failed[caller]) /\ UNCHANGED answer /\ ~alive'
    BY <2>1, <2>4, CallerNames, Moved
  <2>5. CASE Goto("app", Loaded[caller]) /\ UNCHANGED answer /\ ~alive'
    BY <2>1, <2>5, CallerNames, Moved
  <2> QED
    BY <1>18, <2>2, <2>3, <2>4, <2>5 DEF LoadedReached, Result, AskComponent, GiveUp, Cleanup, Succeeded
<1>19. CASE PortEnabled
  BY <1>19, Moved DEF PortEnabled, GiveUp, Cleanup
<1>20. CASE Initialize
  <2>1. pc["app"] = "new" /\ pc["cmd"] = "rest" /\ UNCHANGED semaphores
    BY <1>20 DEF Initialize
  <2>2. mEventSignalQ = <<>> /\ \A t \in Threads : answer[t] = "none"
    BY <2>1 DEF Unstarted
  <2>3. Tokens /\ \A v \in Waits : ~Asking(v)
    BY <2>1, <2>2 DEF InTime, Asking, Threads
  <2>4. PICK before : Ask("app", "init", "init", before)
    BY <1>20 DEF Initialize
  <2> QED
    BY <2>1, <2>2, <2>3, <2>4, NobodyAsks, Asked
<1>21. CASE QueryResolution
  BY <1>21, Moved DEF QueryResolution
<1>22. CASE StopWithoutWindow
  BY <1>22, TokensStay DEF StopWithoutWindow
<1>23. CASE UseBuffersCapture
  BY <1>23, Moved, AskedOrCrashed DEF UseBuffersCapture, AskComponent, Succeeded
<1>24. CASE StopPreview
  BY <1>24, Moved, AskedOrCrashed DEF StopPreview, AskComponent, Succeeded
<1>25. CASE Release
  BY <1>25, Moved DEF Release
<1>26. CASE DoSwitchToExecuting
  <2>1. pc["cmd"] = "rest" /\ switchRequested /\ UNCHANGED <<semaphores, alive>>
    BY <1>26 DEF DoSwitchToExecuting
  <2>2. CASE UNCHANGED <<mEventSignalQ, places>>
    BY <2>1, <2>2, TokensStay
  <2>3. CASE AskThen("cmd", "execDisable", "execDisable")
    <3>1. Outside
      BY <2>1
    <3>2. CASE ~mHandleComp
      BY <2>1, <2>3, <3>2, Moved DEF AskThen
    <3>3. CASE mHandleComp
      BY <2>1, <2>3, <3>1, AskedOrCrashed
    <3> QED
      BY <3>2, <3>3
  <2> QED
    BY <1>26, <2>2, <2>3 DEF DoSwitchToExecuting, AskComponent
<1>27. CASE ExecPortDisabled
  BY <1>27, Moved, AskedOrCrashed DEF ExecPortDisabled, AskComponent, Succeeded
<1>28. CASE ExecIdleReached
  BY <1>28, Moved, AskedOrCrashed DEF ExecIdleReached, AskComponent, Succeeded, Cleanup, ExecFails
<1>29. CASE ExecutingReached
  BY <1>29, Moved DEF ExecutingReached, Cleanup, ExecFails
<1>30. CASE CommandComplete
  <2>1. PICK c : SignalEvent(c)
    BY <1>30 DEF CommandComplete
  <2>2. alive /\ UNCHANGED <<places, alive>>
    BY <1>30 DEF CommandComplete
  <2>3. InTime
    BY <2>2 DEF InTime
  <2> QED
    BY <2>1, <2>2, <2>3, TokensSignalled
<1>31. CASE FatalError
  <2>1. alive /\ UNCHANGED places
    BY <1>31 DEF FatalError
  <2>2. InTime
    BY <2>1 DEF InTime, TimedOut
  <2> QED
    BY <1>31, <2>2, TokensPosted
<1>32. CASE ClearEvents
  <2>1. UNCHANGED <<places, semaphores, alive>> /\ mEventSignalQ' = <<>>
    BY <1>32 DEF ClearEvents
  <2>2. InTime /\ \A w : Asking(w)' <=> Asking(w)
    BY <2>1 DEF InTime, Asking
  <2> QED
    BY <2>1, <2>2 DEF Tokens, Posted, TokenFor, NoToken
<1>33. ASSUME NEW t \in Threads, Wait(t) PROVE Tokens'
  <2>1. CASE Answered(t)
    <3>1. InTime
      BY <2>1 DEF InTime, Answered, Threads
    <3> QED
      BY <2>1, <3>1, TokensTaken
  <2>2. CASE Expired(t)
    <3>1. /\ pc[t] \in Waits /\ answer[t] = "none" /\ answer' = [answer EXCEPT ![t] = "expired"]
          /\ UNCHANGED <<pc, alive, mEventSignalQ>>
          /\ semaphores[Requests[pc[t]].semaphore] = 0 /\ semaphores' = [semaphores EXCEPT ![Requests[pc[t]].semaphore] = 0]
      BY <2>2 DEF Expired, Expires
    <3>2. t = "cmd" /\ pc[t] = "execDisable" /\ ~alive
      <4>1. answer'[t] = "expired"
        BY <3>1 DEF PlacesOK
      <4>2. t = "cmd"
        BY <4>1 DEF InTime, Threads
      <4> QED
        BY <3>1, <4>1, <4>2 DEF InTime
    <3>3. InTime /\ semaphores \in [Semaphores -> Nat]
      BY <3>1, <3>2 DEF InTime, TypeOK
    <3>4. UNCHANGED semaphores
      BY <3>1, <3>3
    <3>5. \A v \in Waits : Asking(v) => v = pc[t]
      BY <3>1, <3>2 DEF Asking, Threads
    <3>6. ~Posted
      BY <3>1, <3>5, RequestTypes DEF Posted, TokenFor
    <3> QED
      BY <3>1, <3>2, <3>3, <3>4, <3>6 DEF Tokens, NoToken
  <2> QED
    BY <1>33, <2>1, <2>2 DEF Wait
<1>34. CASE UNCHANGED vars
  BY <1>34, TokensStay DEF vars
<1> QED
  BY <1>1, <1>2, <1>3, <1>4, <1>5, <1>6, <1>7, <1>8, <1>9, <1>10, <1>11, <1>12, <1>13, <1>14, <1>15,
     <1>16, <1>17, <1>18, <1>19, <1>20, <1>21, <1>22, <1>23, <1>24, <1>25, <1>26, <1>27, <1>28, <1>29,
     <1>30, <1>31, <1>32, <1>33, <1>34
  DEF Next, Calls, InCall, Switch, Component

LEMMA TokenStep ==
  ASSUME Timely, TypeOK, SwitchIsLocked, TokenInv, [Next]_vars
  PROVE  TokenInv'
<1>1. Unstarted'
  BY UnstartedStep DEF TokenInv
<1>2. TimedOut'
  BY TimedOutStep DEF TokenInv
<1>3. InTime' => Tokens'
  BY TokensStep DEF TokenInv
<1> QED
  BY <1>1, <1>2, <1>3 DEF TokenInv

LEMMA TokenStart == Init => TokenInv
<1> SUFFICES ASSUME Init PROVE TokenInv
  OBVIOUS
<1>1. \A t \in Threads : answer[t] = "none"
  BY DEF Init
<1>2. NoToken
  BY DEF Init, NoToken
<1>3. Unstarted /\ TimedOut
  BY <1>1, ThreadNames DEF Init, Unstarted, TimedOut
<1>4. Tokens
  BY <1>2 DEF Init, Tokens
<1> QED
  BY <1>3, <1>4 DEF TokenInv

(* Two threads, six semaphores, and a hardware that may fail: as long as no   *)
(* wait timed out, there is at most one token, of the semaphore somebody      *)
(* waits for, whatever the number of previews, wherever the component fails,  *)
(* and whichever answers may be late, but that of the port in                 *)
(* doSwitchToExecuting(), whose time out is ignored.                          *)
THEOREM TokensOfWaits == ASSUME Timely PROVE Spec => []TokensAwaited
<1>1. Init => SwitchIsLocked
  BY ThreadNames DEF Init, SwitchIsLocked, NoSwitch
<1>2. TypeOK /\ SwitchIsLocked /\ TokenInv /\ [Next]_vars => TokenInv'
  BY TokenStep
<1>3. TokenInv => TokensAwaited
  <2> SUFFICES ASSUME TokenInv, \A t \in Threads : answer[t] # "expired",
                      NEW s \in Semaphores, semaphores[s] > 0
               PROVE  /\ semaphores[s] = 1
                      /\ \/ \E t \in Threads : pc[t] \in Waits /\ answer[t] = "none" /\ Requests[pc[t]].semaphore = s
                         \/ pc["app"] = "useSent" /\ s = "mUsePreviewSem"
    BY DEF TokensAwaited
  <2>1. Tokens
    BY ThreadNames DEF TokenInv, InTime
  <2>2. PICK w \in Waits : Asking(w) /\ TokenFor(w)
    BY <2>1 DEF Tokens, NoToken, Posted
  <2>3. semaphores[s] = 1 /\ s = Requests[w].semaphore
    BY <2>2 DEF TokenFor
  <2>4. Requests["useIdle"].semaphore = "mUsePreviewSem"
    BY DEF Requests, Asks
  <2> QED
    BY <2>2, <2>3, <2>4 DEF Asking
<1> QED
  BY <1>1, <1>2, <1>3, TokenStart, OneStep, TypeCorrect, PTL DEF Spec

-----------------------------------------------------------------------------
(* Agreement, on hardware that does not fail.  The component is alive while   *)
(* the handle is there; a call that gave up leaves OMX_StateInvalid and no    *)
(* thread that waits.  Until then the queue tells how far a command is: it    *)
(* holds the registration, and the component has the command, or both are     *)
(* gone and the command has its effect.                                       *)

At(w)   == (\E t \in Threads : pc[t] = w) \/ (pc["app"] = "useSent" /\ w = "useIdle")
Order(w) == [command |-> Requests[w].command, data |-> Requests[w].data]
Off(p)   == [command |-> OMX_CommandPortDisable, data |-> p]

Pending(w) ==
  \/ sent = <<Order(w)>>
  \/ w = "init" /\ sent \in {<<Off(mPrevPortIndex), Off(mImagePortIndex), Order(w)>>, <<Off(mImagePortIndex), Order(w)>>}
Effect(w) ==
  /\ Requests[w].command = OMX_CommandStateSet    => state = Requests[w].data
  /\ Requests[w].command = OMX_CommandPortEnable  => Requests[w].data \in enabled
  /\ Requests[w].command = OMX_CommandPortDisable => Requests[w].data \notin enabled
Sending ==
  /\ mEventSignalQ = <<>> => sent = <<>> /\ \A w \in Waits : At(w) => Effect(w)
  /\ mEventSignalQ # <<>> => \A w \in Waits : At(w) => Pending(w)

(* What holds at each place, whether the command is complete or not.          *)
Agree      == mComponentState = state
PreviewOn  == mPrevPortIndex \in enabled
OnInLoaded == state = OMX_StateLoaded <=> PreviewOn
Queries   == pc["cmd"] = "rest" /\ pc["app"] \in {"idle", "query", "ready"} => Agree /\ OnInLoaded
Loads     ==
  /\ pc["cmd"] = "rest" /\ pc["app"] = "load" => Agree /\ (caller = "query" => OnInLoaded)
  /\ pc["app"] = "load" /\ caller = "stop" => NoSwitch
  /\ pc["app"] \in {"load", "loadIdle", "loaded"} /\ caller = "stop" => PreviewOn
Prepares  ==
  /\ pc["app"] \in {"init", "enable"} => state = OMX_StateLoaded /\ Agree
  /\ pc["app"] = "useIdle" => mComponentState = OMX_StateIdle
  /\ pc["app"] \in {"useEnable", "prepared", "fill", "preview", "capture"} => Agree
Previews  ==
  pc["app"] \in {"useSent", "useIdle", "start", "prepared", "fill", "preview", "capture", "flushImage",
                 "disableImage", "flush", "stopIdle"} => PreviewOn
Switches  == pc["cmd"] \in {"execIdle", "execExecuting"} => ~PreviewOn
Frame     == Queries /\ Loads /\ Prepares /\ Previews /\ Switches

(* Places that no settled place follows.                                      *)
Leaving == \/ pc["app"] \in {"failed", "released", "crashed"}
           \/ pc["app"] \in {"load", "loadIdle", "loaded"} /\ caller = "release"

Fresh     == pc["app"] = "new" => state = OMX_StateLoaded /\ sent = <<>>
Gone      == ~alive /\ pc["app"] # "new" => Invalid /\ ~mHandleComp /\ pc["cmd"] = "rest" /\ Outside
Handled   == alive => ~Invalid /\ mHandleComp
Unexpired == \A t \in Threads : answer[t] # "expired"
CalmInv   == ~scenario.fatal =>
  /\ ~clearing /\ Fresh /\ Gone /\ Handled
  /\ alive /\ Unexpired /\ ~Leaving => Sending /\ Frame

LEMMA StateNumbers ==
  /\ OMX_StateInvalid # OMX_StateLoaded /\ OMX_StateInvalid # OMX_StateIdle /\ OMX_StateInvalid # OMX_StateExecuting
  /\ OMX_StateLoaded # OMX_StateIdle /\ OMX_StateLoaded # OMX_StateExecuting /\ OMX_StateIdle # OMX_StateExecuting
  /\ States = {OMX_StateInvalid, OMX_StateLoaded, OMX_StateIdle, OMX_StateExecuting}
BY DEF States, OMX_StateInvalid, OMX_StateLoaded, OMX_StateIdle, OMX_StateExecuting

LEMMA GoneStep ==
  ASSUME TypeOK, SwitchIsLocked, Unstarted, ~scenario.fatal, ~clearing, Fresh, Gone, Handled, [Next]_vars
  PROVE  ~clearing' /\ Fresh' /\ Gone' /\ Handled'
<1>0. PlacesOK /\ caller \in {"query", "stop", "release"}
  BY TypeParts DEF TypeOK
<1> DEFINE Goal == ~clearing' /\ Fresh' /\ Gone' /\ Handled'
<1> USE <1>0, ThreadNames, NotWaits, StateNumbers, WaitPlaces
<1> USE DEF PlacesOK, Unstarted, SwitchIsLocked, NoSwitch, Outside, Fresh, Gone, Handled, Invalid, Goto
<1> USE DEF events, adapter, places, switching, machine, component, fixed
<1>1. CASE InitializeDone
  BY <1>1 DEF InitializeDone, GiveUp, Cleanup, Over, Succeeded
<1>2. CASE SetErrorHandler
  BY <1>2 DEF SetErrorHandler
<1>3. CASE ResolutionKnown
  BY <1>3 DEF ResolutionKnown
<1>4. CASE SwitchToExecuting
  BY <1>4 DEF SwitchToExecuting
<1>5. CASE UseBuffersPreview
  BY <1>5 DEF UseBuffersPreview, AskComponent, AskThen, Ask
<1>6. CASE BelieveIdle
  BY <1>6 DEF BelieveIdle, Believe
<1>7. CASE BuffersUsed
  BY <1>7 DEF BuffersUsed, Result, Cleanup, Over, Succeeded
<1>8. CASE StartPreview
  BY <1>8 DEF StartPreview, AskComponent, AskThen, Ask
<1>9. CASE PreviewStarted
  BY <1>9 DEF PreviewStarted, Result, GiveUp, Cleanup, Over, Succeeded, Believe
<1>10. CASE QueueBuffers
  BY <1>10 DEF QueueBuffers, Fill, Cleanup
<1>11. CASE CaptureConfigured
  BY <1>11 DEF CaptureConfigured, Result, GiveUp, Cleanup, Over, Succeeded
<1>12. CASE ImageFlushed
  BY <1>12 DEF ImageFlushed, AskComponent, AskThen, Ask, GiveUp, Cleanup, Over, Succeeded
<1>13. CASE ImagePortDisabled
  BY <1>13 DEF ImagePortDisabled, AskComponent, AskThen, Ask, GiveUp, Cleanup, Over, Succeeded
<1>14. CASE PreviewFlushed
  BY <1>14 DEF PreviewFlushed, AskComponent, AskThen, Ask, GiveUp, Cleanup, Over, Succeeded
<1>15. CASE PreviewStopped
  BY <1>15 DEF PreviewStopped, GiveUp, Cleanup, Over, Succeeded, Believe
<1>16. CASE SwitchToLoaded
  BY <1>16, CallerNames DEF SwitchToLoaded, AskComponent, AskThen, Ask
<1>17. CASE IdleToLoad
  BY <1>17, CallerNames DEF IdleToLoad, AskComponent, AskThen, Ask, GiveUp, Cleanup, Over, Succeeded, Believe
<1>18. CASE LoadedReached
  BY <1>18, CallerNames DEF LoadedReached, Result, AskComponent, AskThen, Ask, GiveUp, Cleanup, Over, Succeeded, Believe
<1>19. CASE PortEnabled
  BY <1>19 DEF PortEnabled, GiveUp, Cleanup, Over, Succeeded
<1>20. CASE Initialize
  BY <1>20 DEF Initialize, Ask
<1>21. CASE QueryResolution
  BY <1>21 DEF QueryResolution
<1>22. CASE StopWithoutWindow
  BY <1>22 DEF StopWithoutWindow
<1>23. CASE UseBuffersCapture
  BY <1>23 DEF UseBuffersCapture, AskComponent, AskThen, Ask
<1>24. CASE StopPreview
  BY <1>24 DEF StopPreview, AskComponent, AskThen, Ask
<1>25. CASE Release
  BY <1>25 DEF Release
<1>26. CASE DoSwitchToExecuting
  BY <1>26 DEF DoSwitchToExecuting, AskComponent, AskThen, Ask
<1>27. CASE ExecPortDisabled
  BY <1>27 DEF ExecPortDisabled, AskComponent, AskThen, Ask, Over, Succeeded
<1>28. CASE ExecIdleReached
  <2>1. pc["cmd"] = "execIdle" /\ UNCHANGED <<clearing, state>> /\ Outside
    BY <1>28 DEF ExecIdleReached, Over
  <2>2. alive /\ mHandleComp /\ ~Invalid
    BY <2>1
  <2>3. CASE Believe(OMX_StateIdle) /\ AskComponent("cmd", "execExecuting") /\ UNCHANGED alive
    BY <2>1, <2>2, <2>3 DEF AskComponent, AskThen, Ask, Believe
  <2>4. CASE ExecFails
    BY <2>1, <2>2, <2>4 DEF ExecFails, Cleanup
  <2> QED
    BY <1>28, <2>3, <2>4 DEF ExecIdleReached
<1>29. CASE ExecutingReached
  BY <1>29 DEF ExecutingReached, Cleanup, Over, Succeeded, ExecFails, Believe
<1>30. CASE CommandComplete
  BY <1>30 DEF CommandComplete
<1>31. CASE FatalError
  BY <1>31 DEF FatalError
<1>32. CASE ClearEvents
  BY <1>32 DEF ClearEvents
<1>33. ASSUME NEW t \in Threads, Wait(t) PROVE Goal
  BY <1>33 DEF Wait, Answered, Expired, Expires
<1>34. CASE UNCHANGED vars
  BY <1>34 DEF vars
<1> QED
  BY <1>1, <1>2, <1>3, <1>4, <1>5, <1>6, <1>7, <1>8, <1>9, <1>10, <1>11, <1>12, <1>13, <1>14, <1>15,
     <1>16, <1>17, <1>18, <1>19, <1>20, <1>21, <1>22, <1>23, <1>24, <1>25, <1>26, <1>27, <1>28, <1>29,
     <1>30, <1>31, <1>32, <1>33, <1>34
  DEF Next, Calls, InCall, Switch, Component

LEMMA Before ==
  ASSUME TypeOK, SwitchIsLocked, Unstarted, TimedOut, Handled, ~Initialize, [Next]_vars, alive', Unexpired', ~Leaving'
  PROVE  alive /\ Unexpired /\ ~Leaving
<1>0. PlacesOK /\ caller \in {"query", "stop", "release"}
  BY TypeParts DEF TypeOK
<1> DEFINE Goal == alive /\ Unexpired /\ ~Leaving
<1> USE <1>0, ThreadNames, NotWaits, WaitPlaces
<1> USE DEF PlacesOK, TimedOut, Handled, Unexpired, Leaving, Threads, Goto
<1> USE DEF events, adapter, places, calls, switching, machine, component, fixed
<1>1. CASE InitializeDone
  BY <1>1 DEF InitializeDone, GiveUp, Cleanup, Over, Succeeded
<1>2. CASE SetErrorHandler
  BY <1>2 DEF SetErrorHandler
<1>3. CASE ResolutionKnown
  BY <1>3 DEF ResolutionKnown
<1>4. CASE SwitchToExecuting
  BY <1>4 DEF SwitchToExecuting
<1>5. CASE UseBuffersPreview
  BY <1>5 DEF UseBuffersPreview, AskComponent, AskThen, Ask
<1>6. CASE BelieveIdle
  BY <1>6 DEF BelieveIdle
<1>7. CASE BuffersUsed
  BY <1>7 DEF BuffersUsed, Result, Cleanup, Over, Succeeded
<1>8. CASE StartPreview
  BY <1>8 DEF StartPreview, AskComponent, AskThen, Ask
<1>9. CASE PreviewStarted
  BY <1>9 DEF PreviewStarted, Result, GiveUp, Cleanup, Over, Succeeded
<1>10. CASE QueueBuffers
  BY <1>10 DEF QueueBuffers, Fill, Cleanup
<1>11. CASE CaptureConfigured
  BY <1>11 DEF CaptureConfigured, Result, GiveUp, Cleanup, Over, Succeeded
<1>12. CASE ImageFlushed
  BY <1>12 DEF ImageFlushed, AskComponent, AskThen, Ask, GiveUp, Cleanup, Over, Succeeded
<1>13. CASE ImagePortDisabled
  BY <1>13 DEF ImagePortDisabled, AskComponent, AskThen, Ask, GiveUp, Cleanup, Over, Succeeded
<1>14. CASE PreviewFlushed
  BY <1>14 DEF PreviewFlushed, AskComponent, AskThen, Ask, GiveUp, Cleanup, Over, Succeeded
<1>15. CASE PreviewStopped
  BY <1>15 DEF PreviewStopped, GiveUp, Cleanup, Over, Succeeded
<1>16. CASE SwitchToLoaded
  BY <1>16 DEF SwitchToLoaded, AskComponent, AskThen, Ask, Loaded, Failed
<1>17. CASE IdleToLoad
  BY <1>17 DEF IdleToLoad, AskComponent, AskThen, Ask, GiveUp, Cleanup, Over, Succeeded, Loaded, Failed
<1>18. CASE LoadedReached
  <2>1. /\ pc["app"] = "loaded" /\ answer["app"] = "done" /\ UNCHANGED <<alive, caller>>
        /\ \/ AskThen("app", "enable", "enable") /\ caller = "query"
           \/ Goto("app", Loaded[caller]) /\ UNCHANGED answer
    BY <1>18 DEF LoadedReached, Result, AskComponent, GiveUp, Cleanup, Over, Succeeded
  <2>2. pc'["cmd"] = pc["cmd"] /\ answer'["cmd"] = answer["cmd"]
    BY <2>1 DEF AskThen, Ask
  <2>3. ~Leaving
    BY <2>1 DEF Loaded
  <2> QED
    BY <2>1, <2>2, <2>3
<1>19. CASE PortEnabled
  BY <1>19 DEF PortEnabled, GiveUp, Cleanup, Over, Succeeded
<1>20. CASE Initialize
  BY <1>20 DEF Initialize
<1>21. CASE QueryResolution
  BY <1>21 DEF QueryResolution
<1>22. CASE StopWithoutWindow
  BY <1>22 DEF StopWithoutWindow
<1>23. CASE UseBuffersCapture
  BY <1>23 DEF UseBuffersCapture, AskComponent, AskThen, Ask
<1>24. CASE StopPreview
  BY <1>24 DEF StopPreview, AskComponent, AskThen, Ask
<1>25. CASE Release
  BY <1>25 DEF Release
<1>26. CASE DoSwitchToExecuting
  BY <1>26 DEF DoSwitchToExecuting, AskComponent, AskThen, Ask
<1>27. CASE ExecPortDisabled
  BY <1>27 DEF ExecPortDisabled, AskComponent, AskThen, Ask, Over, Succeeded
<1>28. CASE ExecIdleReached
  BY <1>28 DEF ExecIdleReached, AskComponent, AskThen, Ask, Cleanup, Over, Succeeded, ExecFails
<1>29. CASE ExecutingReached
  BY <1>29 DEF ExecutingReached, Cleanup, Over, Succeeded, ExecFails
<1>30. CASE CommandComplete
  BY <1>30 DEF CommandComplete
<1>31. CASE FatalError
  BY <1>31 DEF FatalError
<1>32. CASE ClearEvents
  BY <1>32 DEF ClearEvents
<1>33. ASSUME NEW t \in Threads, Wait(t) PROVE Goal
  BY <1>33 DEF Wait, Answered, Expired, Expires
<1>34. CASE UNCHANGED vars
  BY <1>34 DEF vars
<1> QED
  BY <1>1, <1>2, <1>3, <1>4, <1>5, <1>6, <1>7, <1>8, <1>9, <1>10, <1>11, <1>12, <1>13, <1>14, <1>15,
     <1>16, <1>17, <1>18, <1>19, <1>20, <1>21, <1>22, <1>23, <1>24, <1>25, <1>26, <1>27, <1>28, <1>29,
     <1>30, <1>31, <1>32, <1>33, <1>34
  DEF Next, Calls, InCall, Switch, Component

(* Before the component fails or a wait times out.                            *)
Live == alive /\ mHandleComp /\ ~Invalid /\ Tokens /\ Unexpired /\ ~Leaving /\ Sending /\ Frame

LEMMA EffectOf ==
  /\ Effect("init") => PreviewOn
  /\ Effect("useIdle") => state = OMX_StateIdle
  /\ Effect("useEnable") => PreviewOn
  /\ Effect("start") => state = OMX_StateExecuting
  /\ Effect("stopIdle") => state = OMX_StateIdle
  /\ Effect("loadIdle") => state = OMX_StateIdle
  /\ Effect("loaded") => state = OMX_StateLoaded
  /\ Effect("enable") => PreviewOn
  /\ Effect("execDisable") => ~PreviewOn
  /\ Effect("execIdle") => state = OMX_StateIdle
  /\ Effect("execExecuting") => state = OMX_StateExecuting
BY DEF Effect, PreviewOn, Requests, Asks, OMX_CommandStateSet, OMX_CommandPortEnable, OMX_CommandPortDisable

(* Nobody is at a wait, or the one who is has its answer.                     *)
LEMMA NothingSent ==
  ASSUME Live, \A w \in Waits : ~Asking(w)
  PROVE  mEventSignalQ = <<>> /\ sent = <<>> /\ \A w \in Waits : At(w) => Effect(w)
BY NobodyAsks DEF Live, Sending

LEMMA Quiet ==
  ASSUME Live, NEW t \in Threads, OtherRests(t), pc[t] \notin Waits \union {"useSent"}
  PROVE  mEventSignalQ = <<>> /\ sent = <<>>
<1>1. \A w \in Waits : ~Asking(w)
  BY ThreadNames, NotWaits DEF Asking, OtherRests, Threads
<1> QED
  BY <1>1, NothingSent

LEMMA Done ==
  ASSUME Live, NEW t \in Threads, OtherRests(t), pc[t] \in Waits, answer[t] # "none"
  PROVE  mEventSignalQ = <<>> /\ sent = <<>> /\ Effect(pc[t])
<1>1. \A w \in Waits : ~Asking(w)
  BY ThreadNames, NotWaits DEF Asking, OtherRests, Threads
<1>2. At(pc[t])
  BY DEF At
<1> QED
  BY <1>1, <1>2, NothingSent

LEMMA MovedSending ==
  ASSUME PlacesOK, Sending, NEW t \in Threads, NEW l, l \notin Waits \union {"useSent"}, Goto(t, l),
         UNCHANGED <<mEventSignalQ, sent, state, enabled>>
  PROVE  Sending'
<1>1. \A w \in Waits : At(w)' => At(w)
  BY ThreadNames DEF At, Goto, PlacesOK, Threads
<1> QED
  BY <1>1 DEF Sending, Effect, Pending

LEMMA StillSending ==
  ASSUME Sending, UNCHANGED <<pc, mEventSignalQ, sent, state, enabled>>
  PROVE  Sending'
<1>1. \A w : At(w)' <=> At(w)
  BY DEF At
<1> QED
  BY <1>1 DEF Sending, Effect, Pending

LEMMA AskedSending ==
  ASSUME PlacesOK, NEW t \in Threads, NEW w \in Waits, NEW l, AskThen(t, w, l), mHandleComp, sent = <<>>,
         mEventSignalQ = <<>>, OtherRests(t), l = w \/ (t = "app" /\ l = "useSent" /\ w = "useIdle")
  PROVE  Sending'
<1>1. mEventSignalQ' = Append(mEventSignalQ, Registration(w)) /\ sent' = sent \o <<>> \o <<Order(w)>> /\ Goto(t, l)
  BY DEF AskThen, Ask, Registration, Order
<1>2. mEventSignalQ' # <<>> /\ sent' = <<Order(w)>>
  BY <1>1
<1>3. \A v \in Waits : At(v)' => v = w
  BY <1>1, ThreadNames, NotWaits DEF At, Goto, PlacesOK, Threads, OtherRests
<1> QED
  BY <1>2, <1>3 DEF Sending, Pending

(* What the component does with the command of a wait.                       *)
LEMMA Executed ==
  ASSUME NEW w \in Waits,
         state' = IF Order(w).command = OMX_CommandStateSet THEN Order(w).data ELSE state,
         enabled' = IF Order(w).command = OMX_CommandPortEnable THEN enabled \union {Order(w).data}
                    ELSE IF Order(w).command = OMX_CommandPortDisable THEN enabled \ {Order(w).data} ELSE enabled
  PROVE  /\ Effect(w)'
         /\ w \in {"init", "enable", "useEnable", "capture"} => state' = state
         /\ w # "execDisable" /\ PreviewOn => PreviewOn'
         /\ w \in {"execIdle", "execExecuting"} /\ PreviewOn' => PreviewOn
<1>1. Order(w).command = Requests[w].command /\ Order(w).data = Requests[w].data
  BY DEF Order
<1>2. OMX_CommandStateSet # OMX_CommandPortEnable /\ OMX_CommandStateSet # OMX_CommandPortDisable
      /\ OMX_CommandPortEnable # OMX_CommandPortDisable
  BY DEF OMX_CommandStateSet, OMX_CommandPortEnable, OMX_CommandPortDisable
<1>3. Effect(w)'
  BY <1>1, <1>2 DEF Effect
<1>4. w \in {"init", "enable", "useEnable", "capture"} => Requests[w].command = OMX_CommandPortEnable
  BY DEF Requests, Asks
<1>5. w \in {"execIdle", "execExecuting"} => Requests[w].command = OMX_CommandStateSet
  BY DEF Requests, Asks
<1>6. w # "execDisable" /\ Requests[w].command = OMX_CommandPortDisable => Requests[w].data # mPrevPortIndex
  BY WaitPlaces DEF Requests, Asks, mPrevPortIndex, mImagePortIndex, OMX_CommandStateSet, OMX_CommandPortEnable,
     OMX_CommandPortDisable, OMX_CommandFlush
<1> QED
  BY <1>1, <1>2, <1>3, <1>4, <1>5, <1>6 DEF PreviewOn

LEMMA OwnMatches ==
  ASSUME NEW w \in Waits
  PROVE  Matches(Registration(w), OMX_EventCmdComplete, Order(w).command, Order(w).data)
BY DEF Matches, Registration, Message, Order

LEMMA OffUnmatched ==
  ASSUME NEW p PROVE ~Matches(Registration("init"), OMX_EventCmdComplete, Off(p).command, Off(p).data)
BY DEF Matches, Registration, Message, Off, Requests, Asks, OMX_CommandPortEnable, OMX_CommandPortDisable

(* The component completes the first command it has.                         *)
LEMMA CompleteStep ==
  ASSUME TypeOK, SwitchIsLocked, Live, CommandComplete
  PROVE  Sending' /\ Frame'
<1>0. PlacesOK
  BY TypeParts
<1>1. sent # <<>> /\ sent' = Tail(sent) /\ SignalEvent(Head(sent)) /\ UNCHANGED <<pc, answer, adapter, calls, switching, alive>>
  BY DEF CommandComplete, places
<1>2. /\ state' = IF Head(sent).command = OMX_CommandStateSet THEN Head(sent).data ELSE state
      /\ enabled' = IF Head(sent).command = OMX_CommandPortEnable THEN enabled \union {Head(sent).data}
                    ELSE IF Head(sent).command = OMX_CommandPortDisable THEN enabled \ {Head(sent).data} ELSE enabled
  BY DEF CommandComplete
<1>3. mEventSignalQ # <<>>
  BY <1>1 DEF Live, Sending
<1>4. PICK w \in Waits : Asking(w) /\ mEventSignalQ = <<Registration(w)>>
  BY <1>3 DEF Live, Tokens, Posted, Registered
<1>5. At(w) /\ Pending(w)
  BY <1>3, <1>4, ThreadNames DEF Asking, At, Live, Sending
<1>6. \A v \in Waits : At(v) => v = w
  BY <1>5, NotWaits DEF At, SwitchIsLocked, NoSwitch, Outside, Threads
<1>7. \A v : At(v)' <=> At(v)
  BY <1>1 DEF At
<1>8. CASE sent = <<Order(w)>>
  <2>1. Head(sent) = Order(w) /\ sent' = <<>>
    BY <1>1, <1>8
  <2>2. mEventSignalQ' = <<>>
    BY <1>1, <1>4, <2>1, OwnMatches, SingleMatches DEF SignalEvent
  <2>3. /\ Effect(w)'
        /\ w \in {"init", "enable", "useEnable", "capture"} => state' = state
        /\ w # "execDisable" /\ PreviewOn => PreviewOn'
        /\ w \in {"execIdle", "execExecuting"} /\ PreviewOn' => PreviewOn
    BY <1>2, <2>1, Executed
  <2>4. Sending'
    BY <1>6, <1>7, <2>1, <2>2, <2>3 DEF Sending
  <2>5. pc["cmd"] # "rest" => Outside
    BY DEF SwitchIsLocked, NoSwitch
  <2>6. pc["cmd"] = "rest" => pc["app"] = w \/ (pc["app"] = "useSent" /\ w = "useIdle")
    BY <1>5, NotWaits DEF At, Threads
  <2>7. pc["cmd"] # "rest" => pc["cmd"] = w
    BY <1>5, <2>5, NotWaits DEF At, Threads
  <2>8. Queries' /\ Loads'
    BY <1>1, <2>3, <2>5, <2>6, NotWaits, WaitPlaces
    DEF Live, Frame, Queries, Loads, NoSwitch, Outside, calls, switching
  <2>9. Prepares' /\ Previews'
    BY <1>1, <2>3, <2>5, <2>6, NotWaits, WaitPlaces
    DEF Live, Frame, Prepares, Previews, Outside, Agree, adapter
  <2>10. Switches'
    BY <1>1, <2>3, <2>7, WaitPlaces, NotWaits DEF Live, Frame, Switches
  <2> QED
    BY <2>4, <2>8, <2>9, <2>10 DEF Frame
<1>9. CASE sent # <<Order(w)>>
  <2>1. /\ w = "init"
        /\ sent \in {<<Off(mPrevPortIndex), Off(mImagePortIndex), Order(w)>>, <<Off(mImagePortIndex), Order(w)>>}
    BY <1>5, <1>9 DEF Pending
  <2>2. PICK p \in Ports : Head(sent) = Off(p)
    BY <2>1 DEF Ports
  <2>3. sent' \in {<<Off(mImagePortIndex), Order(w)>>, <<Order(w)>>}
    <3> DEFINE all  == <<Off(mPrevPortIndex), Off(mImagePortIndex), Order(w)>>
               rest == <<Off(mImagePortIndex), Order(w)>>
    <3>1. Tail(all) = rest /\ Tail(rest) = <<Order(w)>>
      OBVIOUS
    <3>2. sent' = Tail(sent) /\ (sent = all \/ sent = rest)
      BY <1>1, <2>1
    <3> QED
      BY <3>1, <3>2
  <2>4. mEventSignalQ' = mEventSignalQ
    BY <1>1, <1>4, <2>1, <2>2, OffUnmatched, SingleMatches DEF SignalEvent
  <2>5. Pending(w)'
    BY <2>1, <2>3 DEF Pending
  <2>6. Sending'
    BY <1>3, <1>6, <1>7, <2>4, <2>5 DEF Sending
  <2>7. state' = state
    BY <1>2, <2>2 DEF Off, OMX_CommandPortDisable, OMX_CommandStateSet
  <2>8. pc["cmd"] = "rest" => pc["app"] = "init"
    BY <1>5, <2>1, NotWaits DEF At, Threads
  <2>9. pc["cmd"] # "rest" => Outside /\ pc["cmd"] = "init"
    BY <1>5, <2>1, NotWaits DEF At, Threads, SwitchIsLocked, NoSwitch, Outside
  <2>10. Frame'
    BY <1>1, <2>7, <2>8, <2>9
    DEF Live, Frame, Queries, Loads, Prepares, Previews, Switches, NoSwitch, Outside, Agree, adapter, calls, switching
  <2> QED
    BY <2>6, <2>10
<1> QED
  BY <1>8, <1>9

LEMMA SendingStep ==
  ASSUME TypeOK, SwitchIsLocked, Live, ~scenario.fatal, ~clearing, ~Initialize, [Next]_vars, alive', Unexpired'
  PROVE  Sending'
<1>0. PlacesOK /\ caller \in {"query", "stop", "release"} /\ Sending /\ mHandleComp
  BY TypeParts DEF TypeOK, Live
<1> USE <1>0, ThreadNames, NotWaits, WaitPlaces
<1> USE DEF SwitchIsLocked, NoSwitch, OtherRests, events, machine, component, places
<1>1. CASE InitializeDone
  BY <1>1, MovedSending DEF InitializeDone, Outside, GiveUp, Cleanup, Over
<1>2. CASE SetErrorHandler
  BY <1>2, StillSending DEF SetErrorHandler
<1>3. CASE ResolutionKnown
  BY <1>3, MovedSending DEF ResolutionKnown, Outside
<1>4. CASE SwitchToExecuting
  BY <1>4, MovedSending DEF SwitchToExecuting, Outside
<1>5. CASE UseBuffersPreview
  BY <1>5, MovedSending, AskedSending, Quiet DEF UseBuffersPreview, Outside, AskComponent, Lock
<1>6. CASE BelieveIdle
  <2>1. pc["app"] = "useSent" /\ pc' = [pc EXCEPT !["app"] = "useIdle"] /\ UNCHANGED <<mEventSignalQ, sent, state, enabled>>
    BY <1>6 DEF BelieveIdle, Goto
  <2>2. \A w \in Waits : At(w)' => At(w)
    BY <2>1 DEF At, PlacesOK, Threads
  <2> QED
    BY <2>1, <2>2 DEF Sending, Effect, Pending
<1>7. CASE BuffersUsed
  BY <1>7, MovedSending DEF BuffersUsed, Result, Outside, Cleanup, Over
<1>8. CASE StartPreview
  BY <1>8, MovedSending, AskedSending, Quiet DEF StartPreview, Outside, AskComponent
<1>9. CASE PreviewStarted
  BY <1>9, MovedSending DEF PreviewStarted, Result, Outside, GiveUp, Cleanup, Over
<1>10. CASE QueueBuffers
  BY <1>10, MovedSending DEF QueueBuffers, Fill, Outside, Cleanup
<1>11. CASE CaptureConfigured
  BY <1>11, MovedSending DEF CaptureConfigured, Result, Outside, GiveUp, Cleanup, Over
<1>12. CASE ImageFlushed
  BY <1>12, MovedSending, AskedSending, Done DEF ImageFlushed, Outside, AskComponent, GiveUp, Cleanup, Over
<1>13. CASE ImagePortDisabled
  BY <1>13, MovedSending, AskedSending, Done DEF ImagePortDisabled, Outside, AskComponent, GiveUp, Cleanup, Over
<1>14. CASE PreviewFlushed
  BY <1>14, MovedSending, AskedSending, Done DEF PreviewFlushed, Outside, AskComponent, GiveUp, Cleanup, Over
<1>15. CASE PreviewStopped
  BY <1>15, MovedSending DEF PreviewStopped, Outside, GiveUp, Cleanup, Over
<1>16. CASE SwitchToLoaded
  BY <1>16, MovedSending, AskedSending, Quiet, CallerNames DEF SwitchToLoaded, Outside, AskComponent, Lock
<1>17. CASE IdleToLoad
  BY <1>17, MovedSending, AskedSending, Done, CallerNames DEF IdleToLoad, Outside, AskComponent, GiveUp,
     Cleanup, Over
<1>18. CASE LoadedReached
  BY <1>18, MovedSending, AskedSending, Done, CallerNames DEF LoadedReached, Result, Outside, AskComponent, GiveUp,
     Cleanup, Over
<1>19. CASE PortEnabled
  BY <1>19, MovedSending DEF PortEnabled, Outside, GiveUp, Cleanup, Over
<1>20. CASE Initialize
  BY <1>20 DEF Initialize
<1>21. CASE QueryResolution
  BY <1>21, MovedSending DEF QueryResolution, Outside
<1>22. CASE StopWithoutWindow
  BY <1>22, StillSending DEF StopWithoutWindow
<1>23. CASE UseBuffersCapture
  BY <1>23, MovedSending, AskedSending, Quiet DEF UseBuffersCapture, Outside, AskComponent
<1>24. CASE StopPreview
  BY <1>24, MovedSending, AskedSending, Quiet DEF StopPreview, Outside, AskComponent
<1>25. CASE Release
  BY <1>25, MovedSending DEF Release, Outside
<1>26. CASE DoSwitchToExecuting
  <2>1. pc["cmd"] = "rest" /\ switchRequested /\ Outside /\ UNCHANGED <<state, enabled>>
    BY <1>26 DEF DoSwitchToExecuting
  <2>2. CASE UNCHANGED <<mEventSignalQ, sent, pc>>
    BY <2>1, <2>2, StillSending
  <2>3. CASE AskThen("cmd", "execDisable", "execDisable")
    <3>1. mEventSignalQ = <<>> /\ sent = <<>>
      BY <2>1, Quiet
    <3> QED
      BY <2>1, <2>3, <3>1, AskedSending
  <2> QED
    BY <1>26, <2>2, <2>3 DEF DoSwitchToExecuting, AskComponent
<1>27. CASE ExecPortDisabled
  BY <1>27, MovedSending, AskedSending, Done DEF ExecPortDisabled, Outside, AskComponent, Over
<1>28. CASE ExecIdleReached
  BY <1>28, MovedSending, AskedSending, Done DEF ExecIdleReached, Outside, AskComponent, Cleanup, Over,
     ExecFails
<1>29. CASE ExecutingReached
  BY <1>29, MovedSending DEF ExecutingReached, Outside, Cleanup, Over, ExecFails
<1>30. CASE CommandComplete
  <2> QED
    BY <1>30, CompleteStep
<1>31. CASE FatalError
  BY <1>31 DEF FatalError
<1>32. CASE ClearEvents
  BY <1>32 DEF ClearEvents
<1>33. ASSUME NEW t \in Threads, Wait(t) PROVE Sending'
  <2>1. CASE Answered(t)
    BY <2>1, StillSending DEF Answered
  <2>2. CASE Expired(t)
    <3>1. answer'[t] = "expired"
      BY <2>2 DEF Expired, Expires, PlacesOK
    <3> QED
      BY <3>1 DEF Unexpired
  <2> QED
    BY <1>33, <2>1, <2>2 DEF Wait
<1>34. CASE UNCHANGED vars
  BY <1>34, StillSending DEF vars
<1> QED
  BY <1>1, <1>2, <1>3, <1>4, <1>5, <1>6, <1>7, <1>8, <1>9, <1>10, <1>11, <1>12, <1>13, <1>14, <1>15,
     <1>16, <1>17, <1>18, <1>19, <1>20, <1>21, <1>22, <1>23, <1>24, <1>25, <1>26, <1>27, <1>28, <1>29,
     <1>30, <1>31, <1>32, <1>33, <1>34
  DEF Next, Calls, InCall, Switch, Component

LEMMA AnswersApp ==
  ASSUME Live, pc["cmd"] = "rest", answer["app"] # "none"
  PROVE  /\ pc["app"] \in {"init", "useEnable", "enable"} => PreviewOn
         /\ pc["app"] \in {"useIdle", "stopIdle", "loadIdle"} => state = OMX_StateIdle
         /\ pc["app"] = "start" => state = OMX_StateExecuting
         /\ pc["app"] = "loaded" => state = OMX_StateLoaded
<1>1. ASSUME NEW w \in Waits, pc["app"] = w PROVE Effect(w)
  <2>1. Effect(pc["app"])
    BY <1>1, Done, ThreadNames DEF OtherRests
  <2> QED
    BY <1>1, <2>1
<1>2. \A w \in {"init", "useEnable", "enable", "useIdle", "stopIdle", "loadIdle", "start", "loaded"} :
        pc["app"] = w => Effect(w)
  BY <1>1, WaitPlaces
<1> QED
  BY <1>2, EffectOf

LEMMA AnswersCmd ==
  ASSUME Live, Outside, answer["cmd"] # "none"
  PROVE  /\ pc["cmd"] = "execDisable" => ~PreviewOn
         /\ pc["cmd"] = "execIdle" => state = OMX_StateIdle
         /\ pc["cmd"] = "execExecuting" => state = OMX_StateExecuting
<1>1. ASSUME NEW w \in Waits, pc["cmd"] = w PROVE Effect(w)
  <2>1. Effect(pc["cmd"])
    BY <1>1, Done, ThreadNames DEF OtherRests
  <2> QED
    BY <1>1, <2>1
<1>2. \A w \in {"execDisable", "execIdle", "execExecuting"} : pc["cmd"] = w => Effect(w)
  BY <1>1, WaitPlaces
<1> QED
  BY <1>2, EffectOf

LEMMA FrameStep ==
  ASSUME TypeOK, SwitchIsLocked, Live, ~scenario.fatal, ~clearing, ~Initialize, [Next]_vars, alive', Unexpired',
         ~Leaving'
  PROVE  Frame'
<1>0. PlacesOK /\ caller \in {"query", "stop", "release"} /\ Frame /\ mHandleComp /\ ~Invalid /\ mComponentState \in States
  BY TypeParts DEF TypeOK, Live
<1> USE <1>0, ThreadNames, NotWaits, WaitPlaces, StateNumbers
<1> USE DEF PlacesOK, SwitchIsLocked, NoSwitch, OtherRests, Invalid, Leaving, Goto
<1> USE DEF Frame, Queries, Loads, Prepares, Previews, Switches, Agree, OnInLoaded, PreviewOn
<1> USE DEF events, adapter, places, calls, switching, machine, component, fixed
<1>1. CASE InitializeDone
  <2>1. pc["app"] = "init" /\ answer["app"] # "none" /\ pc["cmd"] = "rest"
    BY <1>1 DEF InitializeDone, Over, Outside
  <2>2. PreviewOn
    BY <2>1, AnswersApp
  <2>3. Goto("app", "idle") /\ UNCHANGED <<mComponentState, calls, switching, machine>>
    BY <1>1 DEF InitializeDone, GiveUp, Cleanup
  <2> QED
    BY <2>1, <2>2, <2>3
<1>2. CASE SetErrorHandler
  BY <1>2 DEF SetErrorHandler, Outside
<1>3. CASE ResolutionKnown
  BY <1>3 DEF ResolutionKnown, Outside
<1>4. CASE SwitchToExecuting
  BY <1>4 DEF SwitchToExecuting, Outside, Lock
<1>5. CASE UseBuffersPreview
  BY <1>5 DEF UseBuffersPreview, Outside, AskComponent, AskThen, Ask, Lock
<1>6. CASE BelieveIdle
  BY <1>6 DEF BelieveIdle, Outside, Believe
<1>7. CASE BuffersUsed
  <2>1. pc["app"] \in {"useIdle", "useEnable"} /\ answer["app"] # "none" /\ pc["cmd"] = "rest"
    BY <1>7 DEF BuffersUsed, Result, Over, Outside
  <2>2. pc["app"] = "useIdle" => state = OMX_StateIdle
    BY <2>1, AnswersApp
  <2>3. pc["app"] = "useEnable" => PreviewOn
    <3> QED  BY <2>1, AnswersApp
  <2>4. Goto("app", "prepared") /\ UNCHANGED <<mComponentState, calls, switchRequested, machine>>
    BY <1>7 DEF BuffersUsed, Result, Cleanup
  <2> QED
    BY <2>1, <2>2, <2>3, <2>4
<1>8. CASE StartPreview
  BY <1>8 DEF StartPreview, Outside, AskComponent, AskThen, Ask
<1>9. CASE PreviewStarted
  <2>1. pc["app"] = "start" /\ answer["app"] # "none" /\ pc["cmd"] = "rest"
    BY <1>9 DEF PreviewStarted, Result, Over, Outside
  <2>2. state = OMX_StateExecuting
    BY <2>1, AnswersApp
  <2>3. Goto("app", "fill") /\ mComponentState' = OMX_StateExecuting /\ UNCHANGED <<calls, switchRequested, machine>>
    BY <1>9 DEF PreviewStarted, Result, GiveUp, Cleanup, Believe
  <2> QED
    BY <2>1, <2>2, <2>3
<1>10. CASE QueueBuffers
  BY <1>10 DEF QueueBuffers, Fill, Outside, Cleanup
<1>11. CASE CaptureConfigured
  BY <1>11, AnswersApp DEF CaptureConfigured, Result, Outside, Over, Succeeded, Unexpired, GiveUp, Cleanup
<1>12. CASE ImageFlushed
  BY <1>12, AnswersApp DEF ImageFlushed, Outside, Over, Succeeded, Unexpired, AskComponent, AskThen, Ask,
     GiveUp, Cleanup
<1>13. CASE ImagePortDisabled
  BY <1>13, AnswersApp DEF ImagePortDisabled, Outside, Over, Succeeded, Unexpired, AskComponent, AskThen,
     Ask, GiveUp, Cleanup
<1>14. CASE PreviewFlushed
  BY <1>14, AnswersApp DEF PreviewFlushed, Outside, Over, Succeeded, Unexpired, AskComponent, AskThen, Ask,
     GiveUp, Cleanup
<1>15. CASE PreviewStopped
  <2>1. pc["app"] = "stopIdle" /\ answer["app"] # "none" /\ pc["cmd"] = "rest"
    BY <1>15 DEF PreviewStopped, Over, Outside
  <2>2. state = OMX_StateIdle
    BY <2>1, AnswersApp
  <2>3. Goto("app", "load") /\ mComponentState' = OMX_StateIdle /\ caller' = "stop" /\ UNCHANGED <<switchRequested, machine>>
    BY <1>15 DEF PreviewStopped, GiveUp, Cleanup, Believe
  <2> QED
    BY <2>1, <2>2, <2>3
<1>16. CASE SwitchToLoaded
  BY <1>16 DEF SwitchToLoaded, Outside, AskComponent, AskThen, Ask, Lock, Loaded, Failed
<1>17. CASE IdleToLoad
  BY <1>17, AnswersApp DEF IdleToLoad, Outside, Over, Succeeded, Unexpired, AskComponent, AskThen, Ask,
     GiveUp, Cleanup, Loaded, Failed, Believe
<1>18. CASE LoadedReached
  <2>1. pc["app"] = "loaded" /\ answer["app"] # "none" /\ pc["cmd"] = "rest"
    BY <1>18 DEF LoadedReached, Result, Over, Outside
  <2>2. state = OMX_StateLoaded
    BY <2>1, AnswersApp
  <2>3. /\ mComponentState' = OMX_StateLoaded /\ UNCHANGED <<calls, switchRequested, machine>>
        /\ Goto("app", "enable") \/ (Goto("app", Loaded[caller]) /\ caller # "query")
    BY <1>18 DEF LoadedReached, Result, GiveUp, Cleanup, Believe, AskComponent, AskThen, Ask
  <2>4. CASE Goto("app", "enable")
    BY <2>1, <2>2, <2>3, <2>4
  <2>5. CASE Goto("app", Loaded[caller]) /\ caller # "query"
    <3>1. Loaded["release"] = "released" /\ Loaded["stop"] = "idle"
      BY DEF Loaded
    <3>2. pc'["app"] = Loaded[caller]
      BY <2>5
    <3>3. caller = "stop"
      BY <2>5, <3>1, <3>2
    <3> QED
      BY <2>1, <2>2, <2>3, <2>5, <3>1, <3>2, <3>3
  <2> QED
    BY <2>3, <2>4, <2>5
<1>19. CASE PortEnabled
  <2>1. pc["app"] = "enable" /\ answer["app"] # "none" /\ pc["cmd"] = "rest"
    BY <1>19 DEF PortEnabled, Over, Outside
  <2>2. PreviewOn
    BY <2>1, AnswersApp
  <2>3. Goto("app", "query") /\ UNCHANGED <<mComponentState, calls, switchRequested, machine>>
    BY <1>19 DEF PortEnabled, GiveUp, Cleanup
  <2> QED
    BY <2>1, <2>2, <2>3
<1>20. CASE Initialize
  BY <1>20 DEF Initialize
<1>21. CASE QueryResolution
  BY <1>21 DEF QueryResolution, Outside
<1>22. CASE StopWithoutWindow
  BY <1>22 DEF StopWithoutWindow, Outside
<1>23. CASE UseBuffersCapture
  BY <1>23 DEF UseBuffersCapture, Outside, AskComponent, AskThen, Ask
<1>24. CASE StopPreview
  BY <1>24 DEF StopPreview, Outside, AskComponent, AskThen, Ask
<1>25. CASE Release
  BY <1>25 DEF Release, Outside
<1>26. CASE DoSwitchToExecuting
  BY <1>26 DEF DoSwitchToExecuting, Outside, AskComponent, AskThen, Ask
<1>27. CASE ExecPortDisabled
  <2>1. pc["cmd"] = "execDisable" /\ answer["cmd"] # "none" /\ Outside
    BY <1>27 DEF ExecPortDisabled, Over, Outside
  <2>2. ~PreviewOn
    BY <2>1, AnswersCmd
  <2>3. Goto("cmd", "execIdle") /\ UNCHANGED <<mComponentState, calls, switching, machine>>
    BY <1>27 DEF ExecPortDisabled, GiveUp, Cleanup, AskComponent, AskThen, Ask
  <2> QED
    BY <2>1, <2>2, <2>3 DEF Outside
<1>28. CASE ExecIdleReached
  BY <1>28, AnswersCmd DEF ExecIdleReached, Outside, Over, Succeeded, Unexpired, AskComponent, AskThen, Ask,
     Cleanup, ExecFails, Believe
<1>29. CASE ExecutingReached
  BY <1>29, AnswersCmd DEF ExecutingReached, Outside, Over, Succeeded, Unexpired, Cleanup, ExecFails, Believe
<1>30. CASE CommandComplete
  <2> QED
    BY <1>30, CompleteStep
<1>31. CASE FatalError
  BY <1>31 DEF FatalError
<1>32. CASE ClearEvents
  BY <1>32 DEF ClearEvents
<1>33. ASSUME NEW t \in Threads, Wait(t) PROVE Frame'
  <2>1. UNCHANGED <<pc, adapter, calls, switching, component>>
    BY <1>33 DEF Wait, Answered, Expired, Expires
  <2> QED
    BY <2>1
<1>34. CASE UNCHANGED vars
  BY <1>34 DEF vars, Outside
<1> QED
  BY <1>1, <1>2, <1>3, <1>4, <1>5, <1>6, <1>7, <1>8, <1>9, <1>10, <1>11, <1>12, <1>13, <1>14, <1>15,
     <1>16, <1>17, <1>18, <1>19, <1>20, <1>21, <1>22, <1>23, <1>24, <1>25, <1>26, <1>27, <1>28, <1>29,
     <1>30, <1>31, <1>32, <1>33, <1>34
  DEF Next, Calls, InCall, Switch, Component

LEMMA OneScenario == ASSUME [Next]_vars PROVE scenario' = scenario
<1> USE DEF fixed
<1>1. CASE InitializeDone
  BY <1>1 DEF InitializeDone
<1>2. CASE SetErrorHandler
  BY <1>2 DEF SetErrorHandler
<1>3. CASE ResolutionKnown
  BY <1>3 DEF ResolutionKnown
<1>4. CASE SwitchToExecuting
  BY <1>4 DEF SwitchToExecuting
<1>5. CASE UseBuffersPreview
  BY <1>5 DEF UseBuffersPreview
<1>6. CASE BelieveIdle
  BY <1>6 DEF BelieveIdle
<1>7. CASE BuffersUsed
  BY <1>7 DEF BuffersUsed, Result
<1>8. CASE StartPreview
  BY <1>8 DEF StartPreview
<1>9. CASE PreviewStarted
  BY <1>9 DEF PreviewStarted, Result
<1>10. CASE QueueBuffers
  BY <1>10 DEF QueueBuffers, Fill
<1>11. CASE CaptureConfigured
  BY <1>11 DEF CaptureConfigured, Result
<1>12. CASE ImageFlushed
  BY <1>12 DEF ImageFlushed
<1>13. CASE ImagePortDisabled
  BY <1>13 DEF ImagePortDisabled
<1>14. CASE PreviewFlushed
  BY <1>14 DEF PreviewFlushed
<1>15. CASE PreviewStopped
  BY <1>15 DEF PreviewStopped
<1>16. CASE SwitchToLoaded
  BY <1>16 DEF SwitchToLoaded
<1>17. CASE IdleToLoad
  BY <1>17 DEF IdleToLoad
<1>18. CASE LoadedReached
  BY <1>18 DEF LoadedReached, Result
<1>19. CASE PortEnabled
  BY <1>19 DEF PortEnabled
<1>20. CASE Initialize
  BY <1>20 DEF Initialize
<1>21. CASE QueryResolution
  BY <1>21 DEF QueryResolution
<1>22. CASE StopWithoutWindow
  BY <1>22 DEF StopWithoutWindow
<1>23. CASE UseBuffersCapture
  BY <1>23 DEF UseBuffersCapture
<1>24. CASE StopPreview
  BY <1>24 DEF StopPreview
<1>25. CASE Release
  BY <1>25 DEF Release
<1>26. CASE DoSwitchToExecuting
  BY <1>26 DEF DoSwitchToExecuting
<1>27. CASE ExecPortDisabled
  BY <1>27 DEF ExecPortDisabled
<1>28. CASE ExecIdleReached
  BY <1>28 DEF ExecIdleReached
<1>29. CASE ExecutingReached
  BY <1>29 DEF ExecutingReached
<1>30. CASE CommandComplete
  BY <1>30 DEF CommandComplete
<1>31. CASE FatalError
  BY <1>31 DEF FatalError
<1>32. CASE ClearEvents
  BY <1>32 DEF ClearEvents
<1>33. ASSUME NEW t \in Threads, Wait(t) PROVE scenario' = scenario
  BY <1>33 DEF Wait, Answered, Expired, Expires
<1>34. CASE UNCHANGED vars
  BY <1>34 DEF vars
<1> QED
  BY <1>1, <1>2, <1>3, <1>4, <1>5, <1>6, <1>7, <1>8, <1>9, <1>10, <1>11, <1>12, <1>13, <1>14, <1>15,
     <1>16, <1>17, <1>18, <1>19, <1>20, <1>21, <1>22, <1>23, <1>24, <1>25, <1>26, <1>27, <1>28, <1>29,
     <1>30, <1>31, <1>32, <1>33, <1>34
  DEF Next, Calls, InCall, Switch, Component

LEMMA ThirdAppended == ASSUME NEW a, NEW b, NEW c PROVE <<a, b>> \o <<c>> = <<a, b, c>>
<1> DEFINE S == {a, b, c}
           u == <<a, b>>
           v == <<c>>
           x == <<a, b, c>>
<1>1. u \in Seq(S) /\ v \in Seq(S) /\ x \in Seq(S)
  OBVIOUS
<1>2. Len(u) = 2 /\ Len(v) = 1 /\ Len(x) = 3 /\ u[1] = a /\ u[2] = b /\ v[1] = c
  OBVIOUS
<1>3. x[1] = a /\ x[2] = b /\ x[3] = c
  OBVIOUS
<1> HIDE DEF S, u, v, x
<1>4. /\ u \o v \in Seq(S) /\ Len(u \o v) = Len(u) + Len(v)
      /\ \A n \in 1 .. Len(u) + Len(v) : (u \o v)[n] = IF n =< Len(u) THEN u[n] ELSE v[n - Len(u)]
  BY <1>1, ConcatProperties
<1>5. Len(u \o v) = 3 /\ \A n \in 1 .. 3 : (u \o v)[n] = IF n =< 2 THEN u[n] ELSE v[n - 2]
  BY <1>2, <1>4
<1>6. \A n \in 1 .. 3 : (u \o v)[n] = x[n]
  <2>1. (u \o v)[1] = x[1]
    BY <1>2, <1>3, <1>5
  <2>2. (u \o v)[2] = x[2]
    BY <1>2, <1>3, <1>5
  <2>3. (u \o v)[3] = x[3]
    BY <1>2, <1>3, <1>5
  <2>4. \A n \in 1 .. 3 : n = 1 \/ n = 2 \/ n = 3
    OBVIOUS
  <2> QED
    BY <2>1, <2>2, <2>3, <2>4, Zenon
<1>7. u \o v = x
  BY <1>1, <1>2, <1>4, <1>5, <1>6, SeqEqual
<1> QED
  BY <1>7 DEF u, v, x

LEMMA InitializeStep ==
  ASSUME TypeOK, SwitchIsLocked, Unstarted, Fresh, Initialize
  PROVE  Sending' /\ Frame'
<1>0. PlacesOK
  BY TypeParts
<1>1. /\ pc["app"] = "new" /\ pc' = [pc EXCEPT !["app"] = "init"] /\ UNCHANGED <<switchRequested, state>>
      /\ mComponentState' = OMX_StateLoaded /\ mEventSignalQ' = Append(mEventSignalQ, Registration("init"))
      /\ sent' = sent \o <<Off(mPrevPortIndex), Off(mImagePortIndex)>> \o <<Order("init")>>
  BY DEF Initialize, Ask, Goto, Registration, Off, Order, switching, machine
<1>2. mEventSignalQ = <<>> /\ sent = <<>> /\ state = OMX_StateLoaded /\ pc["cmd"] = "rest"
  BY <1>1, NotWaits DEF Unstarted, Fresh, SwitchIsLocked, NoSwitch, Outside
<1>3. mEventSignalQ' # <<>> /\ sent' = <<Off(mPrevPortIndex), Off(mImagePortIndex), Order("init")>>
  <2>1. <<>> \o <<Off(mPrevPortIndex), Off(mImagePortIndex)>> = <<Off(mPrevPortIndex), Off(mImagePortIndex)>>
    OBVIOUS
  <2>2. sent' = <<Off(mPrevPortIndex), Off(mImagePortIndex), Order("init")>>
    BY <1>1, <1>2, <2>1, ThirdAppended
  <2>3. mEventSignalQ' = Append(<<>>, Registration("init"))
    BY <1>1, <1>2
  <2>4. mEventSignalQ' # <<>>
    BY <2>3
  <2> QED
    BY <2>2, <2>4
<1>4. pc'["app"] = "init" /\ pc'["cmd"] = "rest"
  BY <1>0, <1>1, <1>2, ThreadNames DEF PlacesOK
<1>5. \A v \in Waits : At(v)' => v = "init"
  BY <1>4, NotWaits DEF At, Threads
<1>6. Sending'
  BY <1>3, <1>5 DEF Sending, Pending
<1>7. Frame'
  BY <1>1, <1>2, <1>4 DEF Frame, Queries, Loads, Prepares, Previews, Switches, Agree
<1> QED
  BY <1>6, <1>7

LEMMA CalmStep ==
  ASSUME TypeOK, SwitchIsLocked, TokenInv, CalmInv, [Next]_vars
  PROVE  CalmInv'
<1> SUFFICES ASSUME ~scenario.fatal
             PROVE  /\ ~clearing' /\ Fresh' /\ Gone' /\ Handled'
                    /\ alive' /\ Unexpired' /\ ~Leaving' => Sending' /\ Frame'
  BY OneScenario DEF CalmInv
<1>0. ~clearing /\ Fresh /\ Gone /\ Handled /\ Unstarted /\ TimedOut
  BY DEF CalmInv, TokenInv
<1>1. ~clearing' /\ Fresh' /\ Gone' /\ Handled'
  BY <1>0, GoneStep
<1>2. ASSUME alive', Unexpired', ~Leaving' PROVE Sending' /\ Frame'
  <2>1. CASE Initialize
    BY <1>0, <2>1, InitializeStep
  <2>2. CASE ~Initialize
    <3>1. alive /\ Unexpired /\ ~Leaving
      BY <1>0, <1>2, <2>2, Before
    <3>2. Tokens
      BY <3>1, ThreadNames DEF TokenInv, InTime, Unexpired
    <3>3. Live
      BY <1>0, <3>1, <3>2 DEF CalmInv, Live, Handled
    <3> QED
      BY <1>0, <1>2, <2>2, <3>3, SendingStep, FrameStep
  <2> QED
    BY <2>1, <2>2
<1> QED
  BY <1>1, <1>2

LEMMA CalmStart == Init => CalmInv
<1> SUFFICES ASSUME Init PROVE CalmInv
  OBVIOUS
<1>1. pc["app"] = "new" /\ ~alive /\ ~clearing /\ state = OMX_StateLoaded /\ sent = <<>>
  BY ThreadNames DEF Init
<1> QED
  BY <1>1 DEF CalmInv, Fresh, Gone, Handled

(* On hardware that does not fail, with every answer but that of the port in  *)
(* doSwitchToExecuting() possibly late: whenever neither thread is in the     *)
(* middle of a command, the adapter and the component are in the same state,  *)
(* the preview port is enabled exactly in Loaded, and nothing is left in the  *)
(* queue or on its way, after any number of previews.                         *)
THEOREM AdapterAndComponentAgree == ASSUME Timely PROVE Spec => []StateAgrees
<1>1. Init => SwitchIsLocked
  BY ThreadNames DEF Init, SwitchIsLocked, NoSwitch
<1>2. TypeOK /\ SwitchIsLocked /\ TokenInv /\ [Next]_vars => TokenInv'
  BY TokenStep
<1>3. TypeOK /\ SwitchIsLocked /\ TokenInv /\ CalmInv /\ [Next]_vars => CalmInv'
  BY CalmStep
<1>4. TypeOK /\ SwitchIsLocked /\ TokenInv /\ CalmInv => StateAgrees
  <2> SUFFICES ASSUME TypeOK, SwitchIsLocked, TokenInv, CalmInv, Settled, ~scenario.fatal
               PROVE  /\ mComponentState = state
                      /\ pc["app"] \in {"idle", "ready"} => (state = OMX_StateLoaded <=> mPrevPortIndex \in enabled)
                      /\ sent = <<>> /\ mEventSignalQ = <<>>
    BY DEF StateAgrees
  <2>1. pc["app"] \in {"idle", "ready", "prepared", "preview"} /\ pc["cmd"] = "rest" /\ ~Invalid
    BY DEF Settled
  <2>2. alive /\ mHandleComp
    BY <2>1 DEF CalmInv, Gone, Handled
  <2>3. \A t \in Threads : pc[t] \notin Waits
    BY <2>1, NotWaits DEF Threads
  <2>4. Unexpired
    BY <2>2, <2>3 DEF TokenInv, TimedOut, Unexpired
  <2>5. ~Leaving /\ InTime
    BY <2>1, <2>4, ThreadNames DEF Leaving, Unexpired, InTime
  <2>6. Live
    BY <2>1, <2>2, <2>4, <2>5 DEF Live, CalmInv, TokenInv
  <2>7. mEventSignalQ = <<>> /\ sent = <<>>
    <3>1. OtherRests("app") /\ pc["app"] \notin Waits \union {"useSent"}
      BY <2>1, NotWaits DEF OtherRests
    <3> QED
      BY <2>6, <3>1, Quiet, ThreadNames
  <2> QED
    BY <2>1, <2>6, <2>7 DEF Live, Frame, Queries, Prepares, Agree, OnInLoaded, PreviewOn
<1> QED
  BY <1>1, <1>2, <1>3, <1>4, TokenStart, CalmStart, OneStep, TypeCorrect, PTL DEF Spec
=============================================================================
