------------------------- MODULE AdapterStateProofs -------------------------
(***************************************************************************)
(* Proofs about AdapterState for any set of threads and either build: the  *)
(* lock discipline, the two state words, the recording flag, and that the  *)
(* machine implements AdapterLifecycle.                                    *)
(***************************************************************************)
EXTENDS AdapterState, TLAPS

(* What the proofs need of the transition table: an edge joins two states  *)
(* by a command, and it enters or leaves the video states exactly when the *)
(* command is CAMERA_START_VIDEO or CAMERA_STOP_VIDEO.                     *)
GoodEdge(s, c, d) ==
  /\ s \in States /\ c \in Commands /\ d \in States
  /\ c = "START_VIDEO" => s \notin VideoStates /\ d \in VideoStates
  /\ c = "STOP_VIDEO"  => s \in VideoStates /\ d \notin VideoStates
  /\ c \notin {"START_VIDEO", "STOP_VIDEO"}
       => (s \in VideoStates <=> d \in VideoStates)

(* Every row of setState()'s switch is such an edge.                        *)
LEMMA EdgesAreGood ==
  ASSUME NEW s, NEW c, NEW d, <<s, c, d>> \in Edges
  PROVE  GoodEdge(s, c, d)
<1> USE DEF GoodEdge, States, VideoStates, StillStates, Commands,
            BlindUseBuffers
<1>1. CASE <<s, c, d>> \in InitializedEdges
  BY <1>1 DEF InitializedEdges
<1>2. CASE <<s, c, d>> \in LoadedPreviewEdges
  BY <1>2 DEF LoadedPreviewEdges
<1>3. CASE <<s, c, d>> \in PreviewEdges
  BY <1>3 DEF PreviewEdges
<1>4. CASE <<s, c, d>> \in CaptureEdges
  BY <1>4 DEF CaptureEdges
<1>5. CASE <<s, c, d>> \in BracketingEdges
  BY <1>5 DEF BracketingEdges
<1>6. CASE <<s, c, d>> \in FocusZoomEdges
  BY <1>6 DEF FocusZoomEdges
<1>7. CASE <<s, c, d>> \in VideoEdges
  BY <1>7 DEF VideoEdges
<1>8. CASE <<s, c, d>> \in LoadedReprocessEdges
  BY <1>8 DEF LoadedReprocessEdges
<1>9. CASE <<s, c, d>> \in ReprocessEdges
  BY <1>9 DEF ReprocessEdges
<1> QED
  BY <1>1, <1>2, <1>3, <1>4, <1>5, <1>6, <1>7, <1>8, <1>9 DEF Edges

(* The rollback loop never hands over buffers.                              *)
LEMMA RollbackIsNotBlind ==
  ASSUME NEW s, NEW c, <<s, c>> \in RollbackCommands
  PROVE  c \in Commands \ BlindUseBuffers
BY DEF RollbackCommands, Commands, BlindUseBuffers

-----------------------------------------------------------------------------
(* Type correctness: every state word stays a state, and what commitState()*)
(* copies into mAdapterState is never the uninitialized mNextState.  The   *)
(* two conjuncts below TypeOK are what makes it inductive.                 *)

(* mNextState has been assigned before a blind command is under way.        *)
BlindKnowsNext ==
  \A t \in Threads : op[t] \in BlindUseBuffers => nextState # Unset

(* A thread reaches its hook, or the commit, either because setState()     *)
(* accepted the command or because the command does not look.              *)
HookIsAllowed ==
  \A t \in Threads :
    /\ pc[t] \in {"hook", "commitState"}
         => accepted[t] \/ op[t] \in BlindUseBuffers
    /\ pc[t] \in {"idle", "loopTest", "loopBody"} => op[t] = "none"
    /\ pc[t] \in {"setState", "hook", "commitState", "rollbackState"}
         => op[t] \in Commands

(* mRecording through a transition: it follows mNextState between the hook *)
(* and the commit, and mAdapterState everywhere else.                      *)
RecordingInv ==
  /\ lock = NoThread => (recording <=> adapterState \in VideoStates)
  /\ \A t \in Threads :
       /\ pc[t] \in {"hook", "rollbackState"}
            => (recording <=> adapterState \in VideoStates)
       /\ pc[t] = "commitState"
            => (recording <=> nextState \in VideoStates)

IInv ==
  /\ TypeOK
  /\ LockDiscipline
  /\ NextStateSettled
  /\ TransitionTarget
  /\ BlindKnowsNext
  /\ HookIsAllowed
  /\ RecordingInv

(* The invariant holds initially and every action keeps it.                 *)
LEMMA InitIInv == Init => IInv
BY NoThreadIsNone, UnsetIsNoState
   DEF Init, IInv, TypeOK, LockDiscipline, InTransition, NextStateSettled,
       TransitionTarget, BlindKnowsNext, HookIsAllowed, RecordingInv, States,
       StillStates, VideoStates, PCs, Results, Commands, BlindUseBuffers

(* sendCommand() is entered: only the caller's own locals change.           *)
LEMMA CallIInv ==
  ASSUME IInv, NEW t \in Threads, NEW c \in Commands, Call(t, c)
  PROVE  IInv'
<1> USE DEF Call, Goto
<1>1. TypeOK'
  BY DEF IInv, TypeOK, PCs, Results
<1>2. LockDiscipline'
  BY NoThreadIsNone DEF IInv, TypeOK, LockDiscipline, InTransition
<1>3. NextStateSettled'
  BY DEF IInv, NextStateSettled
<1>4. TransitionTarget'
  BY NoThreadIsNone
     DEF IInv, TypeOK, TransitionTarget, LockDiscipline, InTransition
<1>5. BlindKnowsNext'
  BY DEF IInv, TypeOK, BlindKnowsNext
<1>6. HookIsAllowed'
  BY DEF IInv, TypeOK, HookIsAllowed
<1>7. RecordingInv'
  BY DEF IInv, TypeOK, RecordingInv
<1> QED
  BY <1>1, <1>2, <1>3, <1>4, <1>5, <1>6, <1>7 DEF IInv

(* setState(): the lock is taken and mNextState may become the target.      *)
LEMMA SetStateIInv ==
  ASSUME IInv, NEW t \in Threads, SetState(t)
  PROVE  IInv'
<1> USE DEF SetState, Goto
<1>1. TypeOK'
  BY DEF IInv, TypeOK, PCs
<1>2. LockDiscipline'
  BY NoThreadIsNone DEF IInv, TypeOK, LockDiscipline, InTransition
<1>3. NextStateSettled'
  BY NoThreadIsNone DEF IInv, NextStateSettled
<1>4. TransitionTarget'
  BY DEF IInv, TypeOK, TransitionTarget, NextStateSettled, BlindKnowsNext
<1>5. BlindKnowsNext'
  BY UnsetIsNoState DEF IInv, BlindKnowsNext
<1>6. HookIsAllowed'
  BY DEF IInv, TypeOK, HookIsAllowed
<1>7. RecordingInv'
  <2>1. \A u \in Threads : u # t => ~InTransition(u)
    BY NoThreadIsNone DEF IInv, LockDiscipline
  <2> QED
    BY <2>1, NoThreadIsNone
       DEF IInv, TypeOK, RecordingInv, InTransition
<1> QED
  BY <1>1, <1>2, <1>3, <1>4, <1>5, <1>6, <1>7 DEF IInv

(* The hook: only mRecording changes, and only as the command says.         *)
LEMMA HookIInv ==
  ASSUME IInv, NEW t \in Threads, Hook(t)
  PROVE  IInv'
<1> USE DEF Hook, Goto
<1>a. PICK ok \in HookOutcomes(op[t]) :
        /\ pc' = [pc EXCEPT ![t] = IF ok THEN "commitState"
                                        ELSE "rollbackState"]
        /\ recording' = RecordingAfter(op[t], ok)
  OBVIOUS
<1>b. lock = t /\ \A u \in Threads : u # t => ~InTransition(u)
  BY DEF IInv, LockDiscipline, InTransition
<1>1. TypeOK'
  BY <1>a DEF IInv, TypeOK, PCs, RecordingAfter
<1>2. LockDiscipline'
  BY <1>a DEF IInv, TypeOK, LockDiscipline, InTransition
<1>3. NextStateSettled'
  BY DEF IInv, NextStateSettled
<1>4. TransitionTarget'
  BY DEF IInv, TransitionTarget
<1>5. BlindKnowsNext'
  BY DEF IInv, BlindKnowsNext
<1>6. HookIsAllowed'
  BY <1>a DEF IInv, TypeOK, HookIsAllowed
<1>7. RecordingInv'
  <2>1. lock' # NoThread
    BY <1>b, NoThreadIsNone
  <2>2. ASSUME NEW u \in Threads, u # t
        PROVE  pc'[u] \notin {"hook", "rollbackState", "commitState"}
    BY <1>a, <1>b, <2>2 DEF IInv, TypeOK, InTransition
  <2>3. recording <=> adapterState \in VideoStates
    BY DEF IInv, RecordingInv
  <2>4. CASE ok
    <3>1. pc'[t] = "commitState"
      BY <1>a, <2>4 DEF IInv, TypeOK
    <3>2. accepted[t] => GoodEdge(adapterState, op[t], nextState)
      BY <1>b, EdgesAreGood DEF IInv, TransitionTarget
    <3>3. ~accepted[t] => nextState = adapterState
                          /\ op[t] \notin {"START_VIDEO", "STOP_VIDEO"}
      BY <1>b DEF IInv, TransitionTarget, HookIsAllowed, BlindUseBuffers
    <3>4. recording' <=> nextState \in VideoStates
      BY <1>a, <2>3, <2>4, <3>2, <3>3
         DEF GoodEdge, RecordingAfter, IInv, TypeOK
    <3> QED
      BY <2>1, <2>2, <3>1, <3>4 DEF RecordingInv
  <2>5. CASE ~ok
    <3>1. pc'[t] = "rollbackState" /\ recording' = recording
      BY <1>a, <2>5 DEF IInv, TypeOK, RecordingAfter
    <3> QED
      BY <2>1, <2>2, <2>3, <3>1 DEF RecordingInv
  <2> QED
    BY <2>4, <2>5
<1> QED
  BY <1>1, <1>2, <1>3, <1>4, <1>5, <1>6, <1>7 DEF IInv

(* commitState(): mAdapterState becomes mNextState and the lock is free.    *)
LEMMA CommitStateIInv ==
  ASSUME IInv, NEW t \in Threads, CommitState(t)
  PROVE  IInv'
<1> USE DEF CommitState, Return, Goto
<1>a. lock = t /\ \A u \in Threads : u # t => ~InTransition(u)
  BY DEF IInv, LockDiscipline, InTransition
<1>b. nextState \in States
  BY <1>a, EdgesAreGood
     DEF IInv, TypeOK, TransitionTarget, HookIsAllowed, GoodEdge
<1>1. TypeOK'
  BY <1>b DEF IInv, TypeOK, PCs, Results
<1>2. LockDiscipline'
  BY <1>a, NoThreadIsNone DEF IInv, TypeOK, LockDiscipline, InTransition
<1>3. NextStateSettled'
  BY DEF NextStateSettled
<1>4. TransitionTarget'
  BY NoThreadIsNone DEF TransitionTarget
<1>5. BlindKnowsNext'
  BY DEF IInv, TypeOK, BlindKnowsNext, BlindUseBuffers
<1>6. HookIsAllowed'
  BY DEF IInv, TypeOK, HookIsAllowed
<1>7. RecordingInv'
  <2>1. ASSUME NEW u \in Threads
        PROVE  pc'[u] \notin {"hook", "rollbackState", "commitState"}
    BY <1>a DEF IInv, TypeOK, InTransition
  <2>2. recording <=> nextState \in VideoStates
    BY DEF IInv, RecordingInv
  <2> QED
    BY <2>1, <2>2 DEF RecordingInv
<1> QED
  BY <1>1, <1>2, <1>3, <1>4, <1>5, <1>6, <1>7 DEF IInv

(* rollbackState(): mNextState becomes mAdapterState and the lock is free.  *)
LEMMA RollbackStateIInv ==
  ASSUME IInv, NEW t \in Threads, RollbackState(t)
  PROVE  IInv'
<1> USE DEF RollbackState, Return, Goto
<1>a. lock = t /\ \A u \in Threads : u # t => ~InTransition(u)
  BY DEF IInv, LockDiscipline, InTransition
<1>1. TypeOK'
  BY DEF IInv, TypeOK, PCs, Results
<1>2. LockDiscipline'
  BY <1>a, NoThreadIsNone DEF IInv, TypeOK, LockDiscipline, InTransition
<1>3. NextStateSettled'
  BY DEF NextStateSettled
<1>4. TransitionTarget'
  BY NoThreadIsNone DEF TransitionTarget
<1>5. BlindKnowsNext'
  BY UnsetIsNoState DEF IInv, TypeOK, BlindKnowsNext
<1>6. HookIsAllowed'
  BY DEF IInv, TypeOK, HookIsAllowed
<1>7. RecordingInv'
  <2>1. ASSUME NEW u \in Threads
        PROVE  pc'[u] \notin {"hook", "rollbackState", "commitState"}
    BY <1>a DEF IInv, TypeOK, InTransition
  <2>2. recording <=> adapterState \in VideoStates
    BY DEF IInv, RecordingInv
  <2> QED
    BY <2>1, <2>2 DEF RecordingInv
<1> QED
  BY <1>1, <1>2, <1>3, <1>4, <1>5, <1>6, <1>7 DEF IInv

(* The rollback loop's own steps touch neither the state words nor the lock.*)
LEMMA LoopIInv ==
  ASSUME IInv, NEW t \in Threads,
         CallRollback(t) \/ LoopTest(t) \/ LoopBody(t)
  PROVE  IInv'
<1> USE DEF CallRollback, LoopTest, LoopBody, Return, Goto
<1>a. UNCHANGED <<adapterState, nextState, lock, recording>>
  OBVIOUS
<1>b. /\ pc[t] \in {"idle", "loopTest", "loopBody"}
      /\ \A u \in Threads : u # t => pc'[u] = pc[u] /\ op'[u] = op[u]
                                     /\ accepted'[u] = accepted[u]
      /\ \/ /\ pc'[t] \in {"idle", "loopTest", "loopBody"}
            /\ op'[t] = "none"
         \/ /\ pc'[t] = "setState"
            /\ op'[t] \in Commands \ BlindUseBuffers
  BY RollbackIsNotBlind DEF IInv, TypeOK, HookIsAllowed
<1>1. TypeOK'
  BY RollbackIsNotBlind DEF IInv, TypeOK, PCs, Results
<1>2. LockDiscipline'
  BY <1>a, <1>b DEF IInv, LockDiscipline, InTransition
<1>3. NextStateSettled'
  BY <1>a DEF IInv, NextStateSettled
<1>4. TransitionTarget'
  <2>1. lock # t
    BY <1>b DEF IInv, LockDiscipline, InTransition
  <2> QED
    BY <1>a, <1>b, <2>1 DEF IInv, TransitionTarget
<1>5. BlindKnowsNext'
  BY <1>a, <1>b DEF IInv, BlindKnowsNext, BlindUseBuffers
<1>6. HookIsAllowed'
  BY <1>b DEF IInv, HookIsAllowed
<1>7. RecordingInv'
  BY <1>a, <1>b DEF IInv, RecordingInv
<1> QED
  BY <1>1, <1>2, <1>3, <1>4, <1>5, <1>6, <1>7 DEF IInv

LEMMA StutterIInv ==
  ASSUME IInv, UNCHANGED vars
  PROVE  IInv'
BY DEF vars, IInv, TypeOK, LockDiscipline, InTransition, NextStateSettled,
       TransitionTarget, BlindKnowsNext, HookIsAllowed, RecordingInv

LEMMA NextIInv == IInv /\ [Next]_vars => IInv'
<1> SUFFICES ASSUME IInv, [Next]_vars PROVE IInv'
  OBVIOUS
<1>1. ASSUME NEW t \in Threads, NEW c \in Commands, Call(t, c) PROVE IInv'
  BY <1>1, CallIInv
<1>2. ASSUME NEW t \in Threads, CallRollback(t) PROVE IInv'
  BY <1>2, LoopIInv
<1>3. ASSUME NEW t \in Threads, Step(t) PROVE IInv'
  BY <1>3, SetStateIInv, HookIInv, CommitStateIInv, RollbackStateIInv,
     LoopIInv DEF Step
<1>4. CASE UNCHANGED vars
  BY <1>4, StutterIInv
<1> QED
  BY <1>1, <1>2, <1>3, <1>4 DEF Next

(* The inductive invariant of the adapter's state machine.                  *)
THEOREM AdapterInvariant == Spec => []IInv
BY InitIInv, NextIInv, PTL DEF Spec

-----------------------------------------------------------------------------
(* mAdapterState is always a state of the table and mNextState never gets  *)
(* into it uninitialized.                                                  *)
THEOREM TypeCorrect == Spec => []TypeOK
<1>1. IInv => TypeOK
  BY DEF IInv
<1> QED
  BY <1>1, AdapterInvariant, PTL

(* mLock is held exactly by the thread between setState() and the commit   *)
(* or rollback, so unlock() is only ever called by the holder.             *)
THEOREM LockIsDisciplined == Spec => []LockDiscipline
<1>1. IInv => LockDiscipline
  BY DEF IInv
<1> QED
  BY <1>1, AdapterInvariant, PTL

(* The locked getters never see a transition that is under way, and a      *)
(* transition's target is never one another command left behind.           *)
THEOREM StateWordsAgree == Spec => [](NextStateSettled /\ TransitionTarget)
<1>1. IInv => NextStateSettled /\ TransitionTarget
  BY DEF IInv
<1> QED
  BY <1>1, AdapterInvariant, PTL

(* mRecording is on exactly in the video states whenever mLock is free.     *)
THEOREM RecordingIsTheVideoState == Spec => []RecordingMatchesState
<1>1. IInv => RecordingMatchesState
  BY DEF IInv, RecordingInv, RecordingMatchesState
<1> QED
  BY <1>1, AdapterInvariant, PTL

(* The threaded machine implements the atomic one: only commitState()      *)
(* moves mAdapterState, and it moves it along an edge of the table or not  *)
(* at all.                                                                 *)
THEOREM AdapterRefinement == Spec => ImplementsLifecycle
<1>1. Init => Lifecycle!Init
  BY DEF Init, Lifecycle!Init
<1>2. IInv /\ [Next]_vars => [Lifecycle!Next]_adapterState
  <2> SUFFICES ASSUME IInv, [Next]_vars, adapterState' # adapterState
               PROVE  Lifecycle!Next
    OBVIOUS
  <2>1. PICK t \in Threads : CommitState(t)
    BY DEF Next, Step, Call, SetState, Hook, RollbackState, CallRollback,
           LoopTest, LoopBody, vars
  <2>2. lock = t /\ adapterState' = nextState
    BY <2>1 DEF CommitState, IInv, LockDiscipline, InTransition
  <2>3. accepted[t]
    BY <2>1, <2>2 DEF CommitState, IInv, TransitionTarget, HookIsAllowed
  <2>4. <<adapterState, op[t], adapterState'>> \in Edges
    BY <2>2, <2>3 DEF IInv, TransitionTarget
  <2>5. op[t] \in Commands /\ adapterState' \in States
    BY <2>4, EdgesAreGood DEF GoodEdge
  <2>6. Lifecycle!Edges = Edges
    BY DEF Edges, InitializedEdges, LoadedPreviewEdges, PreviewEdges,
           LoadedReprocessEdges, ReprocessEdges, CaptureEdges,
           BracketingEdges, FocusZoomEdges, VideoEdges,
           Lifecycle!Edges, Lifecycle!InitializedEdges,
           Lifecycle!LoadedPreviewEdges, Lifecycle!PreviewEdges,
           Lifecycle!LoadedReprocessEdges, Lifecycle!ReprocessEdges,
           Lifecycle!CaptureEdges, Lifecycle!BracketingEdges,
           Lifecycle!FocusZoomEdges, Lifecycle!VideoEdges
  <2>7. Lifecycle!Commands = Commands /\ Lifecycle!States = States
    BY DEF Commands, BlindUseBuffers, States, StillStates, VideoStates,
           Lifecycle!Commands, Lifecycle!BlindUseBuffers, Lifecycle!States,
           Lifecycle!StillStates, Lifecycle!VideoStates
  <2> QED
    BY <2>4, <2>5, <2>6, <2>7 DEF Lifecycle!Next, Lifecycle!Perform
<1> QED
  BY <1>1, <1>2, AdapterInvariant, PTL
     DEF Spec, ImplementsLifecycle, Lifecycle!Spec
=============================================================================
