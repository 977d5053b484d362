---------------------------- MODULE AdapterState ----------------------------
(***************************************************************************)
(* The state machine of BaseCameraAdapter as several threads drive it:     *)
(* sendCommand() is setState() (take mLock, choose mNextState), the hook   *)
(* of the derived class (startPreview(), takePicture() ...), then          *)
(* commitState() or rollbackState() (set one of the two state words from   *)
(* the other, release mLock).  rollbackToInitializedState() is a loop of   *)
(* locked reads of the state and sendCommand() calls.                      *)
(***************************************************************************)
EXTENDS AdapterTransitions

CONSTANTS Threads,   \* the threads that call into the adapter
          NoThread,  \* "mLock is free"
          Unset      \* the content of mNextState before anything assigns it

ASSUME NoThreadIsNone == NoThread \notin Threads
ASSUME UnsetIsNoState == Unset \notin States

VARIABLES
  adapterState,   \* mAdapterState
  nextState,      \* mNextState; the constructor leaves it uninitialized
  lock,           \* the holder of mLock
  recording,      \* mRecording
  pc,             \* where each thread is
  op,             \* the command each thread is sending, "none" outside
  accepted,       \* did setState() accept it?
  inRollback,     \* is the thread inside rollbackToInitializedState()?
  result          \* what the thread's last call returned

vars == <<adapterState, nextState, lock, recording, pc, op, accepted,
          inRollback, result>>

PCs == {"idle", "setState", "hook", "commitState", "rollbackState",
        "loopTest", "loopBody"}

Results == {"none", "NO_ERROR", "error"}

TypeOK ==
  /\ adapterState \in States
  /\ nextState \in States \cup {Unset}
  /\ lock \in Threads \cup {NoThread}
  /\ recording \in BOOLEAN
  /\ pc \in [Threads -> PCs]
  /\ op \in [Threads -> Commands \cup {"none"}]
  /\ accepted \in [Threads -> BOOLEAN]
  /\ inRollback \in [Threads -> BOOLEAN]
  /\ result \in [Threads -> Results]

Init ==
  /\ adapterState = "INITIALIZED"
  /\ nextState = Unset
  /\ lock = NoThread
  /\ recording = FALSE
  /\ pc = [t \in Threads |-> "idle"]
  /\ op = [t \in Threads |-> "none"]
  /\ accepted = [t \in Threads |-> FALSE]
  /\ inRollback = [t \in Threads |-> FALSE]
  /\ result = [t \in Threads |-> "none"]

Goto(t, label) == pc' = [pc EXCEPT ![t] = label]

-----------------------------------------------------------------------------
(* sendCommand()                                                            *)

(* Mutant: buffers handed over to an adapter nobody has queried.            *)
CallUnqueried(t, c) ==
  /\ pc[t] = "idle"
  /\ Goto(t, "setState")
  /\ op' = [op EXCEPT ![t] = c]
  /\ result' = [result EXCEPT ![t] = "none"]
  /\ UNCHANGED <<adapterState, nextState, lock, recording, accepted,
                 inRollback>>

(* A client calls sendCommand(c).  CameraHal queries a size or resolution  *)
(* before it hands over buffers, so mNextState has been assigned by then.  *)
Call(t, c) ==
  /\ pc[t] = "idle"
  /\ c \in BlindUseBuffers => nextState # Unset
  /\ Goto(t, "setState")
  /\ op' = [op EXCEPT ![t] = c]
  /\ result' = [result EXCEPT ![t] = "none"]
  /\ UNCHANGED <<adapterState, nextState, lock, recording, accepted,
                 inRollback>>

(* mLock.lock() and the two-level switch.  A refusal leaves mNextState as  *)
(* it was and keeps the lock: sendCommand() goes on to rollbackState(), or *)
(* for the blind commands to useBuffers() all the same.                    *)
SetState(t) ==
  /\ pc[t] = "setState"
  /\ lock = NoThread
  /\ lock' = t
  /\ \/ /\ \E s \in States : /\ <<adapterState, op[t], s>> \in Edges
                             /\ nextState' = s
        /\ accepted' = [accepted EXCEPT ![t] = TRUE]
        /\ Goto(t, "hook")
     \/ /\ ~Accepts(adapterState, op[t])
        /\ accepted' = [accepted EXCEPT ![t] = FALSE]
        /\ Goto(t, IF op[t] \in BlindUseBuffers THEN "hook"
                                                ELSE "rollbackState")
        /\ UNCHANGED nextState
  /\ UNCHANGED <<adapterState, recording, op, inRollback, result>>

(* startVideoCapture() fails only when a recording is on, and              *)
(* stopVideoCapture() only when none is; any other hook may fail.          *)
HookOutcomes(c) ==
  CASE c = "START_VIDEO" -> {~recording}
    [] c = "STOP_VIDEO"  -> {recording}
    [] OTHER             -> BOOLEAN

RecordingAfter(c, ok) ==
  CASE ok /\ c = "START_VIDEO" -> TRUE
    [] ok /\ c = "STOP_VIDEO"  -> FALSE
    [] OTHER                   -> recording

Hook(t) ==
  /\ pc[t] = "hook"
  /\ \E ok \in HookOutcomes(op[t]) :
       /\ Goto(t, IF ok THEN "commitState" ELSE "rollbackState")
       /\ recording' = RecordingAfter(op[t], ok)
  /\ UNCHANGED <<adapterState, nextState, lock, op, accepted, inRollback,
                 result>>

(* Mutant: the rollback loop ignores what sendCommand() returned.           *)
ReturnIgnoringStatus(t, ret) ==
  /\ Goto(t, IF inRollback[t] THEN "loopTest" ELSE "idle")
  /\ result' = [result EXCEPT ![t] = ret]
  /\ op' = [op EXCEPT ![t] = "none"]
  /\ accepted' = [accepted EXCEPT ![t] = FALSE]
  /\ UNCHANGED inRollback

(* Back to sendCommand()'s caller: a client, or the rollback loop, which   *)
(* goes on only while ret is NO_ERROR.  The locals of the call are gone.   *)
Return(t, ret) ==
  /\ Goto(t, IF inRollback[t] /\ ret = "NO_ERROR" THEN "loopTest" ELSE "idle")
  /\ inRollback' = [inRollback EXCEPT ![t] = @ /\ ret = "NO_ERROR"]
  /\ result' = [result EXCEPT ![t] = ret]
  /\ op' = [op EXCEPT ![t] = "none"]
  /\ accepted' = [accepted EXCEPT ![t] = FALSE]

CommitState(t) ==
  /\ pc[t] = "commitState"
  /\ adapterState' = nextState
  /\ lock' = NoThread
  /\ Return(t, "NO_ERROR")
  /\ UNCHANGED <<nextState, recording>>

(* Mutants of rollbackState(): mLock is not released; mNextState keeps the *)
(* target of the command that failed.                                      *)
RollbackStateKeepsLock(t) ==
  /\ pc[t] = "rollbackState"
  /\ nextState' = adapterState
  /\ Return(t, "error")
  /\ UNCHANGED <<adapterState, lock, recording>>

RollbackStateKeepsTarget(t) ==
  /\ pc[t] = "rollbackState"
  /\ lock' = NoThread
  /\ Return(t, "error")
  /\ UNCHANGED <<adapterState, nextState, recording>>

RollbackState(t) ==
  /\ pc[t] = "rollbackState"
  /\ nextState' = adapterState
  /\ lock' = NoThread
  /\ Return(t, "error")
  /\ UNCHANGED <<adapterState, recording>>

-----------------------------------------------------------------------------
(* rollbackToInitializedState() and rollbackToPreviousState()               *)

CallRollback(t) ==
  /\ pc[t] = "idle"
  /\ Goto(t, "loopTest")
  /\ inRollback' = [inRollback EXCEPT ![t] = TRUE]
  /\ result' = [result EXCEPT ![t] = "none"]
  /\ UNCHANGED <<adapterState, nextState, lock, recording, op, accepted>>

(* The while test: getState() takes and releases mLock.                    *)
LoopTest(t) ==
  /\ pc[t] = "loopTest"
  /\ lock = NoThread
  /\ IF adapterState = "INITIALIZED"
     THEN /\ Goto(t, "idle")
          /\ inRollback' = [inRollback EXCEPT ![t] = FALSE]
          /\ result' = [result EXCEPT ![t] = "NO_ERROR"]
     ELSE /\ Goto(t, "loopBody")
          /\ UNCHANGED <<inRollback, result>>
  /\ UNCHANGED <<adapterState, nextState, lock, recording, op, accepted>>

(* rollbackToPreviousState() reads the state again, under the lock again,  *)
(* and picks a command from what it sees; it gives up in a state its       *)
(* switch does not name.                                                   *)
LoopBody(t) ==
  /\ pc[t] = "loopBody"
  /\ lock = NoThread
  /\ \/ /\ adapterState = "INITIALIZED"
        /\ Return(t, "NO_ERROR")
     \/ /\ \E c \in Commands : /\ <<adapterState, c>> \in RollbackCommands
                               /\ op' = [op EXCEPT ![t] = c]
        /\ Goto(t, "setState")
        /\ UNCHANGED <<accepted, inRollback, result>>
     \/ /\ adapterState # "INITIALIZED"
        /\ \A c \in Commands : <<adapterState, c>> \notin RollbackCommands
        /\ Return(t, "error")
  /\ UNCHANGED <<adapterState, nextState, lock, recording>>

-----------------------------------------------------------------------------

(* What a call does once it has been made.                                  *)
Step(t) ==
  \/ SetState(t) \/ Hook(t) \/ CommitState(t) \/ RollbackState(t)
  \/ LoopTest(t) \/ LoopBody(t)

Next ==
  \E t \in Threads : \/ \E c \in Commands : Call(t, c)
                     \/ CallRollback(t)
                     \/ Step(t)

Spec == Init /\ [][Next]_vars

(* A hook returns, and a thread that can run does; nothing obliges a       *)
(* client to call.                                                         *)
FairSpec == Spec /\ \A t \in Threads : WF_vars(Step(t))

-----------------------------------------------------------------------------
(* The lock holder is in the part of sendCommand() between setState() and  *)
(* commitState()/rollbackState(), and nobody else is there: a command that *)
(* was refused or whose hook failed keeps mLock no longer than one that    *)
(* succeeded, and rollbackState() never unlocks a mutex it does not hold.  *)
InTransition(t) == pc[t] \in {"hook", "commitState", "rollbackState"}

LockDiscipline == \A t \in Threads : InTransition(t) <=> lock = t

(* Whoever reads both state words under the lock (getState(),              *)
(* getNextState()) reads the same state twice: a transition that is under  *)
(* way, refused or failed never shows.                                     *)
NextStateSettled ==
  lock = NoThread => nextState \in {adapterState, Unset}

(* While a transition is under way mNextState is the target the table      *)
(* gives the command, or, after a refusal, still the present state: the    *)
(* commit that follows a refused useBuffers() cannot move the state        *)
(* machine by a target another command left behind.                        *)
TransitionTarget ==
  \A t \in Threads :
    lock = t =>
      IF accepted[t]
      THEN <<adapterState, op[t], nextState>> \in Edges
      ELSE nextState \in {adapterState, Unset}
           /\ (op[t] \in BlindUseBuffers => nextState = adapterState)

(* mRecording and the state word agree whenever no transition is under     *)
(* way: recording is on exactly in the video states, although the hook and *)
(* the commit change them at different times and either may fail.          *)
RecordingMatchesState ==
  lock = NoThread => (recording <=> adapterState \in VideoStates)

(* The state machine the users see is the transition table, one edge at a  *)
(* time.                                                                   *)
Lifecycle == INSTANCE AdapterLifecycle WITH state <- adapterState
ImplementsLifecycle == Lifecycle!Spec

(* rollbackToInitializedState() always comes to an end when nobody else    *)
(* drives the state machine.                                               *)
RollbackReturns ==
  \A t \in Threads :
    inRollback[t] ~> (~inRollback[t] \/ \E u \in Threads \ {t} : pc[u] # "idle")

(* inc/BaseCameraAdapter.h says of setState(): "If the state switch fails, *)
(* then it will get reset to the previous state via rollbackState()".      *)
RefusedIsRolledBack ==
  \A t \in Threads : pc[t] = "commitState" => accepted[t]
=============================================================================
