------------------------------ MODULE OmxEvents ------------------------------
(* The registrations a thread leaves before it sends a command to the OMX     *)
(* component, and how an event of the component finds the one it answers.     *)
EXTENDS Integers, Sequences, SequencesExt

(* The numbers of events, commands, states and ports: a registration keeps    *)
(* bare numbers, so a state and a port that have the same one are the same.   *)
OMX_EventCmdComplete   == 0
OMX_CommandStateSet    == 0
OMX_CommandFlush       == 1
OMX_CommandPortDisable == 2
OMX_CommandPortEnable  == 3
OMX_StateInvalid   == 0
OMX_StateLoaded    == 1
OMX_StateIdle      == 2
OMX_StateExecuting == 3
mPrevPortIndex  == 2
mImagePortIndex == 5
Ports  == {mPrevPortIndex, mImagePortIndex}
States == OMX_StateInvalid .. OMX_StateExecuting

Message(event, data1, data2, semaphore) ==
  [command |-> event, arg1 |-> data1, arg2 |-> data2, arg3 |-> semaphore]

(* A command that is not zero matches every event, an argument that is zero   *)
(* every value.                                                               *)
Matches(msg, event, data1, data2) ==
  /\ msg.command # 0 \/ msg.command = event
  /\ msg.arg1 \in {0, data1}
  /\ msg.arg2 \in {0, data2}

Matching(q, event, data1, data2) == {i \in DOMAIN q : Matches(q[i], event, data1, data2)}
First(S) == CHOOSE i \in S : \A j \in S : i =< j

(* SignalEvent() and RemoveEvent() take the first match out of the queue; the *)
(* former posts its semaphore too.                                            *)
WithoutMatch(q, event, data1, data2) ==
  LET M == Matching(q, event, data1, data2) IN IF M = {} THEN q ELSE RemoveAt(q, First(M))
MatchedSemaphore(q, event, data1, data2) ==
  LET M == Matching(q, event, data1, data2) IN IF M = {} THEN {} ELSE {q[First(M)].arg3}
=============================================================================
