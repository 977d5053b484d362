-------------------------- MODULE AdapterLifecycle --------------------------
(***************************************************************************)
(* What the adapter's state machine promises its users: one state that     *)
(* moves atomically along the edges of the transition table.  No threads,  *)
(* no lock, no command that is half done.  AdapterState implements this.   *)
(***************************************************************************)
EXTENDS AdapterTransitions

VARIABLE state

Init == state = "INITIALIZED"

Perform(c) == \E s \in States : <<state, c, s>> \in Edges /\ state' = s

Next == \E c \in Commands : Perform(c)

Spec == Init /\ [][Next]_state
=============================================================================
