----------------------------- MODULE FrameLoan -----------------------------
(***************************************************************************)
(* What the frame reference counts of BaseCameraAdapter promise: a buffer  *)
(* is with the camera component, or it is out and lent to clients, and it  *)
(* goes back to the component only when no client is holding it.           *)
(***************************************************************************)
CONSTANTS Bufs, Holds
VARIABLES component,  \* the buffers queued at the camera component
          held        \* the holds that clients have on buffers

Init == /\ component = Bufs
        /\ held = [b \in Bufs |-> {}]

Take(b) == /\ b \in component
           /\ component' = component \ {b}
           /\ UNCHANGED held

Lend(b, hs) == /\ b \notin component
               /\ held' = [held EXCEPT ![b] = @ \cup hs]
               /\ UNCHANGED component

Release(b, h) == /\ h \in held[b]
                 /\ held' = [held EXCEPT ![b] = @ \ {h}]
                 /\ UNCHANGED component

Refill(b) == /\ b \notin component
             /\ held[b] = {}
             /\ component' = component \cup {b}
             /\ UNCHANGED held

Next == \E b \in Bufs : \/ Take(b)
                        \/ Refill(b)
                        \/ \E hs \in SUBSET Holds : Lend(b, hs)
                        \/ \E h \in Holds : Release(b, h)

Spec == Init /\ [][Next]_<<component, held>>
=============================================================================
