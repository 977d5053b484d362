------------------------- MODULE MCComponentControl -------------------------
(* Instances of ComponentControl for TLC.                                     *)
EXTENDS ComponentControl

(* Nothing goes wrong; every answer but that of the port in                   *)
(* doSwitchToExecuting() may be late; the hardware fails.                     *)
Quiet == [late |-> {}, fatal |-> FALSE]
Slow  == [late |-> Waits \ {"execDisable"}, fatal |-> FALSE]
Fatal == [late |-> {}, fatal |-> TRUE]
Everything == {Quiet, Slow, Fatal}
=============================================================================
