--------------------------- MODULE MCAdapterState ---------------------------
(***************************************************************************)
(* AdapterState for TLC: the threads are model values and interchangeable. *)
(***************************************************************************)
EXTENDS AdapterState, TLC

ThreadSymmetry == Permutations(Threads)
=============================================================================
