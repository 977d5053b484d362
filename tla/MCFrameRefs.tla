---------------------------- MODULE MCFrameRefs ----------------------------
(***************************************************************************)
(* FrameRefs for TLC: buffers and threads are model values, the buffers    *)
(* interchangeable.                                                        *)
(***************************************************************************)
EXTENDS FrameRefs, TLC

BufferSymmetry == Permutations(Bufs)
=============================================================================
