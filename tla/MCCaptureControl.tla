-------------------------- MODULE MCCaptureControl --------------------------
(* Instances of CaptureControl for TLC.                                       *)
EXTENDS CaptureControl, TLC

CONSTANTS b1, b2, b3

Plan(mode, images, pictures, cancels) ==
  [mode |-> mode, images |-> images, pictures |-> pictures, cancels |-> cancels]

(* Pictures of one image one after the other, or one burst, in every mode.    *)
Undisturbed == {Plan(m, {b1}, 3, FALSE) : m \in Modes} \union {Plan(m, {b1, b2, b3}, 1, FALSE) : m \in Modes}

(* One burst or single image of a video that may be stopped at any place.     *)
Cancelled == {Plan("video", {b1, b2, b3}, 1, TRUE), Plan("video", {b1}, 1, TRUE)}

(* Two bursts: an image of the first may come back while the second one is on. *)
Bursts == {Plan(m, {b1, b2}, 2, FALSE) : m \in Modes}

StoppedOrNot == Undisturbed \union Cancelled \union Bursts
=============================================================================
