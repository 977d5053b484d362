----------------------------- MODULE MCNotifier -----------------------------
(* Instances of Notifier for TLC.                                             *)
EXTENDS Notifier, TLC

Plan(frames, stops, records, focuses, flushes) ==
  [frames |-> frames, stops |-> stops, records |-> records, focuses |-> focuses, flushes |-> flushes]

(* A burst that is encoded; a preview and pictures that are stopped and       *)
(* started again; a recording; pictures stopped while they are encoded; and   *)
(* a focus that is cancelled.                                                 *)
AllPlans == {Plan(<<"YUV", "YUV">>, FALSE, FALSE, TRUE, FALSE),
             Plan(<<"PREVIEW", "JPEG">>, TRUE, FALSE, TRUE, FALSE),
             Plan(<<"PREVIEW", "VIDEO">>, FALSE, TRUE, FALSE, FALSE),
             Plan(<<"YUV", "YUV">>, TRUE, FALSE, FALSE, FALSE),
             Plan(<<"PREVIEW">>, TRUE, FALSE, TRUE, TRUE)}
=============================================================================
