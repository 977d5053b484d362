---------------------------- MODULE PictureTaking ----------------------------
(* What an application is promised by takePicture(): a picture that was asked *)
(* for ends after exactly its images were delivered, and only then can the  *)
(* next one be asked for.                                                     *)
EXTENDS Naturals

CONSTANT Sizes   \* how many images a picture can have
VARIABLES taking, owed

Init == taking = FALSE /\ owed = 0

Ask     == ~taking /\ taking' = TRUE /\ owed' \in Sizes
Deliver == taking /\ owed > 0 /\ owed' = owed - 1 /\ UNCHANGED taking
End     == taking /\ owed = 0 /\ taking' = FALSE /\ UNCHANGED owed

Next == Ask \/ Deliver \/ End
vars == <<taking, owed>>
Spec == Init /\ [][Next]_vars /\ WF_vars(Deliver \/ End)
=============================================================================
