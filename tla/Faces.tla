-------------------------------- MODULE Faces ---------------------------------
(* Face detection of the OMX camera adapter (OMXFD.cpp): the application      *)
(* starts and stops it, focus and capture pause it, the orientation sensor    *)
(* restarts it, and the callback thread turns what the component found in a   *)
(* preview frame into the faces the application is told of.  The calls run    *)
(* under mFaceDetectionLock as a whole.  A face is a place on a line.         *)
EXTENDS Integers, Sequences

CONSTANTS
  FacePlaces,   \* the places are 0 .. FacePlaces - 1
  MaxFaces,     \* in a frame
  FaceCalls,    \* calls of the application, pauses and rotations
  FaceFaults    \* calls of the component that may fail

VARIABLES
  fRunning, fPaused,    \* mFaceDetectionRunning, mFaceDetectionPaused
  fSwitch,              \* mFDSwitchAlgoPriority
  detecting,            \* the component looks for faces
  priority, given,      \* faces over regions: for the adapter, and the algorithms that took it
  lastOutput,           \* faceDetectionLastOutput
  faceCbPc,             \* the callback thread with a frame
  faceScene, reported,      \* the faces in the frame, and those sent for it
  faceCalls, faceFaults

faceVars == <<fRunning, fPaused, fSwitch, detecting, priority, given, lastOutput, faceCbPc,
              faceScene, reported, faceCalls, faceFaults>>
detection == <<fRunning, fPaused, detecting>>
frameVars == <<faceCbPc, faceScene, reported>>

FaceAlgorithms == {"focus", "exposure"}
Scenes == UNION {[1 .. n -> 0 .. FacePlaces - 1] : n \in 0 .. MaxFaces}

Init ==
  /\ fRunning = FALSE /\ fPaused = FALSE /\ fSwitch = FALSE /\ detecting = FALSE
  /\ priority = FALSE /\ given = {}
  /\ lastOutput = <<>> /\ faceCbPc = "idle" /\ faceScene = <<>> /\ reported = <<>>
  /\ faceCalls = 0 /\ faceFaults = 0

Called == faceCalls < FaceCalls /\ faceCalls' = faceCalls + 1
Faulty == faceFaults < FaceFaults /\ faceFaults' = faceFaults + 1
-----------------------------------------------------------------------------
(* setFaceDetection(): the flags follow once both calls of the component, the *)
(* second for the extra data of the frames, have succeeded.                   *)
Set(on) ==
  \/ detecting' = on /\ fRunning' = on /\ fPaused' = ~on /\ UNCHANGED faceFaults
  \/ Faulty /\ detecting' \in {detecting, on} /\ UNCHANGED <<fRunning, fPaused>>

StartFaceDetection ==
  /\ Called /\ Set(TRUE)
  /\ IF faceFaults' # faceFaults THEN UNCHANGED <<fSwitch, lastOutput>>
     ELSE fSwitch' = TRUE /\ lastOutput' = <<>>
  /\ UNCHANGED <<priority, given, frameVars>>

(* setAlgoPriority() twice for regions and twice for faces; the second call   *)
(* repeats what the first one asked for.                                      *)
Prioritise(on) ==
  /\ priority' = on
  /\ \/ given' = (IF on THEN FaceAlgorithms ELSE {}) /\ UNCHANGED faceFaults
     \/ Faulty /\ given' = IF on THEN given \cup {"focus"} ELSE given \ {"focus"}

(* The running flag is tested after setFaceDetection(FALSE) has cleared it.   *)
StopFaceDetection ==
  /\ Called /\ Set(FALSE)
  /\ lastOutput' = IF faceFaults' # faceFaults THEN lastOutput ELSE <<>>
  /\ UNCHANGED <<fSwitch, priority, given, frameVars>>

PauseFaceDetection ==
  /\ Called
  /\ IF fRunning THEN fPaused' \in BOOLEAN /\ lastOutput' = <<>> ELSE UNCHANGED <<fPaused, lastOutput>>
  /\ UNCHANGED <<fRunning, fSwitch, detecting, priority, given, frameVars, faceFaults>>

SetFaceDetectionOrientation ==
  /\ Called /\ fRunning /\ Set(TRUE)
  /\ UNCHANGED <<fSwitch, lastOutput, priority, given, frameVars>>
-----------------------------------------------------------------------------
(* The callback thread.                                                       *)

(* createPreviewMetadata(): the flags are read without the lock.              *)
CreatePreviewMetadata ==
  /\ faceCbPc = "idle"
  /\ IF fRunning /\ ~fPaused /\ detecting THEN faceScene' \in Scenes ELSE faceScene' = <<>>
  /\ faceCbPc' = "encode"
  /\ UNCHANGED <<detection, fSwitch, priority, given, lastOutput, reported, faceCalls, faceFaults>>

(* Almost the same rectangle as a face of the last output.                    *)
Near(a, b) == a - b \in {-1, 0, 1}

(* encodeFaceCoordinates(): a face that has hardly moved is reported where it *)
(* was; the last of the old faces it is near to wins.                         *)
Filtered(f) ==
  LET old == {j \in DOMAIN lastOutput : Near(lastOutput[j], f)}
  IN IF old = {} THEN f ELSE lastOutput[CHOOSE j \in old : \A k \in old : k <= j]

EncodeFaceCoordinates ==
  /\ faceCbPc = "encode" /\ faceCbPc' = "priority"
  /\ LET faces == [i \in DOMAIN faceScene |-> Filtered(faceScene[i])]
         changed == \/ Len(lastOutput) # Len(faces)
                    \/ \E i \in DOMAIN faceScene : \A j \in DOMAIN lastOutput : ~Near(lastOutput[j], faceScene[i])
     IN /\ lastOutput' = faces
        /\ \/ changed /\ reported' = faces
           \/ ~changed /\ reported' \in {reported, faces}    \* sent if the other metadata is new
  /\ UNCHANGED <<detection, fSwitch, priority, given, faceScene, faceCalls, faceFaults>>

SwitchPriority ==
  /\ faceCbPc = "priority" /\ faceCbPc' = "idle" /\ faceScene' = <<>>
  /\ IF fSwitch THEN Prioritise(TRUE) /\ fSwitch' = FALSE
     ELSE UNCHANGED <<priority, given, fSwitch, faceFaults>>
  /\ UNCHANGED <<detection, lastOutput, reported, faceCalls>>
-----------------------------------------------------------------------------
CbStep == CreatePreviewMetadata \/ EncodeFaceCoordinates \/ SwitchPriority
Calls == StartFaceDetection \/ StopFaceDetection \/ PauseFaceDetection \/ SetFaceDetectionOrientation
Next == Calls \/ CbStep
Spec == Init /\ [][Next]_faceVars /\ WF_faceVars(CbStep)
-----------------------------------------------------------------------------
TypeOK ==
  /\ lastOutput \in Scenes /\ reported \in Scenes /\ given \subseteq FaceAlgorithms
  /\ faceCbPc \in {"idle", "encode", "priority"}

(* What the filter lets stand is never further from the real face than the    *)
(* filter allows, however often the face moves a little, and no face is lost. *)
FacesFollow ==
  [][(faceCbPc = "encode" /\ faceCbPc' = "priority") =>
       Len(lastOutput') = Len(faceScene) /\ \A i \in DOMAIN faceScene : Near(lastOutput'[i], faceScene[i])]_faceVars

(* A detection that runs gets the priority it asks for from the component,    *)
(* unless a call fails.                                                       *)
PriorityIsDue == fRunning /\ given # FaceAlgorithms /\ faceFaults = 0
FacesGetPriority == PriorityIsDue ~> ~PriorityIsDue

(* "Enable region priority and disable face priority for AF": a detection     *)
(* that was stopped leaves no priority to faces.                              *)
PriorityRestored == (faceCbPc = "idle" /\ ~fRunning /\ faceFaults = 0) => given = {}
=============================================================================
