---------------------------- MODULE CaptureSettings ----------------------------
(* The settings of a picture in the OMX camera adapter (OMXCapture.cpp):      *)
(* setParametersCapture() notes what the application wants and marks it in    *)
(* mPendingCaptureSettings.  The format, the thumbnail and the quality are    *)
(* applied where the image port gets its buffers, on the application's        *)
(* thread; the rotation, the burst and the bracketing by the command handler, *)
(* from a copy of the marks that was taken when the picture was asked for.    *)
(* Values are abstracted to two.  A command that a stop has overtaken, and    *)
(* images that the application asks for while some are on their way, are      *)
(* CaptureControl's.                                                          *)
EXTENDS Naturals, Sequences

CONSTANTS
  UsedCapture,       \* the settings the application changes, some of AllCapture
  CaptureCalls,      \* calls of setParameters()
  CaptureFaults      \* calls of the component that may fail

VARIABLES
  asked,             \* mThumb*, mPictureQuality, mPictureRotation, mBurstFrames, ...
  givenSettings,     \* what the component has
  pendingCapture,    \* mPendingCaptureSettings
  pictureAsked,      \* what was wanted when the picture was asked for, and the marks: the cached parameters
  picturePc,         \* "none", "posted", "rotated", "applied", "shooting", "over" (no more images), "dead"
  mCaptureConfigured,
  portFormat,        \* the format the image port's buffers were made for
  expected, left,    \* mCapturedFrames, images the component still takes
  refusedCapture,    \* settings whose setter has failed
  overtaken,         \* settings unmarked by a picture that had not seen their change, until marked between pictures
  captureCalls, captureFaults

captureVars == <<asked, givenSettings, pendingCapture, pictureAsked, picturePc, mCaptureConfigured, portFormat, expected,
                 left, refusedCapture, overtaken, captureCalls, captureFaults>>
calls == <<captureCalls, captureFaults>>

PortSettings == {"Format", "Thumb", "Quality"}
AllCapture == PortSettings \cup {"Rotation", "Burst", "ExpBracket"}
ShotSettings == {"Burst", "ExpBracket"}

Frames(values) == IF "Burst" \in UsedCapture THEN 1 + values["Burst"] ELSE 1

Init ==
  /\ asked = [s \in UsedCapture |-> 0] /\ givenSettings = asked /\ pendingCapture = {}
  /\ pictureAsked = [values |-> asked, marks |-> {}] /\ picturePc = "none"
  /\ mCaptureConfigured = FALSE /\ portFormat = 0 /\ expected = 0 /\ left = 0
  /\ refusedCapture = {} /\ overtaken = {} /\ captureCalls = 0 /\ captureFaults = 0

CaptureFault == captureFaults < CaptureFaults /\ captureFaults' = captureFaults + 1
-----------------------------------------------------------------------------
(* Mutant: a burst that has shrunk is not marked.                             *)
MarksOfGrowth(values) == {s \in UsedCapture : values[s] > asked[s]}

(* What setParametersCapture() marks: whatever has changed; the exposure      *)
(* bracketing also whenever it is or was asked for, and at the first call all.*)
Marks(values) ==
  IF captureCalls = 0 THEN UsedCapture
  ELSE {s \in UsedCapture : values[s] # asked[s] \/ (s = "ExpBracket" /\ values[s] = 1)}

(* inCaptureState: a picture was asked for and has not been stopped.          *)
InCapture == picturePc \in {"posted", "rotated", "applied", "shooting", "over"}

(* A mark is lost when it is set between the command handler's read and its   *)
(* write of mPendingCaptureSettings, which no lock protects.                  *)
HandlerClears ==
  \/ picturePc = "posted" /\ "Rotation" \in pictureAsked.marks
  \/ picturePc = "rotated" /\ ShotSettings \cap pictureAsked.marks # {}
  \/ picturePc = "applied"
Torn(values) == IF HandlerClears THEN SUBSET (Marks(values) \ pendingCapture) ELSE {{}}

(* Anything but a bracketing disables the image port, so that its buffers are *)
(* made anew, unless a capture is active.                                     *)
SetParametersCapture ==
  /\ picturePc # "dead" /\ captureCalls < CaptureCalls /\ captureCalls' = captureCalls + 1
  /\ \E values \in [UsedCapture -> {0, 1}] : \E lost \in Torn(values) :
       LET marks == pendingCapture \cup Marks(values)
           renew == marks \ {"ExpBracket"} # {} /\ ~InCapture
       IN /\ asked' = values
          /\ mCaptureConfigured' = (mCaptureConfigured /\ ~renew)
          /\ IF renew /\ "Format" \in marks
               THEN /\ pendingCapture' = marks \ {"Format"}
                    /\ \/ /\ givenSettings' = [givenSettings EXCEPT !["Format"] = values["Format"]]
                          /\ refusedCapture' = refusedCapture \ marks /\ UNCHANGED captureFaults
                       \/ /\ CaptureFault /\ refusedCapture' = (refusedCapture \ marks) \cup {"Format"}
                          /\ UNCHANGED givenSettings
               ELSE /\ pendingCapture' = marks \ lost /\ refusedCapture' = refusedCapture \ marks
                    /\ UNCHANGED <<givenSettings, captureFaults>>
          /\ overtaken' = IF InCapture THEN overtaken \cup lost ELSE overtaken \ marks
  /\ UNCHANGED <<pictureAsked, picturePc, portFormat, expected, left>>
-----------------------------------------------------------------------------
(* takePicture(): getPictureBufferSize() sets the format once more, and       *)
(* UseBuffersCapture() the thumbnail and the quality, if the port is not      *)
(* configured already.  A setter's mark is removed first, and its failure     *)
(* ends the call; that of the quality ends the component, too.                *)

Order == <<"Format", "Thumb", "Quality">>
Due(s) == s \in UsedCapture /\ (s = "Format" \/ s \in pendingCapture)

(* cacheCaptureParameters()                                                   *)
Cached == [values |-> asked, marks |-> pendingCapture]

Configured ==
  /\ mCaptureConfigured /\ UNCHANGED <<givenSettings, pendingCapture, mCaptureConfigured, portFormat, refusedCapture, captureFaults>>
  /\ picturePc' = "posted"

(* setFormat(), setThumbnailParams() and setImageQuality(), the first n.      *)
SetUp(n) ==
  LET done == {Order[i] : i \in 1 .. n} \cap {s \in UsedCapture : Due(s)}
  IN /\ givenSettings' = [s \in UsedCapture |-> IF s \in done THEN asked[s] ELSE givenSettings[s]]
     /\ IF n = 3
          THEN /\ pendingCapture' = pendingCapture \ PortSettings /\ refusedCapture' = refusedCapture \ done
               /\ mCaptureConfigured' = TRUE /\ picturePc' = "posted"
               /\ portFormat' = IF "Format" \in UsedCapture THEN asked["Format"] ELSE 0
               /\ UNCHANGED captureFaults
          ELSE /\ Due(Order[n + 1]) /\ CaptureFault
               /\ pendingCapture' = pendingCapture \ {Order[i] : i \in 1 .. n + 1}
               /\ refusedCapture' = (refusedCapture \ done) \cup {Order[n + 1]}
               /\ picturePc' = IF Order[n + 1] = "Quality" THEN "dead" ELSE "none"
               /\ UNCHANGED <<mCaptureConfigured, portFormat>>

UseBuffersCapture ==
  /\ picturePc = "none" /\ captureCalls > 0
  /\ Configured \/ (~mCaptureConfigured /\ \E n \in 0 .. 3 : SetUp(n))
  /\ expected' = Frames(asked)
  /\ pictureAsked' = [Cached EXCEPT !.marks = pendingCapture']
  /\ UNCHANGED <<asked, left, overtaken, captureCalls>>
-----------------------------------------------------------------------------
(* The command handler: startImageCapture().  The rotation is set as it is by *)
(* now, and goes on when it cannot be; burst and bracketing are set as they   *)
(* were.                                                                      *)

SetPictureRotation ==
  IF "Rotation" \in pictureAsked.marks
    THEN \/ givenSettings' = [givenSettings EXCEPT !["Rotation"] = asked["Rotation"]] /\ UNCHANGED captureFaults
         \/ CaptureFault /\ UNCHANGED givenSettings
    ELSE UNCHANGED <<givenSettings, captureFaults>>

Unset == IF givenSettings' = givenSettings /\ captureFaults' > captureFaults THEN {"Rotation"} ELSE {}

(* What setExposureBracketing() gives to the component: the frames of the     *)
(* burst, then the values of the bracketing.                                  *)
SetExposureBracketing(values) ==
  [s \in UsedCapture |-> IF s \in ShotSettings THEN values[s] ELSE givenSettings[s]]

ApplyRotation ==
  /\ picturePc = "posted" /\ picturePc' = "rotated" /\ SetPictureRotation
  /\ pendingCapture' = pendingCapture \ ({"Rotation"} \cap pictureAsked.marks)
  /\ refusedCapture' = refusedCapture \cup Unset
  /\ UNCHANGED <<asked, pictureAsked, mCaptureConfigured, portFormat, expected, left, overtaken,
                 captureCalls>>

(* The change of a shot setting that the picture asked for earlier has not    *)
(* seen loses its mark, too.                                                  *)
Missed(S) == {s \in S \cap pendingCapture : asked[s] # pictureAsked.values[s]}

DoExposureBracketing ==
  /\ picturePc = "rotated"
  /\ IF ShotSettings \cap pictureAsked.marks = {}
       THEN picturePc' = "applied" /\ UNCHANGED <<givenSettings, pendingCapture, overtaken, captureFaults>>
       ELSE /\ pendingCapture' = pendingCapture \ ShotSettings
            /\ overtaken' = overtaken \cup Missed(ShotSettings)
            /\ \/ /\ givenSettings' = SetExposureBracketing(pictureAsked.values) /\ picturePc' = "applied"
                  /\ UNCHANGED captureFaults
               \/ CaptureFault /\ picturePc' = "dead" /\ UNCHANGED givenSettings
  /\ UNCHANGED <<asked, pictureAsked, mCaptureConfigured, portFormat, expected, left, refusedCapture,
                 captureCalls>>

QueueBuffers ==
  /\ picturePc = "applied" /\ picturePc' = "shooting" /\ left' = Frames(givenSettings)
  /\ pendingCapture' = pendingCapture \ {"Burst"} /\ overtaken' = overtaken \cup Missed({"Burst"})
  /\ UNCHANGED <<asked, givenSettings, pictureAsked, mCaptureConfigured, portFormat, expected, refusedCapture, calls>>

(* An image; the last that is expected ends the capture.                      *)
ImageTaken ==
  /\ picturePc = "shooting" /\ left > 0 /\ left' = left - 1
  /\ expected' = IF expected = 0 THEN 0 ELSE expected - 1
  /\ picturePc' = IF expected <= 1 THEN "over" ELSE picturePc
  /\ UNCHANGED <<asked, givenSettings, pendingCapture, pictureAsked, mCaptureConfigured, portFormat,
                 refusedCapture, overtaken, calls>>

(* stopImageCapture(), at the last image or when the application cancels; the *)
(* port stays configured.                                                     *)
StopImageCapture ==
  /\ picturePc \in {"shooting", "over"} /\ picturePc' = "none" /\ left' = 0 /\ expected' = 0
  /\ UNCHANGED <<asked, givenSettings, pendingCapture, pictureAsked, mCaptureConfigured, portFormat,
                 refusedCapture, overtaken, calls>>
-----------------------------------------------------------------------------
Next ==
  \/ SetParametersCapture \/ UseBuffersCapture \/ ApplyRotation \/ DoExposureBracketing \/ QueueBuffers
  \/ ImageTaken \/ StopImageCapture

Handler == ApplyRotation \/ DoExposureBracketing \/ QueueBuffers
Spec == Init /\ [][Next]_captureVars /\ WF_captureVars(Handler) /\ WF_captureVars(ImageTaken)
-----------------------------------------------------------------------------
TypeOK ==
  /\ asked \in [UsedCapture -> {0, 1}] /\ givenSettings \in [UsedCapture -> {0, 1}]
  /\ pendingCapture \subseteq UsedCapture /\ expected \in 0 .. 2 /\ left \in 0 .. 2
  /\ picturePc \in {"none", "posted", "rotated", "applied", "shooting", "over", "dead"}

(* A setting that was asked for is with the component, or will be with one of *)
(* the next pictures, unless the component refused it or a picture overtook   *)
(* its change.                                                                *)
NoSettingLost ==
  picturePc # "dead" => \A s \in UsedCapture : givenSettings[s] = asked[s] \/ s \in pendingCapture \cup refusedCapture \cup overtaken

(* The buffers of the image port are those of the format the component has.   *)
BuffersOfFormat == (mCaptureConfigured /\ picturePc # "dead" /\ "Format" \in UsedCapture) => portFormat = givenSettings["Format"]

(* A picture that was asked for ends without being cancelled: the adapter     *)
(* waits for as many images as the component takes.                           *)
PictureOver == picturePc \in {"none", "over", "dead"} \/ "Burst" \in overtaken
PicturesEnd == (picturePc = "posted") ~> PictureOver
=============================================================================
