-------------------------- MODULE FeaturesProofs --------------------------
(* Proofs about the features of the camera adapters and the parameters of     *)
(* CameraHal: each keeps an invariant of its own, and RequestsTakeEffect of   *)
(* them all follows at the end.                                               *)
EXTENDS MCFeatures, FiniteSetTheorems, FunctionTheorems, SequenceTheorems, WellFoundedInduction, TLAPS

(* An instance has a copy of what its module extends.                         *)
LEMMA S3ACardinality == ASSUME NEW S PROVE S3A!Cardinality(S) = Cardinality(S)
BY DEF S3A!Cardinality, Cardinality

-----------------------------------------------------------------------------
(* 3A settings                                                               *)

S3AConstants == UsedSettings \subseteq S3A!AllSettings /\ SettingFaults \in Nat

S3AInv == S3A!TypeOK /\ mFirstTimeInit \in BOOLEAN /\ S3A!SettingsReachComponent

LEMMA PairFinite == ASSUME NEW a, NEW b PROVE IsFiniteSet({a, b})
<1>1. IsFiniteSet({a} \cup {b}) /\ {a, b} = {a} \cup {b}
  BY FS_Singleton, FS_Union
<1> QED
  BY <1>1

(* The scene is not one of the settings, which are finitely many.             *)
LEMMA UsedFinite == S3AConstants => IsFiniteSet(UsedSettings) /\ "Scene" \notin UsedSettings
<1>1. "Scene" \notin S3A!AllSettings
  BY DEF S3A!AllSettings, S3A!ExposureModes, S3A!FlashModes, S3A!FocusModes, S3A!WhitePoint, S3A!Tones,
         S3A!Colours, S3A!Effects, S3A!Locks, S3A!Areas, S3A!Algos
<1>2. IsFiniteSet(S3A!ExposureModes) /\ IsFiniteSet(S3A!WhitePoint) /\ IsFiniteSet(S3A!Colours) /\ IsFiniteSet(S3A!Locks)
  BY PairFinite DEF S3A!ExposureModes, S3A!WhitePoint, S3A!Colours, S3A!Locks
<1>3. IsFiniteSet(S3A!FlashModes) /\ IsFiniteSet(S3A!FocusModes) /\ IsFiniteSet(S3A!Effects) /\ IsFiniteSet(S3A!Areas)
  BY FS_Singleton DEF S3A!FlashModes, S3A!FocusModes, S3A!Effects, S3A!Areas
<1>4. IsFiniteSet(S3A!Tones)
  <2>1. S3A!Tones = {"Flicker", "Brightness"} \cup {"Contrast", "Sharpness"}
    BY DEF S3A!Tones
  <2> QED
    BY <2>1, PairFinite, FS_Union
<1>5. IsFiniteSet(S3A!Algos)
  <2>1. S3A!Algos = {"AlgoFixedGamma", "AlgoNSF1"} \cup {"AlgoNSF2", "AlgoSharpening"} \cup {"AlgoThreeLinColorMap", "AlgoGIC"}
    BY DEF S3A!Algos
  <2> QED
    BY <2>1, PairFinite, FS_Union
<1>6. IsFiniteSet(S3A!AllSettings)
  BY <1>2, <1>3, <1>4, <1>5, FS_Union DEF S3A!AllSettings
<1> QED
  BY <1>1, <1>6, FS_Subset DEF S3AConstants

LEMMA S3AInvInit == S3AConstants /\ S3A!Init => S3AInv
BY DEF S3AConstants, S3A!Init, S3AInv, S3A!TypeOK, S3A!SettingsReachComponent, S3A!Scenes, S3A!Values

(* setScene() leaves nothing behind that is neither marked nor missed, and    *)
(* misses nothing without a fault.                                            *)
LEMMA SetSceneKeeps ==
  ASSUME S3AConstants, S3AInv, NEW to \in S3A!Scenes, S3A!SetScene(to)
  PROVE  /\ configuredScene' \in S3A!Scenes /\ ("Scene" \notin missed' => configuredScene' = to)
         /\ wanted' \in [UsedSettings -> S3A!Values] /\ configured' \in [UsedSettings -> S3A!Values]
         /\ missed' \subseteq UsedSettings \cup {"Scene"} /\ lostMarks' \subseteq UsedSettings \cup {"Scene"}
         /\ settingFaults' \in 0 .. SettingFaults
         /\ settingFaults' = 0 => settingFaults = 0 /\ missed' \subseteq missed
         /\ \A s \in UsedSettings \ (pending \cup missed' \cup lostMarks') : configured'[s] = wanted'[s]
<1>1. PICK failed \in SUBSET ({"Scene"} \cup (UsedSettings \cap (S3A!ReadBack \cup S3A!Resets))),
           reset \in SUBSET (UsedSettings \cap S3A!Resets) : S3A!SetScene(to)!(failed, reset)
  BY DEF S3A!SetScene
<1> DEFINE preset == {s \in UsedSettings \cap S3A!ReadBack : to # "Manual" /\ "Scene" \notin failed}
           again == {s \in UsedSettings \cap S3A!Resets : wanted[s] # 0}
           done == ({"Scene"} \cup preset \cup again) \ failed
<1>2. /\ failed \subseteq {"Scene"} \cup preset \cup again
      /\ settingFaults' = settingFaults + Cardinality(failed) /\ settingFaults' <= SettingFaults
      /\ configuredScene' = IF "Scene" \in failed THEN configuredScene ELSE to
      /\ missed' = (missed \ done) \cup failed /\ lostMarks' = lostMarks \ done
  BY <1>1, S3ACardinality
<1>3. PICK chosen \in [preset -> S3A!Values] :
        /\ wanted' = [s \in UsedSettings |-> IF s \in preset \cap done THEN chosen[s] ELSE wanted[s]]
        /\ configured' = [s \in UsedSettings |-> IF s \in preset THEN chosen[s]
                           ELSE IF s \in again \cap done THEN wanted[s] ELSE IF s \in reset THEN 0 ELSE configured[s]]
  BY <1>1
<1>4. /\ "Scene" \notin UsedSettings /\ preset \subseteq UsedSettings /\ again \subseteq UsedSettings
      /\ \A s \in reset : s \notin again => wanted[s] = 0
      /\ again \cap preset = {} /\ reset \cap preset = {}
  BY UsedFinite DEF S3A!ReadBack, S3A!Resets
<1>5. done = ({"Scene"} \cup preset \cup again) \ failed
  OBVIOUS
<1>6. wanted \in [UsedSettings -> S3A!Values] /\ configured \in [UsedSettings -> S3A!Values] /\ 0 \in S3A!Values
      /\ missed \subseteq UsedSettings \cup {"Scene"} /\ lostMarks \subseteq UsedSettings \cup {"Scene"}
      /\ settingFaults \in 0 .. SettingFaults /\ SettingFaults \in Nat /\ configuredScene \in S3A!Scenes
  BY DEF S3AInv, S3A!TypeOK, S3A!Values, S3AConstants
<1>7. IsFiniteSet(failed) /\ Cardinality(failed) \in Nat /\ (Cardinality(failed) = 0 => failed = {})
  <2>1. IsFiniteSet(UsedSettings \cup {"Scene"}) /\ failed \subseteq UsedSettings \cup {"Scene"}
    BY <1>2, <1>4, UsedFinite, FS_Singleton, FS_Union
  <2> QED
    BY <2>1, FS_Subset, FS_CardinalityType, FS_EmptySet
<1>8. \A s \in UsedSettings \ (pending \cup missed \cup lostMarks) : configured[s] = wanted[s]
  BY DEF S3AInv, S3A!SettingsReachComponent
<1> HIDE DEF preset, again, done, S3AInv
<1>9. wanted' \in [UsedSettings -> S3A!Values] /\ configured' \in [UsedSettings -> S3A!Values]
  BY <1>3, <1>4, <1>6
<1>10. settingFaults' \in 0 .. SettingFaults /\ (settingFaults' = 0 => settingFaults = 0 /\ failed = {})
  BY <1>2, <1>6, <1>7
<1>11. ASSUME NEW s \in UsedSettings \ (pending \cup missed' \cup lostMarks') PROVE configured'[s] = wanted'[s]
  <2>1. s \notin failed /\ s \notin pending /\ (s \notin done => s \notin missed /\ s \notin lostMarks)
    BY <1>2
  <2>2. CASE s \in preset
    BY <1>3, <1>5, <2>1, <2>2
  <2>3. CASE s \in again
    BY <1>3, <1>4, <1>5, <2>1, <2>3
  <2>4. CASE s \notin preset /\ s \notin again
    <3>1. s \notin done
      BY <1>4, <1>5, <2>4
    <3>2. configured[s] = wanted[s]
      BY <1>8, <2>1, <3>1
    <3>3. wanted'[s] = wanted[s] /\ configured'[s] = IF s \in reset THEN 0 ELSE configured[s]
      BY <1>3, <2>4
    <3> QED
      BY <1>4, <2>4, <3>2, <3>3
  <2> QED
    BY <2>2, <2>3, <2>4
<1>12. missed' \subseteq UsedSettings \cup {"Scene"} /\ lostMarks' \subseteq UsedSettings \cup {"Scene"}
  BY <1>2, <1>4, <1>6
<1>13. configuredScene' \in S3A!Scenes /\ ("Scene" \notin missed' => configuredScene' = to)
  BY <1>2, <1>6
<1> QED
  BY <1>2, <1>9, <1>10, <1>11, <1>12, <1>13

(* A write of another thread adds nothing but the focus mode.                 *)
LEMMA UndoneType ==
  ASSUME NEW changes, NEW undone \in S3A!Undone(changes) PROVE undone \subseteq changes /\ S3A!Marker(undone) \subseteq UsedSettings
BY DEF S3A!Undone, S3A!Marker, S3A!FocusModes

LEMMA AtOnce ==
  ASSUME S3AConstants, S3AInv, NEW to \in S3A!Scenes, S3A!SetSceneAtOnce(to) PROVE S3AInv'
<1>1. to # "Manual" /\ scene' = to /\ S3A!SetScene(to) /\ mFirstTimeInit' = FALSE
      /\ UNCHANGED <<pending, previewing, focusing>>
  BY DEF S3A!SetSceneAtOnce
<1> QED
  BY <1>1, SetSceneKeeps DEF S3AInv, S3A!TypeOK, S3A!SettingsReachComponent

LEMMA Parameters ==
  ASSUME S3AConstants, S3AInv, NEW to \in S3A!Scenes, NEW values \in [UsedSettings -> S3A!Values], S3A!SetParameters3A(to, values)
  PROVE  S3AInv'
<1> DEFINE noted == S3A!Marked(values, mFirstTimeInit \/ (scene # to /\ to = "Manual"))
           all == noted \cup IF mFirstTimeInit \/ scene # to THEN {"Scene"} ELSE {}
<1>1. PICK lost \in S3A!Undone(all \ pending) :
        /\ pending' = pending \cup (all \ lost) \cup S3A!Marker(lost) /\ lostMarks' = (lostMarks \ all) \cup lost
        /\ missed' = missed \ all
        /\ scene' = to /\ wanted' = values /\ mFirstTimeInit' = FALSE
        /\ UNCHANGED <<configured, configuredScene, previewing, focusing, settingFaults>>
  BY DEF S3A!SetParameters3A
<1>2. /\ noted \subseteq UsedSettings
      /\ \A s \in UsedSettings \ noted : values[s] = wanted[s]
      /\ scene # to /\ to = "Manual" => S3A!Forced \cap UsedSettings \subseteq noted
  BY DEF S3A!Marked
<1>3. /\ noted \subseteq all /\ all \subseteq noted \cup {"Scene"} /\ (scene # to => "Scene" \in all)
      /\ ("Scene" \in all => mFirstTimeInit \/ scene # to)
  BY <1>2, UsedFinite
<1>4. lost \subseteq all /\ S3A!Marker(lost) \subseteq UsedSettings
  BY UndoneType
<1>5. "Scene" \notin UsedSettings
  BY UsedFinite
<1> HIDE DEF noted, all
<1>6. S3A!TypeOK'
  BY <1>1, <1>2, <1>3, <1>4 DEF S3AInv, S3A!TypeOK
<1>7. ("Scene" \notin pending \cup lostMarks \cup missed => configuredScene = scene)'
  BY <1>1, <1>3 DEF S3AInv, S3A!SettingsReachComponent
<1>8. \A s \in UsedSettings \ (pending' \cup missed' \cup lostMarks') : configured'[s] = wanted'[s]
  BY <1>1, <1>2, <1>3, <1>5 DEF S3AInv, S3A!SettingsReachComponent
<1>9. (scene = "Manual" /\ settingFaults = 0 => missed \cap (S3A!Forced \cup {"Scene"}) \subseteq S3A!FocusModes)'
  BY <1>1, <1>2, <1>3 DEF S3AInv, S3A!TypeOK, S3A!SettingsReachComponent
<1> QED
  BY <1>1, <1>6, <1>7, <1>8, <1>9 DEF S3AInv, S3A!SettingsReachComponent

LEMMA Scene ==
  ASSUME S3AConstants, S3AInv, S3A!ApplyScene PROVE S3AInv'
<1>1. "Scene" \notin UsedSettings
  BY UsedFinite
<1>2. PICK back \in S3A!Undone({"Scene"}) :
        /\ pending' = (pending \ {"Scene"}) \cup back \cup S3A!Marker(back) /\ S3A!SetScene(scene)
        /\ UNCHANGED <<scene, mFirstTimeInit, previewing, focusing>>
  BY DEF S3A!ApplyScene
<1>3. scene \in S3A!Scenes /\ S3A!TypeOK
  BY DEF S3AInv, S3A!TypeOK
<1>4. back \subseteq {"Scene"} /\ S3A!Marker(back) \subseteq UsedSettings
  BY UndoneType
<1> QED
  BY <1>1, <1>2, <1>3, <1>4, SetSceneKeeps DEF S3AInv, S3A!TypeOK, S3A!SettingsReachComponent

LEMMA Settings ==
  ASSUME S3AConstants, S3AInv, NEW refused \in SUBSET UsedSettings, S3A!ApplySettings(refused) PROVE S3AInv'
<1> DEFINE set == S3A!Allowed \ (refused \cup IF focusing THEN S3A!FocusModes ELSE {})
<1>1. /\ pending # {} /\ "Scene" \notin pending /\ refused \subseteq S3A!Allowed
      /\ settingFaults' = settingFaults + Cardinality(refused) /\ settingFaults' <= SettingFaults
      /\ configured' = [s \in UsedSettings |-> IF s \in set THEN wanted[s] ELSE configured[s]]
      /\ missed' = (missed \cup ((pending \cap UsedSettings) \ set)) \ set
      /\ lostMarks' = lostMarks \ set
      /\ UNCHANGED <<scene, wanted, mFirstTimeInit, configuredScene, previewing, focusing>>
  BY S3ACardinality DEF S3A!ApplySettings
<1>2. IsFiniteSet(refused) /\ Cardinality(refused) \in Nat /\ (Cardinality(refused) = 0 => refused = {})
  BY UsedFinite, FS_Subset, FS_CardinalityType, FS_EmptySet
<1>3. PICK back \in S3A!Undone(pending) : pending' = back \cup S3A!Marker(back)
  BY DEF S3A!ApplySettings
<1>4. pending' \subseteq UsedSettings
  BY <1>1, <1>3, UndoneType DEF S3AInv, S3A!TypeOK
<1>5. set \subseteq pending /\ (scene = "Manual" /\ refused = {} => pending \ set \subseteq S3A!FocusModes)
  BY DEF S3A!Allowed
<1> HIDE DEF set
<1>6. settingFaults \in Nat /\ settingFaults' \in 0 .. SettingFaults
      /\ (settingFaults' = 0 => settingFaults = 0 /\ refused = {})
  BY <1>1, <1>2 DEF S3AInv, S3A!TypeOK, S3AConstants
<1>7. S3A!TypeOK'
  <2>1. configured' \in [UsedSettings -> S3A!Values]
    BY <1>1 DEF S3AInv, S3A!TypeOK
  <2> QED
    BY <1>1, <1>6, <1>4, <2>1 DEF S3AInv, S3A!TypeOK
<1>8. \A s \in UsedSettings \ (pending' \cup missed' \cup lostMarks') : configured'[s] = wanted'[s]
  BY <1>1, <1>5 DEF S3AInv, S3A!TypeOK, S3A!SettingsReachComponent
<1>9. scene' = "Manual" /\ settingFaults' = 0 => missed' \cap (S3A!Forced \cup {"Scene"}) \subseteq S3A!FocusModes
  BY <1>1, <1>5, <1>6 DEF S3AInv, S3A!SettingsReachComponent
<1>10. ("Scene" \notin pending \cup lostMarks \cup missed => configuredScene = scene)'
  BY <1>1, <1>5 DEF S3AInv, S3A!SettingsReachComponent
<1> QED
  BY <1>1, <1>7, <1>8, <1>9, <1>10 DEF S3AInv, S3A!SettingsReachComponent

LEMMA S3AInvStep == S3AConstants /\ S3AInv /\ [S3A!Next]_S3A!settingVars => S3AInv'
<1> SUFFICES ASSUME S3AConstants, S3AInv, [S3A!Next]_S3A!settingVars PROVE S3AInv'
  OBVIOUS
<1>1. CASE UNCHANGED S3A!settingVars
  BY <1>1 DEF S3A!settingVars, S3AInv, S3A!TypeOK, S3A!SettingsReachComponent
<1>2. CASE \E to \in S3A!Scenes : S3A!SetSceneAtOnce(to)
  BY <1>2, AtOnce
<1>3. CASE \E to \in S3A!Scenes : \E values \in [UsedSettings -> S3A!Values] : S3A!SetParameters3A(to, values)
  BY <1>3, Parameters
<1>4. CASE S3A!Apply
  BY <1>4, Scene, Settings DEF S3A!Apply
<1>5. CASE S3A!MarkFocus
  BY <1>5 DEF S3A!MarkFocus, S3AInv, S3A!TypeOK, S3A!SettingsReachComponent
<1>6. CASE S3A!StartPreview
  BY <1>6 DEF S3A!StartPreview, S3AInv, S3A!TypeOK, S3A!SettingsReachComponent
<1>7. CASE S3A!StopPreview
  BY <1>7 DEF S3A!StopPreview, S3AInv, S3A!TypeOK, S3A!SettingsReachComponent
<1>8. CASE S3A!AutoFocus
  BY <1>8 DEF S3A!AutoFocus, S3AInv, S3A!TypeOK, S3A!SettingsReachComponent
<1> QED
  BY <1>1, <1>2, <1>3, <1>4, <1>5, <1>6, <1>7, <1>8 DEF S3A!Next

(* Whatever the component has not, the adapter has noted, or has given up;   *)
(* and the scene the component has is the one asked for or noted.            *)
THEOREM SettingsReach == ASSUME S3AConstants PROVE S3A!Spec => [](S3A!TypeOK /\ S3A!SettingsReachComponent)
<1>1. S3A!Init => S3AInv
  BY S3AInvInit
<1>2. S3AInv /\ [S3A!Next]_S3A!settingVars => S3AInv'
  BY S3AInvStep
<1>3. S3AInv => S3A!TypeOK /\ S3A!SettingsReachComponent
  BY DEF S3AInv
<1> QED
  BY <1>1, <1>2, <1>3, PTL DEF S3A!Spec

-----------------------------------------------------------------------------
(* Settings of pictures                                                      *)

Cache == [values : [UsedCapture -> {0, 1}], marks : SUBSET UsedCapture]

PicturesTypes ==
  /\ Pictures!TypeOK /\ UsedCapture \subseteq Pictures!AllCapture /\ mCaptureConfigured \in BOOLEAN
  /\ captureCalls \in Nat /\ captureFaults \in Nat /\ pictureAsked \in Cache
  /\ refusedCapture \subseteq Pictures!PortSettings \cup {"Rotation"}

(* A change that the next step of the command handler has not seen is noted, *)
(* unless its mark was lost.                                                  *)
ChangeIsMarked ==
  picturePc \in {"posted", "rotated"} =>
    \A s \in UsedCapture \cap Pictures!ShotSettings : asked[s] = pictureAsked.values[s] \/ s \in pendingCapture \cup overtaken

(* The component has the burst that the picture was asked with, unless the    *)
(* handler is still to give it or a change was overtaken before.              *)
BurstIsSet ==
  ("Burst" \in UsedCapture /\ givenSettings["Burst"] # pictureAsked.values["Burst"] /\ "Burst" \notin overtaken) =>
    /\ picturePc \in {"posted", "rotated"} => "Burst" \in pictureAsked.marks
    /\ picturePc # "applied"

PicturesInv == PicturesTypes /\ Pictures!NoSettingLost /\ Pictures!BuffersOfFormat /\ ChangeIsMarked /\ BurstIsSet

LEMMA PicturesInvInit == UsedCapture \subseteq Pictures!AllCapture /\ Pictures!Init => PicturesInv
<1> SUFFICES ASSUME UsedCapture \subseteq Pictures!AllCapture, Pictures!Init PROVE PicturesInv
  OBVIOUS
<1>1. PicturesTypes
  <2>1. asked \in [UsedCapture -> {0, 1}]
    BY DEF Pictures!Init
  <2>2. pictureAsked \in Cache /\ givenSettings \in [UsedCapture -> {0, 1}]
    BY <2>1 DEF Pictures!Init, Cache
  <2>3. mCaptureConfigured \in BOOLEAN
    BY DEF Pictures!Init
  <2>4. captureCalls \in Nat /\ captureFaults \in Nat /\ expected \in 0 .. 2 /\ left \in 0 .. 2
    BY DEF Pictures!Init
  <2>5. picturePc = "none" /\ pendingCapture = {} /\ refusedCapture = {}
    BY DEF Pictures!Init
  <2> QED
    BY <2>1, <2>2, <2>3, <2>4, <2>5 DEF PicturesTypes, Pictures!TypeOK
<1>2. Pictures!NoSettingLost /\ Pictures!BuffersOfFormat /\ ChangeIsMarked /\ BurstIsSet
  BY DEF Pictures!Init, Pictures!NoSettingLost, Pictures!BuffersOfFormat, ChangeIsMarked, BurstIsSet
<1> QED
  BY <1>1, <1>2 DEF PicturesInv

LEMMA FramesType == ASSUME NEW values \in [UsedCapture -> {0, 1}] PROVE Pictures!Frames(values) \in 1 .. 2
BY DEF Pictures!Frames

(* Marks are lost during a capture only.                                      *)
LEMMA TornMarks ==
  ASSUME NEW values, NEW lost \in Pictures!Torn(values) PROVE lost \in SUBSET UsedCapture /\ (lost # {} => Pictures!InCapture)
<1>1. Pictures!HandlerClears => Pictures!InCapture
  BY DEF Pictures!HandlerClears, Pictures!InCapture
<1> QED
  BY <1>1 DEF Pictures!Torn, Pictures!Marks

LEMMA SetParametersStep == ASSUME PicturesInv, Pictures!SetParametersCapture PROVE PicturesInv'
<1>1. PICK values \in [UsedCapture -> {0, 1}], lost \in SUBSET UsedCapture :
        LET marks == pendingCapture \cup Pictures!Marks(values)
            renew == marks \ {"ExpBracket"} # {} /\ ~Pictures!InCapture
        IN /\ asked' = values /\ (lost # {} => Pictures!InCapture)
           /\ mCaptureConfigured' = (mCaptureConfigured /\ ~renew)
           /\ IF renew /\ "Format" \in marks
                THEN /\ pendingCapture' = marks \ {"Format"}
                     /\ \/ /\ givenSettings' = [givenSettings EXCEPT !["Format"] = values["Format"]]
                           /\ refusedCapture' = refusedCapture \ marks /\ UNCHANGED captureFaults
                        \/ /\ Pictures!CaptureFault /\ refusedCapture' = (refusedCapture \ marks) \cup {"Format"}
                           /\ UNCHANGED givenSettings
                ELSE /\ pendingCapture' = marks \ lost /\ refusedCapture' = refusedCapture \ marks
                     /\ UNCHANGED <<givenSettings, captureFaults>>
           /\ overtaken' = IF Pictures!InCapture THEN overtaken \cup lost ELSE overtaken \ marks
  BY TornMarks DEF Pictures!SetParametersCapture
<1> DEFINE marks == pendingCapture \cup Pictures!Marks(values)
           renew == marks \ {"ExpBracket"} # {} /\ ~Pictures!InCapture
<1>2. /\ picturePc # "dead" /\ captureCalls' = captureCalls + 1
      /\ UNCHANGED <<pictureAsked, picturePc, portFormat, expected, left>>
  BY DEF Pictures!SetParametersCapture
<1>3. pendingCapture \subseteq marks /\ marks \subseteq UsedCapture /\ \A s \in UsedCapture \ marks : values[s] = asked[s]
  BY DEF Pictures!Marks, PicturesInv, PicturesTypes, Pictures!TypeOK
<1>4. /\ asked' = values /\ mCaptureConfigured' = (mCaptureConfigured /\ ~renew)
      /\ overtaken' = (IF Pictures!InCapture THEN overtaken \cup lost ELSE overtaken \ marks) /\ (lost # {} => Pictures!InCapture)
  BY <1>1
<1>5. \/ /\ renew /\ "Format" \in marks /\ pendingCapture' = marks \ {"Format"}
         /\ givenSettings' = [givenSettings EXCEPT !["Format"] = values["Format"]]
         /\ refusedCapture' = refusedCapture \ marks /\ UNCHANGED captureFaults
      \/ /\ renew /\ "Format" \in marks /\ pendingCapture' = marks \ {"Format"}
         /\ captureFaults' = captureFaults + 1 /\ refusedCapture' = (refusedCapture \ marks) \cup {"Format"}
         /\ UNCHANGED givenSettings
      \/ /\ pendingCapture' = marks \ lost /\ refusedCapture' = refusedCapture \ marks
         /\ UNCHANGED <<givenSettings, captureFaults>>
  BY <1>1 DEF Pictures!CaptureFault
<1>6. renew => picturePc \notin {"posted", "rotated", "applied"}
  BY DEF Pictures!InCapture
<1>7. picturePc \in {"posted", "rotated", "applied"} => Pictures!InCapture
  BY DEF Pictures!InCapture
<1> HIDE DEF marks, renew
<1>8. PicturesTypes'
  <2>1. givenSettings' \in [UsedCapture -> {0, 1}] /\ captureFaults' \in Nat
    BY <1>3, <1>5 DEF PicturesInv, PicturesTypes, Pictures!TypeOK
  <2>2. pendingCapture' \subseteq UsedCapture /\ refusedCapture' \subseteq Pictures!PortSettings \cup {"Rotation"}
    BY <1>3, <1>5 DEF PicturesInv, PicturesTypes, Pictures!PortSettings
  <2> QED
    BY <1>2, <1>4, <2>1, <2>2 DEF PicturesInv, PicturesTypes, Pictures!TypeOK
<1>9. Pictures!NoSettingLost'
  BY <1>2, <1>3, <1>4, <1>5 DEF PicturesInv, PicturesTypes, Pictures!TypeOK, Pictures!NoSettingLost
<1>10. Pictures!BuffersOfFormat'
  BY <1>2, <1>3, <1>4, <1>5 DEF PicturesInv, PicturesTypes, Pictures!BuffersOfFormat
<1>11. ChangeIsMarked'
  BY <1>2, <1>3, <1>4, <1>5, <1>6 DEF PicturesInv, ChangeIsMarked
<1>12. BurstIsSet'
  BY <1>2, <1>4, <1>5, <1>6, <1>7 DEF PicturesInv, BurstIsSet
<1> QED
  BY <1>8, <1>9, <1>10, <1>11, <1>12 DEF PicturesInv

(* The setters of the image port: the first n succeed.                        *)
LEMMA SetUpStep == ASSUME PicturesInv, Pictures!UseBuffersCapture, ~mCaptureConfigured, NEW n \in 0 .. 3, Pictures!SetUp(n) PROVE PicturesInv'
<1> DEFINE done == {Pictures!Order[i] : i \in 1 .. n} \cap {s \in UsedCapture : Pictures!Due(s)}
<1>1. /\ picturePc = "none" /\ expected' = Pictures!Frames(asked) /\ pictureAsked' = [Pictures!Cached EXCEPT !.marks = pendingCapture']
      /\ UNCHANGED <<asked, left, overtaken, captureCalls>>
  BY DEF Pictures!UseBuffersCapture
<1>2. givenSettings' = [s \in UsedCapture |-> IF s \in done THEN asked[s] ELSE givenSettings[s]]
  BY DEF Pictures!SetUp
<1>3. done \subseteq UsedCapture \cap Pictures!PortSettings
  BY DEF Pictures!Order, Pictures!PortSettings
<1>4. pictureAsked' = [values |-> asked, marks |-> pendingCapture']
  BY <1>1 DEF Pictures!Cached
<1>5. Pictures!Frames(asked) \in 1 .. 2
  BY FramesType DEF PicturesInv, PicturesTypes, Pictures!TypeOK
<1>6. CASE n = 3
  <2>1. /\ pendingCapture' = pendingCapture \ Pictures!PortSettings /\ refusedCapture' = refusedCapture \ done
        /\ mCaptureConfigured' = TRUE /\ picturePc' = "posted" /\ UNCHANGED captureFaults
        /\ portFormat' = IF "Format" \in UsedCapture THEN asked["Format"] ELSE 0
    BY <1>6 DEF Pictures!SetUp
  <2>2. UsedCapture \cap Pictures!PortSettings \cap pendingCapture \subseteq done /\ ("Format" \in UsedCapture => "Format" \in done)
    BY <1>6 DEF Pictures!Order, Pictures!PortSettings, Pictures!Due
  <2> HIDE DEF done
  <2>3. PicturesTypes'
    <3>1. givenSettings' \in [UsedCapture -> {0, 1}]
      BY <1>2 DEF PicturesInv, PicturesTypes, Pictures!TypeOK
    <3>2. pictureAsked' \in Cache
      BY <1>4, <2>1 DEF PicturesInv, PicturesTypes, Pictures!TypeOK, Cache
    <3> QED
      BY <1>1, <1>5, <2>1, <3>1, <3>2 DEF PicturesInv, PicturesTypes, Pictures!TypeOK
  <2>4. Pictures!NoSettingLost'
    BY <1>1, <1>2, <1>3, <2>1, <2>2 DEF PicturesInv, PicturesTypes, Pictures!TypeOK, Pictures!NoSettingLost
  <2>5. Pictures!BuffersOfFormat'
    BY <1>2, <2>1, <2>2 DEF Pictures!BuffersOfFormat
  <2>6. ChangeIsMarked'
    BY <1>1, <1>4 DEF ChangeIsMarked
  <2>7. BurstIsSet'
    BY <1>1, <1>2, <1>3, <1>4, <2>1 DEF PicturesInv, PicturesTypes, Pictures!TypeOK, Pictures!NoSettingLost,
                                        BurstIsSet, Pictures!PortSettings
  <2> QED
    BY <2>3, <2>4, <2>5, <2>6, <2>7 DEF PicturesInv
<1>7. CASE n # 3
  <2>1. /\ Pictures!Due(Pictures!Order[n + 1]) /\ captureFaults' = captureFaults + 1
        /\ pendingCapture' = pendingCapture \ {Pictures!Order[i] : i \in 1 .. n + 1}
        /\ refusedCapture' = (refusedCapture \ done) \cup {Pictures!Order[n + 1]}
        /\ picturePc' \in {"none", "dead"} /\ UNCHANGED <<mCaptureConfigured, portFormat>>
    BY <1>7 DEF Pictures!SetUp, Pictures!CaptureFault
  <2>2. n \in {0, 1, 2}
    BY <1>7
  <2>3. Pictures!Order[n + 1] \in UsedCapture \cap Pictures!PortSettings
    BY <2>1, <2>2 DEF Pictures!Due, Pictures!Order, Pictures!PortSettings
  <2>4. {Pictures!Order[i] : i \in 1 .. n + 1} \cap UsedCapture \cap pendingCapture \subseteq done \cup {Pictures!Order[n + 1]}
    BY <2>2 DEF Pictures!Order, Pictures!Due
  <2> HIDE DEF done
  <2>5. PicturesTypes'
    <3>1. givenSettings' \in [UsedCapture -> {0, 1}]
      BY <1>2 DEF PicturesInv, PicturesTypes, Pictures!TypeOK
    <3>2. pictureAsked' \in Cache
      BY <1>4, <2>1 DEF PicturesInv, PicturesTypes, Pictures!TypeOK, Cache
    <3>3. refusedCapture' \subseteq Pictures!PortSettings \cup {"Rotation"} /\ pendingCapture' \subseteq UsedCapture
      BY <2>1, <2>3 DEF PicturesInv, PicturesTypes, Pictures!TypeOK
    <3> QED
      BY <1>1, <1>5, <2>1, <3>1, <3>2, <3>3 DEF PicturesInv, PicturesTypes, Pictures!TypeOK
  <2>6. Pictures!NoSettingLost'
    BY <1>1, <1>2, <1>3, <2>1, <2>4 DEF PicturesInv, PicturesTypes, Pictures!TypeOK, Pictures!NoSettingLost
  <2>7. Pictures!BuffersOfFormat' /\ ChangeIsMarked' /\ BurstIsSet'
    BY <2>1 DEF Pictures!BuffersOfFormat, ChangeIsMarked, BurstIsSet
  <2> QED
    BY <2>5, <2>6, <2>7 DEF PicturesInv
<1> QED
  BY <1>6, <1>7

LEMMA UseBuffersStep == ASSUME PicturesInv, Pictures!UseBuffersCapture PROVE PicturesInv'
<1>1. CASE Pictures!Configured
  <2>1. /\ picturePc = "none" /\ picturePc' = "posted" /\ expected' = Pictures!Frames(asked)
        /\ pictureAsked' = [values |-> asked, marks |-> pendingCapture]
        /\ UNCHANGED <<asked, left, overtaken, captureCalls, givenSettings, pendingCapture, mCaptureConfigured,
                       portFormat, refusedCapture, captureFaults>>
    BY <1>1 DEF Pictures!UseBuffersCapture, Pictures!Configured, Pictures!Cached
  <2>2. Pictures!Frames(asked) \in 1 .. 2
    BY FramesType DEF PicturesInv, PicturesTypes, Pictures!TypeOK
  <2>3. PicturesTypes'
    BY <2>1, <2>2 DEF PicturesInv, PicturesTypes, Pictures!TypeOK, Cache
  <2>4. Pictures!NoSettingLost' /\ Pictures!BuffersOfFormat' /\ ChangeIsMarked'
    BY <2>1 DEF PicturesInv, Pictures!NoSettingLost, Pictures!BuffersOfFormat, ChangeIsMarked
  <2>5. BurstIsSet'
    BY <2>1 DEF PicturesInv, PicturesTypes, Pictures!NoSettingLost, BurstIsSet, Pictures!PortSettings
  <2> QED
    BY <2>3, <2>4, <2>5 DEF PicturesInv
<1> QED
  BY <1>1, SetUpStep DEF Pictures!UseBuffersCapture

LEMMA RotationStep == ASSUME PicturesInv, Pictures!ApplyRotation PROVE PicturesInv'
<1>1. /\ picturePc = "posted" /\ picturePc' = "rotated"
      /\ pendingCapture' = pendingCapture \ ({"Rotation"} \cap pictureAsked.marks)
      /\ UNCHANGED <<asked, pictureAsked, mCaptureConfigured, portFormat, expected, left, overtaken, captureCalls>>
  BY DEF Pictures!ApplyRotation
<1>2. \/ /\ "Rotation" \notin pictureAsked.marks /\ UNCHANGED <<givenSettings, captureFaults, refusedCapture>>
      \/ /\ "Rotation" \in pictureAsked.marks /\ refusedCapture' = refusedCapture /\ UNCHANGED captureFaults
         /\ givenSettings' = [givenSettings EXCEPT !["Rotation"] = asked["Rotation"]]
      \/ /\ "Rotation" \in pictureAsked.marks /\ refusedCapture' = refusedCapture \cup {"Rotation"}
         /\ captureFaults' = captureFaults + 1 /\ UNCHANGED givenSettings
  BY DEF Pictures!ApplyRotation, Pictures!SetPictureRotation, Pictures!Unset, Pictures!CaptureFault,
         PicturesInv, PicturesTypes
<1>3. pictureAsked.marks \subseteq UsedCapture
  BY DEF PicturesInv, PicturesTypes, Cache
<1>4. PicturesTypes'
  BY <1>1, <1>2, <1>3 DEF PicturesInv, PicturesTypes, Pictures!TypeOK, Cache
<1>5. Pictures!NoSettingLost' /\ Pictures!BuffersOfFormat' /\ ChangeIsMarked'
  BY <1>1, <1>2, <1>3 DEF PicturesInv, PicturesTypes, Pictures!TypeOK, Pictures!NoSettingLost,
                          Pictures!BuffersOfFormat, ChangeIsMarked, Pictures!ShotSettings
<1>6. BurstIsSet'
  BY <1>1, <1>2, <1>3 DEF PicturesInv, PicturesTypes, Pictures!TypeOK, BurstIsSet
<1> QED
  BY <1>4, <1>5, <1>6 DEF PicturesInv

LEMMA BracketingStep == ASSUME PicturesInv, Pictures!DoExposureBracketing PROVE PicturesInv'
<1>1. /\ picturePc = "rotated"
      /\ UNCHANGED <<asked, pictureAsked, mCaptureConfigured, portFormat, expected, left, refusedCapture, captureCalls>>
  BY DEF Pictures!DoExposureBracketing
<1>2. CASE Pictures!ShotSettings \cap pictureAsked.marks = {}
  <2>1. picturePc' = "applied" /\ UNCHANGED <<givenSettings, pendingCapture, overtaken, captureFaults>>
    BY <1>2 DEF Pictures!DoExposureBracketing
  <2>2. "Burst" \notin pictureAsked.marks
    BY <1>2 DEF Pictures!ShotSettings
  <2> QED
    BY <1>1, <2>1, <2>2 DEF PicturesInv, PicturesTypes, Pictures!TypeOK, Pictures!NoSettingLost,
                            Pictures!BuffersOfFormat, ChangeIsMarked, BurstIsSet
<1>3. CASE Pictures!ShotSettings \cap pictureAsked.marks # {}
  <2>1. pendingCapture' = pendingCapture \ Pictures!ShotSettings /\ overtaken' = overtaken \cup Pictures!Missed(Pictures!ShotSettings)
    BY <1>3 DEF Pictures!DoExposureBracketing
  <2>2. CASE picturePc' = "applied"
    <3>1. givenSettings' = [s \in UsedCapture |-> IF s \in Pictures!ShotSettings THEN pictureAsked.values[s] ELSE givenSettings[s]]
          /\ UNCHANGED captureFaults
      BY <1>3, <2>2 DEF Pictures!DoExposureBracketing, Pictures!SetExposureBracketing
    <3>2. PicturesTypes'
      BY <1>1, <2>1, <2>2, <3>1 DEF PicturesInv, PicturesTypes, Pictures!TypeOK, Cache
    <3>3. Pictures!NoSettingLost'
      BY <1>1, <2>1, <2>2, <3>1 DEF PicturesInv, PicturesTypes, Pictures!TypeOK, Pictures!NoSettingLost,
                                    ChangeIsMarked, Pictures!Missed
    <3>4. Pictures!BuffersOfFormat' /\ ChangeIsMarked' /\ BurstIsSet'
      BY <1>1, <2>2, <3>1 DEF PicturesInv, Pictures!BuffersOfFormat, ChangeIsMarked, BurstIsSet,
                              Pictures!ShotSettings
    <3> QED
      BY <3>2, <3>3, <3>4 DEF PicturesInv
  <2>3. CASE picturePc' # "applied"
    <3>1. picturePc' = "dead" /\ captureFaults' = captureFaults + 1 /\ UNCHANGED givenSettings
      BY <1>3, <2>3 DEF Pictures!DoExposureBracketing, Pictures!CaptureFault
    <3> QED
      BY <1>1, <2>1, <3>1 DEF PicturesInv, PicturesTypes, Pictures!TypeOK, Pictures!NoSettingLost,
                              Pictures!BuffersOfFormat, ChangeIsMarked, BurstIsSet
  <2> QED
    BY <2>2, <2>3
<1> QED
  BY <1>2, <1>3

LEMMA QueueStep == ASSUME PicturesInv, Pictures!QueueBuffers PROVE PicturesInv'
<1>1. /\ picturePc = "applied" /\ picturePc' = "shooting" /\ left' = Pictures!Frames(givenSettings)
      /\ pendingCapture' = pendingCapture \ {"Burst"}
      /\ overtaken' = overtaken \cup {s \in {"Burst"} \cap pendingCapture : asked[s] # pictureAsked.values[s]}
      /\ UNCHANGED <<asked, givenSettings, pictureAsked, mCaptureConfigured, portFormat, expected, refusedCapture,
                     captureCalls, captureFaults>>
  BY DEF Pictures!QueueBuffers, Pictures!Missed, Pictures!calls
<1>2. Pictures!Frames(givenSettings) \in 1 .. 2
  BY FramesType DEF PicturesInv, PicturesTypes, Pictures!TypeOK
<1>3. PicturesTypes'
  BY <1>1, <1>2 DEF PicturesInv, PicturesTypes, Pictures!TypeOK
<1>4. Pictures!NoSettingLost'
  BY <1>1 DEF PicturesInv, PicturesTypes, Pictures!TypeOK, Pictures!NoSettingLost, BurstIsSet
<1>5. Pictures!BuffersOfFormat' /\ ChangeIsMarked' /\ BurstIsSet'
  BY <1>1 DEF PicturesInv, Pictures!BuffersOfFormat, ChangeIsMarked, BurstIsSet
<1> QED
  BY <1>3, <1>4, <1>5 DEF PicturesInv

(* Images, and the stop: the settings stay.                                   *)
LEMMA ShootingStep == ASSUME PicturesInv, Pictures!ImageTaken \/ Pictures!StopImageCapture PROVE PicturesInv'
<1>1. /\ picturePc \in {"shooting", "over"} /\ picturePc' \in {"none", "shooting", "over"}
      /\ left' \in 0 .. 2 /\ expected' \in 0 .. 2
      /\ UNCHANGED <<asked, givenSettings, pendingCapture, pictureAsked, mCaptureConfigured, portFormat,
                     refusedCapture, overtaken, captureCalls, captureFaults>>
  BY DEF Pictures!ImageTaken, Pictures!StopImageCapture, Pictures!calls, PicturesInv, PicturesTypes,
         Pictures!TypeOK
<1> QED
  BY <1>1 DEF PicturesInv, PicturesTypes, Pictures!TypeOK, Pictures!NoSettingLost, Pictures!BuffersOfFormat,
              ChangeIsMarked, BurstIsSet

LEMMA PicturesInvStep == PicturesInv /\ [Pictures!Next]_Pictures!captureVars => PicturesInv'
<1> SUFFICES ASSUME PicturesInv, [Pictures!Next]_Pictures!captureVars PROVE PicturesInv'
  OBVIOUS
<1>1. CASE UNCHANGED Pictures!captureVars
  BY <1>1 DEF Pictures!captureVars, PicturesInv, PicturesTypes, Pictures!TypeOK, Pictures!NoSettingLost,
              Pictures!BuffersOfFormat, ChangeIsMarked, BurstIsSet
<1>2. CASE Pictures!Next
  BY <1>2, SetParametersStep, UseBuffersStep, RotationStep, BracketingStep, QueueStep,
      ShootingStep DEF Pictures!Next
<1> QED
  BY <1>1, <1>2

LEMMA PicturesInvariance == ASSUME UsedCapture \subseteq Pictures!AllCapture PROVE Pictures!Spec => []PicturesInv
<1>1. Pictures!Init => PicturesInv
  BY PicturesInvInit
<1> QED
  BY <1>1, PicturesInvStep, PTL DEF Pictures!Spec

(* Whatever the component has not is noted for one of the next pictures,     *)
(* unless the component refused it or a picture unmarked a change that it had *)
(* not seen.                                                                  *)
THEOREM NothingLost == ASSUME UsedCapture \subseteq Pictures!AllCapture PROVE Pictures!Spec => [](Pictures!TypeOK /\ Pictures!NoSettingLost)
<1>1. PicturesInv => Pictures!TypeOK /\ Pictures!NoSettingLost
  BY DEF PicturesInv, PicturesTypes
<1> QED
  BY <1>1, PicturesInvariance, PTL

(* While the image port is configured its buffers are for the format that the *)
(* component has.                                                             *)
THEOREM FormatFits == ASSUME UsedCapture \subseteq Pictures!AllCapture PROVE Pictures!Spec => []Pictures!BuffersOfFormat
<1>1. PicturesInv => Pictures!BuffersOfFormat
  BY DEF PicturesInv
<1> QED
  BY <1>1, PicturesInvariance, PTL

-----------------------------------------------------------------------------
(* Zoom                                                                      *)

ZoomConstants == ZoomStages \in Nat \ {0} /\ ZoomFaults \in Nat

(* A smooth zoom that is to end has one more index in range.                  *)
ZoomInv ==
  /\ Zooming!TypeOK /\ Zooming!ZoomReachesComponent
  /\ zArg \in Zooming!Stages /\ inc \in {1, -1} /\ zFaults \in Nat
  /\ update \in BOOLEAN /\ ahead \in BOOLEAN /\ returnStatus \in BOOLEAN
  /\ returnStatus => current + inc \in -1 .. ZoomStages

LEMMA ZoomInvInit == ASSUME ZoomConstants, Zooming!Init PROVE ZoomInv
<1>1. /\ zState = "preview" /\ zNext = "preview" /\ zLock = "none" /\ zoomLock = "none"
      /\ zArg = 0 /\ current = 0 /\ target = 0 /\ applied = 0 /\ inc = 1 /\ keep = -1 /\ zFaults = 0
      /\ returnStatus = FALSE /\ update = FALSE /\ ahead = FALSE
  BY DEF Zooming!Init
<1>2. 0 \in Zooming!Stages /\ 0 \in -1 .. ZoomStages
  BY DEF ZoomConstants, Zooming!Stages
<1>3. Zooming!TypeOK
  BY <1>1, <1>2 DEF Zooming!TypeOK
<1> QED
  BY <1>1, <1>2, <1>3 DEF ZoomInv, Zooming!ZoomReachesComponent

(* doZoom() reaches an index in range, unless it fails.                       *)
LEMMA Reached ==
  ASSUME NEW i \in Int, Zooming!DoZoom(i), applied \in Zooming!Stages, zFaults \in Nat
  PROVE  /\ applied' \in Zooming!Stages /\ zFaults' \in Nat
         /\ zFaults' = 0 => zFaults = 0 /\ (i \in Zooming!Stages => applied' = i)
BY DEF Zooming!DoZoom

LEMMA ZoomCallStep ==
  ASSUME ZoomConstants, ZoomInv, Zooming!Calls
  PROVE  ZoomInv'
<1>1. /\ UNCHANGED <<zState, zNext, zLock, zoomLock, current, target, applied, ahead, inc, keep, returnStatus, update, zFaults>>
      /\ zArg' \in Zooming!Stages
  BY DEF ZoomInv, Zooming!Calls, Zooming!CallWith, Zooming!CallPlain, Zooming!Call, Zooming!zAdapter, Zooming!indices,
         Zooming!reached, Zooming!flags
<1> QED
  BY <1>1 DEF ZoomInv, Zooming!TypeOK, Zooming!ZoomReachesComponent, Zooming!Stages

LEMMA ZoomSetStep ==
  ASSUME ZoomConstants, ZoomInv, Zooming!SetParametersZoom
  PROVE  ZoomInv'
<1>1. UNCHANGED <<zState, zNext, zLock, zoomLock, zArg, inc, returnStatus>>
  BY DEF Zooming!SetParametersZoom, Zooming!zAdapter, Zooming!indices, Zooming!flags
<1>2. CASE zSeen.hal = "zoom"
  BY <1>1, <1>2 DEF Zooming!SetParametersZoom, Zooming!indices, Zooming!reached, Zooming!flags,
                    ZoomInv, Zooming!TypeOK, Zooming!ZoomReachesComponent, Zooming!Stages
<1>3. CASE zSeen.hal # "zoom"
  <2>1. target' = zArg /\ current' = zArg /\ keep' = zArg
    BY <1>3 DEF Zooming!SetParametersZoom
  <2>2. \/ Zooming!DoZoom(zArg) /\ ahead' = FALSE /\ update' = update
        \/ update' = TRUE /\ UNCHANGED <<applied, ahead, zFaults>>
    BY <1>3 DEF Zooming!SetParametersZoom, Zooming!reached
  <2>3. zArg \in Zooming!Stages /\ zArg \in Int /\ zArg \in -1 .. ZoomStages /\ zArg + inc \in -1 .. ZoomStages
    BY DEF ZoomConstants, ZoomInv, Zooming!Stages
  <2>4. /\ applied' \in Zooming!Stages /\ zFaults' \in Nat /\ update' \in BOOLEAN /\ ahead' \in BOOLEAN
        /\ ~update' /\ zFaults' = 0 => applied' = current'
    BY <2>1, <2>2, <2>3, Reached DEF ZoomInv, Zooming!TypeOK
  <2> QED
    BY <1>1, <2>1, <2>3, <2>4 DEF ZoomInv, Zooming!TypeOK, Zooming!ZoomReachesComponent
<1> QED
  BY <1>2, <1>3

LEMMA ZoomLockStep ==
  ASSUME ZoomConstants, ZoomInv,
         Zooming!SetState \/ Zooming!Commit \/ Zooming!GetParameters \/ Zooming!GetLeaves \/ Zooming!FrameArrives \/ Zooming!Leave
  PROVE  ZoomInv'
<1>1. /\ UNCHANGED <<current, target, applied, ahead, inc, keep, returnStatus, update, zFaults, zArg>>
      /\ {zState', zNext'} \subseteq {"preview", "zoom"} /\ {zLock', zoomLock'} \subseteq {"hal", "cb", "none"}
  BY DEF ZoomInv, Zooming!TypeOK, Zooming!SetState, Zooming!Commit, Zooming!GetParameters, Zooming!GetLeaves,
         Zooming!FrameArrives, Zooming!Leave, Zooming!zAdapter, Zooming!indices, Zooming!reached, Zooming!flags
<1> QED
  BY <1>1 DEF ZoomInv, Zooming!TypeOK, Zooming!ZoomReachesComponent, Zooming!Stages

LEMMA ZoomSmoothStep ==
  ASSUME ZoomConstants, ZoomInv, Zooming!StartSmoothZoom \/ Zooming!StopSmoothZoom
  PROVE  ZoomInv'
<1>1. UNCHANGED <<zState, zNext, zLock, zoomLock, current, applied, ahead, update, zFaults, zArg>>
  BY DEF Zooming!StartSmoothZoom, Zooming!StopSmoothZoom, Zooming!zAdapter, Zooming!reached
<1>2. /\ target' \in -1 .. ZoomStages /\ keep' \in Zooming!Stages \cup {-1} /\ inc' \in {1, -1} /\ returnStatus' \in BOOLEAN
      /\ returnStatus' => current + inc' \in -1 .. ZoomStages
  <2>1. /\ current \in -1 .. ZoomStages /\ target \in -1 .. ZoomStages /\ ZoomStages \in Nat /\ zArg \in Zooming!Stages
        /\ keep \in Zooming!Stages \cup {-1} /\ inc \in {1, -1} /\ returnStatus \in BOOLEAN
        /\ returnStatus => current + inc \in -1 .. ZoomStages
    BY DEF ZoomConstants, ZoomInv, Zooming!TypeOK
  <2>2. zArg \in -1 .. ZoomStages
    BY <2>1 DEF Zooming!Stages
  <2>3. CASE Zooming!StartSmoothZoom
    <3>1. target' = zArg /\ keep' = -1 /\ inc' = inc /\ returnStatus' = FALSE
      BY <2>3 DEF Zooming!StartSmoothZoom
    <3> QED
      BY <2>1, <2>2, <3>1
  <2>4. CASE Zooming!StopSmoothZoom
    <3>1. target' = target /\ keep' = keep
      BY <2>4 DEF Zooming!StopSmoothZoom
    <3>2. CASE target # current
      <4>1. inc' = Zooming!Direction /\ returnStatus' = TRUE
        BY <2>4, <3>2 DEF Zooming!StopSmoothZoom
      <4>2. inc' \in {1, -1} /\ current + inc' \in -1 .. ZoomStages
        BY <2>1, <3>2, <4>1 DEF Zooming!Direction
      <4> QED
        BY <2>1, <3>1, <4>1, <4>2
    <3>3. CASE target = current
      <4>1. inc' = inc /\ returnStatus' = returnStatus
        BY <2>4, <3>3 DEF Zooming!StopSmoothZoom
      <4> QED
        BY <2>1, <3>1, <4>1
    <3> QED
      BY <3>2, <3>3
  <2> QED
    BY <2>3, <2>4
<1> QED
  BY <1>1, <1>2 DEF ZoomInv, Zooming!TypeOK, Zooming!ZoomReachesComponent, Zooming!Stages

LEMMA ZoomFrameStep ==
  ASSUME ZoomConstants, ZoomInv, Zooming!AdvanceZoom
  PROVE  ZoomInv'
<1>1. UNCHANGED <<zState, zNext, zLock, zoomLock, zArg, keep, update>>
  BY DEF Zooming!AdvanceZoom, Zooming!zAdapter
<1>2. current \in -1 .. ZoomStages /\ target \in -1 .. ZoomStages /\ ZoomStages \in Nat
  BY DEF ZoomConstants, ZoomInv, Zooming!TypeOK
<1>3. CASE Zooming!Rest
  BY <1>1, <1>3 DEF Zooming!Rest, Zooming!reached, ZoomInv, Zooming!TypeOK, Zooming!ZoomReachesComponent,
     Zooming!Stages
<1>4. CASE Zooming!Return \/ Zooming!Move \/ Zooming!Jump
  <2>1. /\ current' \in -1 .. ZoomStages /\ target' \in -1 .. ZoomStages /\ inc' \in {1, -1} /\ returnStatus' = FALSE
        /\ ahead' = FALSE /\ Zooming!DoZoom(current')
    <3>1. ASSUME Zooming!Return PROVE current' = current + inc /\ target' = current' /\ inc' = inc /\ returnStatus
      BY <3>1 DEF Zooming!Return
    <3>2. ASSUME Zooming!Move PROVE inc' = Zooming!Direction /\ current' = current + inc' /\ target' = target /\ current # target
      BY <3>2 DEF Zooming!Move
    <3>3. ASSUME Zooming!Jump PROVE current' = target /\ inc' = inc /\ target' = target
      BY <3>3 DEF Zooming!Jump
    <3>4. ahead' = FALSE /\ returnStatus' = FALSE /\ Zooming!DoZoom(current')
      BY <1>4 DEF Zooming!Return, Zooming!Move, Zooming!Jump, ZoomInv
    <3>5. inc \in {1, -1} /\ (returnStatus => current + inc \in -1 .. ZoomStages)
      BY DEF ZoomInv
    <3>6. CASE Zooming!Return
      BY <3>1, <3>4, <3>5, <3>6
    <3>7. CASE Zooming!Move
      <4>1. inc' = (IF current < target THEN 1 ELSE -1) /\ current' = current + inc' /\ target' = target /\ current # target
        BY <3>2, <3>7 DEF Zooming!Direction
      <4>2. current' \in -1 .. ZoomStages /\ inc' \in {1, -1}
        BY <1>2, <4>1
      <4> QED
        BY <1>2, <3>4, <4>1, <4>2
    <3>8. CASE Zooming!Jump
      BY <1>2, <3>3, <3>4, <3>5, <3>8
    <3> QED
      BY <1>4, <3>6, <3>7, <3>8
  <2>2. applied' \in Zooming!Stages /\ zFaults' \in Nat /\ (zFaults' = 0 => (current' \in Zooming!Stages => applied' = current'))
    BY <2>1, Reached DEF ZoomInv, Zooming!TypeOK
  <2> QED
    BY <1>1, <2>1, <2>2 DEF ZoomInv, Zooming!TypeOK, Zooming!ZoomReachesComponent, Zooming!Stages
<1> QED
  BY <1>3, <1>4 DEF Zooming!AdvanceZoom

LEMMA ZoomFinishStep ==
  ASSUME ZoomConstants, ZoomInv, Zooming!Finish
  PROVE  ZoomInv'
<1>1. UNCHANGED <<zState, zNext, zLock, zArg, current, target, inc, keep, returnStatus>> /\ zoomLock' = "none" /\ update' = FALSE
  BY DEF Zooming!Finish, Zooming!zAdapter, Zooming!indices
<1>2. CASE ~update
  <2>1. UNCHANGED <<applied, ahead, zFaults>>
    BY <1>2 DEF Zooming!Finish, Zooming!reached
  <2> QED
    BY <1>1, <1>2, <2>1 DEF ZoomInv, Zooming!TypeOK, Zooming!ZoomReachesComponent, Zooming!Stages
<1>3. CASE update
  <2>1. Zooming!DoZoom(target) /\ ahead' = (target # current)
    BY <1>3 DEF Zooming!Finish
  <2>2. target \in Int /\ applied' \in Zooming!Stages /\ zFaults' \in Nat
        /\ (zFaults' = 0 => (target \in Zooming!Stages => applied' = target))
    BY <2>1, Reached DEF ZoomInv, Zooming!TypeOK
  <2> QED
    BY <1>1, <2>1, <2>2 DEF ZoomInv, Zooming!TypeOK, Zooming!ZoomReachesComponent, Zooming!Stages
<1> QED
  BY <1>2, <1>3 DEF ZoomInv

LEMMA ZoomInvStep == ASSUME ZoomConstants PROVE ZoomInv /\ [Zooming!Next]_(Zooming!zoomVars) => ZoomInv'
<1> SUFFICES ASSUME ZoomInv, [Zooming!Next]_(Zooming!zoomVars) PROVE ZoomInv'
  OBVIOUS
<1>1. CASE UNCHANGED Zooming!zoomVars
  BY <1>1 DEF Zooming!zoomVars, ZoomInv, Zooming!TypeOK, Zooming!ZoomReachesComponent, Zooming!Stages
<1>2. CASE Zooming!Next
  BY <1>2, ZoomCallStep, ZoomSetStep, ZoomLockStep, ZoomSmoothStep, ZoomFrameStep, ZoomFinishStep
     DEF Zooming!Next, Zooming!HalStep, Zooming!CbStep
<1> QED
  BY <1>1, <1>2

(* The component has the index the adapter believes in, unless it refused it  *)
(* or a smooth zoom was started while a change waited for the next frame.     *)
THEOREM ZoomReaches == ASSUME ZoomConstants PROVE Zooming!Spec => [](Zooming!TypeOK /\ Zooming!ZoomReachesComponent)
<1>1. Zooming!Init => ZoomInv
  BY ZoomInvInit
<1>2. ZoomInv /\ [Zooming!Next]_(Zooming!zoomVars) => ZoomInv'
  BY ZoomInvStep
<1>3. ZoomInv => Zooming!TypeOK /\ Zooming!ZoomReachesComponent
  BY DEF ZoomInv
<1> QED
  BY <1>1, <1>2, <1>3, PTL DEF Zooming!Spec

-----------------------------------------------------------------------------
(* Faces                                                                     *)

FaceConstants == FacePlaces \in Nat \ {0} /\ MaxFaces \in Nat

FacesInv == FD!TypeOK /\ faceScene \in FD!Scenes

(* A set of indices has a last one.                                           *)
LEMMA LastIndex ==
  ASSUME NEW n \in Nat, NEW S \in SUBSET (1 .. n), S # {}
  PROVE  \E j \in S : \A k \in S : k <= j
<1> DEFINE Less == {ss \in Nat \X Nat : ss[1] < ss[2]}
           T == {n - j : j \in S}
<1>1. IsWellFoundedOn(Less, Nat)
  BY NatLessThanWellFounded DEF OpToRel
<1>2. T \in SUBSET Nat /\ T # {}
  <2>1. ASSUME NEW j \in S PROVE n - j \in Nat
    OBVIOUS
  <2> QED
    BY <2>1
<1>3. PICK x \in T : \A y \in T : ~(<<y, x>> \in Less)
  <2> HIDE DEF Less, T
  <2> QED
    BY <1>1, <1>2, WFMin
<1>4. PICK j \in S : x = n - j
  OBVIOUS
<1>5. ASSUME NEW k \in S PROVE k <= j
  <2>1. n - k \in T /\ n - k \in Nat /\ x \in Nat /\ k \in Nat /\ j \in Nat
    BY <1>2, <1>4
  <2>2. ~(n - k < x)
    <3>1. <<n - k, x>> \in Nat \X Nat /\ ~(<<n - k, x>> \in Less)
      BY <1>3, <2>1
    <3> QED
      BY <3>1
  <2> QED
    BY <1>4, <2>1, <2>2
<1> QED
  BY <1>5

LEMMA SceneType ==
  ASSUME FaceConstants, NEW s \in FD!Scenes
  PROVE  /\ Len(s) \in 0 .. MaxFaces /\ DOMAIN s = 1 .. Len(s) /\ \A i \in 1 .. Len(s) : s[i] \in 0 .. FacePlaces - 1
<1>1. PICK n \in 0 .. MaxFaces : s \in [1 .. n -> 0 .. FacePlaces - 1]
  BY DEF FD!Scenes
<1>2. n \in Nat /\ s \in Seq(0 .. FacePlaces - 1)
  BY <1>1 DEF FaceConstants
<1>3. Len(s) = n
  BY <1>1, <1>2
<1> QED
  BY <1>1, <1>3

(* A face is put where an old one was that it is near to, if there is one.    *)
LEMMA FaceFiltered ==
  ASSUME FaceConstants, FacesInv, NEW f \in 0 .. FacePlaces - 1
  PROVE  FD!Filtered(f) \in 0 .. FacePlaces - 1 /\ FD!Near(FD!Filtered(f), f)
<1> DEFINE old == {j \in DOMAIN lastOutput : FD!Near(lastOutput[j], f)}
<1>1. /\ Len(lastOutput) \in Nat /\ DOMAIN lastOutput = 1 .. Len(lastOutput)
      /\ \A i \in 1 .. Len(lastOutput) : lastOutput[i] \in 0 .. FacePlaces - 1
  BY SceneType DEF FacesInv, FD!TypeOK, FaceConstants
<1>2. FD!Filtered(f) = IF old = {} THEN f ELSE lastOutput[CHOOSE j \in old : \A k \in old : k <= j]
  BY DEF FD!Filtered
<1>3. CASE old = {}
  BY <1>2, <1>3 DEF FD!Near
<1>4. CASE old # {}
  <2>1. old \in SUBSET (1 .. Len(lastOutput))
    BY <1>1
  <2> DEFINE j == CHOOSE j \in old : \A k \in old : k <= j
  <2>2. \E i \in old : \A k \in old : k <= i
    <3> HIDE DEF old
    <3> QED
      BY <1>1, <1>4, <2>1, LastIndex
  <2>3. j \in old
    <3> HIDE DEF old
    <3> QED
      BY <2>2
  <2>4. FD!Filtered(f) = lastOutput[j]
    BY <1>2, <1>4
  <2>5. j \in 1 .. Len(lastOutput) /\ FD!Near(lastOutput[j], f)
    BY <2>1, <2>3
  <2> QED
    BY <1>1, <2>4, <2>5
<1> QED
  BY <1>3, <1>4

LEMMA FacesInvInit == ASSUME FaceConstants, FD!Init PROVE FacesInv
<1>1. <<>> \in FD!Scenes
  <2>1. <<>> \in [1 .. 0 -> 0 .. FacePlaces - 1] /\ 0 \in 0 .. MaxFaces
    BY DEF FaceConstants
  <2> QED
    BY <2>1 DEF FD!Scenes
<1> QED
  BY <1>1 DEF FD!Init, FacesInv, FD!TypeOK

(* encodeFaceCoordinates(): every face of the frame is reported, near to      *)
(* where it is.                                                               *)
LEMMA EncodeStep ==
  ASSUME FaceConstants, FacesInv, FD!EncodeFaceCoordinates
  PROVE  /\ lastOutput' \in FD!Scenes /\ reported' \in FD!Scenes /\ faceCbPc' = "priority"
         /\ UNCHANGED <<given, faceScene>>
         /\ Len(lastOutput') = Len(faceScene) /\ \A i \in DOMAIN faceScene : FD!Near(lastOutput'[i], faceScene[i])
<1>1. /\ faceCbPc' = "priority" /\ UNCHANGED <<given, faceScene>> /\ reported' \in {reported, lastOutput'}
      /\ lastOutput' = [i \in DOMAIN faceScene |-> FD!Filtered(faceScene[i])]
  BY DEF FD!EncodeFaceCoordinates
<1>2. /\ Len(faceScene) \in 0 .. MaxFaces /\ DOMAIN faceScene = 1 .. Len(faceScene)
      /\ \A i \in 1 .. Len(faceScene) : faceScene[i] \in 0 .. FacePlaces - 1
  BY SceneType DEF FacesInv
<1>3. \A i \in 1 .. Len(faceScene) : /\ lastOutput'[i] = FD!Filtered(faceScene[i])
                                     /\ lastOutput'[i] \in 0 .. FacePlaces - 1 /\ FD!Near(lastOutput'[i], faceScene[i])
  BY <1>1, <1>2, FaceFiltered
<1>4. lastOutput' \in [1 .. Len(faceScene) -> 0 .. FacePlaces - 1]
  BY <1>1, <1>2, <1>3
<1>5. lastOutput' \in FD!Scenes
  BY <1>2, <1>4 DEF FD!Scenes
<1>6. Len(lastOutput') = Len(faceScene)
  <2>1. lastOutput' \in Seq(0 .. FacePlaces - 1) /\ Len(faceScene) \in Nat
    BY <1>2, <1>4 DEF FaceConstants
  <2> QED
    BY <1>4, <2>1
<1> QED
  BY <1>1, <1>2, <1>3, <1>5, <1>6 DEF FacesInv, FD!TypeOK

LEMMA FacesInvStep == ASSUME FaceConstants, FacesInv, [FD!Next]_(FD!faceVars) PROVE FacesInv'
<1>1. <<>> \in FD!Scenes
  <2>1. <<>> \in [1 .. 0 -> 0 .. FacePlaces - 1] /\ 0 \in 0 .. MaxFaces
    BY DEF FaceConstants
  <2> QED
    BY <2>1 DEF FD!Scenes
<1>2. CASE UNCHANGED FD!faceVars
  BY <1>2 DEF FD!faceVars, FacesInv, FD!TypeOK
<1>3. CASE FD!Calls
  <2>1. lastOutput' \in {lastOutput, <<>>} /\ UNCHANGED <<given, faceCbPc, faceScene, reported>>
    BY <1>3 DEF FD!Calls, FD!StartFaceDetection, FD!StopFaceDetection, FD!PauseFaceDetection,
                FD!SetFaceDetectionOrientation, FD!frameVars
  <2> QED
    BY <1>1, <2>1 DEF FacesInv, FD!TypeOK
<1>4. CASE FD!CreatePreviewMetadata
  BY <1>1, <1>4 DEF FD!CreatePreviewMetadata, FacesInv, FD!TypeOK
<1>5. CASE FD!EncodeFaceCoordinates
  BY <1>5, EncodeStep DEF FacesInv, FD!TypeOK
<1>6. CASE FD!SwitchPriority
  <2>1. given' \subseteq FD!FaceAlgorithms
    BY <1>6 DEF FD!SwitchPriority, FD!Prioritise, FacesInv, FD!TypeOK, FD!FaceAlgorithms
  <2> QED
    BY <1>1, <1>6, <2>1 DEF FD!SwitchPriority, FacesInv, FD!TypeOK
<1> QED
  BY <1>2, <1>3, <1>4, <1>5, <1>6 DEF FD!Next, FD!CbStep

(* The faces that are reported are as many as in the frame and near to them.  *)
THEOREM FacesStayNear == ASSUME FaceConstants PROVE FD!Spec => []FD!TypeOK /\ FD!FacesFollow
<1>1. FD!Init => FacesInv
  BY FacesInvInit
<1>2. FacesInv /\ [FD!Next]_(FD!faceVars) => FacesInv'
  BY FacesInvStep
<1>3. FacesInv => FD!TypeOK
  BY DEF FacesInv
<1>4. FacesInv /\ [FD!Next]_(FD!faceVars) =>
        [faceCbPc = "encode" /\ faceCbPc' = "priority" =>
           Len(lastOutput') = Len(faceScene) /\ \A i \in DOMAIN faceScene : FD!Near(lastOutput'[i], faceScene[i])]_(FD!faceVars)
  <2> SUFFICES ASSUME FacesInv, FD!Next, faceCbPc = "encode", faceCbPc' = "priority"
               PROVE  Len(lastOutput') = Len(faceScene) /\ \A i \in DOMAIN faceScene : FD!Near(lastOutput'[i], faceScene[i])
    BY DEF FD!faceVars
  <2>1. FD!EncodeFaceCoordinates
    BY DEF FD!Next, FD!CbStep, FD!Calls, FD!StartFaceDetection, FD!StopFaceDetection, FD!PauseFaceDetection,
           FD!SetFaceDetectionOrientation, FD!frameVars, FD!CreatePreviewMetadata, FD!SwitchPriority
  <2> QED
    BY <2>1, EncodeStep
<1> QED
  BY <1>1, <1>2, <1>3, <1>4, PTL DEF FD!Spec, FD!FacesFollow

-----------------------------------------------------------------------------
(* Focus                                                                     *)

FocusConstants == MaxAutoFocus \in Nat /\ FocusFaults \in Nat

LockedCalls == {"put", "commit", "rollback", "getFocusMode", "waitCancel", "broadcast", "broadcastFailed"}
FocusTypes ==
  /\ AF!TypeOK
  /\ halPc \in {"idle", "perform", "cancel"} \cup LockedCalls
  /\ cmdPc \in {"idle", "focus", "wait", "return", "setState"} /\ timedOut \in BOOLEAN /\ focusEvents \in Nat

(* One message a call; and what a call finds, that nobody else changes the    *)
(* state while it does.                                                       *)
OneMessageEach == afMsgs + (IF halPc \in {"perform", "put"} THEN 1 ELSE 0) <= afCalls
CallFinds ==
  /\ afLock = "hal" <=> halPc \in LockedCalls
  /\ halPc \in {"perform", "put"} => afState = "preview"
  /\ halPc \in {"getFocusMode", "waitCancel", "broadcast", "broadcastFailed"} => afNext = "preview"
  /\ halPc = "commit" /\ afNext = "af" => afMsgs > 0
  /\ cmdPc = "wait" => ~timedOut

(* doAutoFocus() that has scanned finds the status Off only if a cancel has   *)
(* stopped it, and such a cancel does not time out, for it is told.           *)
Scanning == cmdPc = "wait" \/ (cmdPc = "return" /\ ~timedOut)
SomebodyLeaves ==
  focusFaults = 0 /\ afState = "af" /\ afMsgs = 0 =>
    /\ halPc \notin {"waitCancel", "broadcast", "commit"} => cmdPc # "idle" /\ (Scanning => status # "Off")
    /\ halPc = "waitCancel" =>
         IF status = "Off" THEN focusEvents > 0 \/ seen = "Off" \/ (cmdPc # "idle" /\ ~Scanning) ELSE cmdPc # "idle"

FocusInv == FocusTypes /\ OneMessageEach /\ CallFinds /\ SomebodyLeaves

LEMMA FocusInvInit == ASSUME FocusConstants, AF!Init PROVE FocusInv
<1>1. /\ afState = "preview" /\ afNext = "preview" /\ afLock = "none" /\ halPc = "idle" /\ cmdPc = "idle"
      /\ timedOut = FALSE /\ afMsgs = 0 /\ focusMode \in AF!Modes /\ control = focusMode /\ focusEvents = 0
      /\ seen = "none" /\ afCalls = 0 /\ focusFaults = 0 /\ status \in AF!Statuses
  BY DEF AF!Init, AF!Statuses
<1>2. AF!TypeOK
  BY <1>1 DEF FocusConstants, AF!TypeOK, AF!Modes, AF!Statuses
<1>a. FocusTypes
  BY <1>1, <1>2 DEF FocusTypes, LockedCalls
<1>3. OneMessageEach /\ CallFinds /\ SomebodyLeaves
  BY <1>1 DEF OneMessageEach, CallFinds, LockedCalls, SomebodyLeaves
<1> QED
  BY <1>a, <1>3 DEF FocusInv

LEMMA FocusAutoFocusStep == ASSUME FocusConstants, FocusInv, AF!AutoFocus PROVE FocusInv'
<1>1. FocusTypes'
  BY DEF FocusConstants, FocusInv, FocusTypes, OneMessageEach, AF!TypeOK, AF!Modes, AF!Statuses, LockedCalls,
     AF!AutoFocus, AF!adapterVars, AF!componentVars, AF!modeVars
<1>2. OneMessageEach'
  BY DEF FocusConstants, FocusInv, FocusTypes, AF!TypeOK, OneMessageEach, AF!AutoFocus, AF!adapterVars,
     AF!componentVars, AF!modeVars
<1>3. CallFinds'
  BY DEF FocusConstants, FocusInv, FocusTypes, AF!TypeOK, CallFinds, LockedCalls, AF!AutoFocus, AF!adapterVars,
     AF!componentVars, AF!modeVars
<1>4. SomebodyLeaves'
  BY DEF FocusConstants, FocusInv, FocusTypes, AF!TypeOK, AF!Statuses, CallFinds, LockedCalls, Scanning,
     SomebodyLeaves, AF!AutoFocus, AF!adapterVars, AF!componentVars, AF!modeVars
<1> QED
  BY <1>1, <1>2, <1>3, <1>4 DEF FocusInv

LEMMA FocusPerformStep == ASSUME FocusConstants, FocusInv, AF!Perform PROVE FocusInv'
<1>1. FocusTypes'
  BY DEF FocusConstants, FocusInv, FocusTypes, OneMessageEach, AF!TypeOK, AF!Modes, AF!Statuses, LockedCalls,
     AF!Perform, AF!adapterVars, AF!componentVars, AF!modeVars
<1>2. OneMessageEach'
  BY DEF FocusConstants, FocusInv, FocusTypes, AF!TypeOK, OneMessageEach, AF!Perform, AF!adapterVars,
     AF!componentVars, AF!modeVars
<1>3. CallFinds'
  BY DEF FocusConstants, FocusInv, FocusTypes, AF!TypeOK, CallFinds, LockedCalls, AF!Perform, AF!adapterVars,
     AF!componentVars, AF!modeVars
<1>4. SomebodyLeaves'
  BY DEF FocusConstants, FocusInv, FocusTypes, AF!TypeOK, AF!Statuses, CallFinds, LockedCalls, Scanning,
     SomebodyLeaves, AF!Perform, AF!adapterVars, AF!componentVars, AF!modeVars
<1> QED
  BY <1>1, <1>2, <1>3, <1>4 DEF FocusInv

LEMMA FocusPutStep == ASSUME FocusConstants, FocusInv, AF!Put PROVE FocusInv'
<1>1. FocusTypes'
  BY DEF FocusConstants, FocusInv, FocusTypes, OneMessageEach, AF!TypeOK, AF!Modes, AF!Statuses, LockedCalls,
     AF!Put, AF!Faulty, AF!adapterVars, AF!componentVars, AF!modeVars
<1>2. OneMessageEach'
  BY DEF FocusConstants, FocusInv, FocusTypes, AF!TypeOK, OneMessageEach, AF!Put, AF!Faulty, AF!adapterVars,
     AF!componentVars, AF!modeVars
<1>3. CallFinds'
  BY DEF FocusConstants, FocusInv, FocusTypes, AF!TypeOK, CallFinds, LockedCalls, AF!Put, AF!Faulty, AF!adapterVars,
     AF!componentVars, AF!modeVars
<1>4. SomebodyLeaves'
  BY DEF FocusConstants, FocusInv, FocusTypes, AF!TypeOK, AF!Statuses, CallFinds, LockedCalls, Scanning,
     SomebodyLeaves, AF!Put, AF!Faulty, AF!adapterVars, AF!componentVars, AF!modeVars
<1> QED
  BY <1>1, <1>2, <1>3, <1>4 DEF FocusInv

LEMMA FocusCommitStep == ASSUME FocusConstants, FocusInv, AF!Commit PROVE FocusInv'
<1>1. FocusTypes'
  BY DEF FocusConstants, FocusInv, FocusTypes, OneMessageEach, AF!TypeOK, AF!Modes, AF!Statuses, LockedCalls,
     AF!Commit, AF!adapterVars, AF!componentVars, AF!modeVars
<1>2. OneMessageEach'
  BY DEF FocusConstants, FocusInv, FocusTypes, AF!TypeOK, OneMessageEach, AF!Commit, AF!adapterVars,
     AF!componentVars, AF!modeVars
<1>3. CallFinds'
  BY DEF FocusConstants, FocusInv, FocusTypes, AF!TypeOK, CallFinds, LockedCalls, AF!Commit, AF!adapterVars,
     AF!componentVars, AF!modeVars
<1>4. SomebodyLeaves'
  BY DEF FocusConstants, FocusInv, FocusTypes, AF!TypeOK, AF!Statuses, CallFinds, LockedCalls, Scanning,
     SomebodyLeaves, AF!Commit, AF!adapterVars, AF!componentVars, AF!modeVars
<1> QED
  BY <1>1, <1>2, <1>3, <1>4 DEF FocusInv

LEMMA FocusCancelAutoFocusStep == ASSUME FocusConstants, FocusInv, AF!CancelAutoFocus PROVE FocusInv'
<1>1. FocusTypes'
  BY DEF FocusConstants, FocusInv, FocusTypes, OneMessageEach, AF!TypeOK, AF!Modes, AF!Statuses, LockedCalls,
     AF!CancelAutoFocus, AF!adapterVars, AF!componentVars, AF!modeVars
<1>2. OneMessageEach'
  BY DEF FocusConstants, FocusInv, FocusTypes, AF!TypeOK, OneMessageEach, AF!CancelAutoFocus, AF!adapterVars,
     AF!componentVars, AF!modeVars
<1>3. CallFinds'
  BY DEF FocusConstants, FocusInv, FocusTypes, AF!TypeOK, CallFinds, LockedCalls, AF!CancelAutoFocus,
     AF!adapterVars, AF!componentVars, AF!modeVars
<1>4. SomebodyLeaves'
  BY DEF FocusConstants, FocusInv, FocusTypes, AF!TypeOK, AF!Statuses, CallFinds, LockedCalls, Scanning,
     SomebodyLeaves, AF!CancelAutoFocus, AF!adapterVars, AF!componentVars, AF!modeVars
<1> QED
  BY <1>1, <1>2, <1>3, <1>4 DEF FocusInv

LEMMA FocusCancelStep == ASSUME FocusConstants, FocusInv, AF!Cancel PROVE FocusInv'
<1>1. FocusTypes'
  BY DEF FocusConstants, FocusInv, FocusTypes, OneMessageEach, AF!TypeOK, AF!Modes, AF!Statuses, LockedCalls,
     AF!Cancel, AF!adapterVars, AF!componentVars, AF!modeVars
<1>2. OneMessageEach'
  BY DEF FocusConstants, FocusInv, FocusTypes, AF!TypeOK, OneMessageEach, AF!Cancel, AF!adapterVars,
     AF!componentVars, AF!modeVars
<1>3. CallFinds'
  BY DEF FocusConstants, FocusInv, FocusTypes, AF!TypeOK, CallFinds, LockedCalls, AF!Cancel, AF!adapterVars,
     AF!componentVars, AF!modeVars
<1>4. SomebodyLeaves'
  BY DEF FocusConstants, FocusInv, FocusTypes, AF!TypeOK, AF!Statuses, CallFinds, LockedCalls, Scanning,
     SomebodyLeaves, AF!Cancel, AF!adapterVars, AF!componentVars, AF!modeVars
<1> QED
  BY <1>1, <1>2, <1>3, <1>4 DEF FocusInv

LEMMA FocusCancelStopsStep == ASSUME FocusConstants, FocusInv, AF!CancelStops PROVE FocusInv'
<1>1. FocusTypes'
  BY DEF FocusConstants, FocusInv, FocusTypes, OneMessageEach, AF!TypeOK, AF!Modes, AF!Statuses, LockedCalls,
     AF!CancelStops, AF!Configure, AF!Faulty, AF!adapterVars, AF!componentVars, AF!modeVars
<1>2. OneMessageEach'
  BY DEF FocusConstants, FocusInv, FocusTypes, AF!TypeOK, OneMessageEach, AF!CancelStops, AF!Configure, AF!Faulty,
     AF!adapterVars, AF!componentVars, AF!modeVars
<1>3. CallFinds'
  BY DEF FocusConstants, FocusInv, FocusTypes, AF!TypeOK, CallFinds, LockedCalls, AF!CancelStops, AF!Configure,
     AF!Faulty, AF!adapterVars, AF!componentVars, AF!modeVars
<1>4. SomebodyLeaves'
  BY DEF FocusConstants, FocusInv, FocusTypes, AF!TypeOK, AF!Statuses, CallFinds, LockedCalls, Scanning,
     SomebodyLeaves, AF!CancelStops, AF!Configure, AF!Faulty, AF!adapterVars, AF!componentVars, AF!modeVars
<1> QED
  BY <1>1, <1>2, <1>3, <1>4 DEF FocusInv

LEMMA FocusCancelTimesOutStep == ASSUME FocusConstants, FocusInv, AF!CancelTimesOut PROVE FocusInv'
<1>1. FocusTypes'
  BY DEF FocusConstants, FocusInv, FocusTypes, OneMessageEach, AF!TypeOK, AF!Modes, AF!Statuses, LockedCalls,
     AF!CancelTimesOut, AF!Faulty, AF!adapterVars, AF!componentVars, AF!modeVars
<1>2. OneMessageEach'
  BY DEF FocusConstants, FocusInv, FocusTypes, AF!TypeOK, OneMessageEach, AF!CancelTimesOut, AF!Faulty,
     AF!adapterVars, AF!componentVars, AF!modeVars
<1>3. CallFinds'
  BY DEF FocusConstants, FocusInv, FocusTypes, AF!TypeOK, CallFinds, LockedCalls, AF!CancelTimesOut, AF!Faulty,
     AF!adapterVars, AF!componentVars, AF!modeVars
<1>4. SomebodyLeaves'
  BY DEF FocusConstants, FocusInv, FocusTypes, AF!TypeOK, AF!Statuses, CallFinds, LockedCalls, Scanning,
     SomebodyLeaves, AF!CancelTimesOut, AF!Faulty, AF!adapterVars, AF!componentVars, AF!modeVars
<1> QED
  BY <1>1, <1>2, <1>3, <1>4 DEF FocusInv

LEMMA FocusCancelSignalsStep == ASSUME FocusConstants, FocusInv, AF!CancelSignals PROVE FocusInv'
<1>1. FocusTypes'
  BY DEF FocusConstants, FocusInv, FocusTypes, OneMessageEach, AF!TypeOK, AF!Modes, AF!Statuses, LockedCalls,
     AF!CancelSignals, AF!Wakened, AF!adapterVars, AF!componentVars, AF!modeVars
<1>2. OneMessageEach'
  BY DEF FocusConstants, FocusInv, FocusTypes, AF!TypeOK, OneMessageEach, AF!CancelSignals, AF!Wakened,
     AF!adapterVars, AF!componentVars, AF!modeVars
<1>3. CallFinds'
  BY DEF FocusConstants, FocusInv, FocusTypes, AF!TypeOK, CallFinds, LockedCalls, AF!CancelSignals, AF!Wakened,
     AF!adapterVars, AF!componentVars, AF!modeVars
<1>4. SomebodyLeaves'
  BY DEF FocusConstants, FocusInv, FocusTypes, AF!TypeOK, AF!Statuses, CallFinds, LockedCalls, Scanning,
     SomebodyLeaves, AF!CancelSignals, AF!Wakened, AF!adapterVars, AF!componentVars, AF!modeVars
<1> QED
  BY <1>1, <1>2, <1>3, <1>4 DEF FocusInv

LEMMA FocusSetFocusModeStep == ASSUME FocusConstants, FocusInv, AF!SetFocusMode PROVE FocusInv'
<1>1. FocusTypes'
  BY DEF FocusConstants, FocusInv, FocusTypes, OneMessageEach, AF!TypeOK, AF!Modes, AF!Statuses, LockedCalls,
     AF!SetFocusMode, AF!adapterVars, AF!componentVars, AF!modeVars
<1>2. OneMessageEach'
  BY DEF FocusConstants, FocusInv, FocusTypes, AF!TypeOK, OneMessageEach, AF!SetFocusMode, AF!adapterVars,
     AF!componentVars, AF!modeVars
<1>3. CallFinds'
  BY DEF FocusConstants, FocusInv, FocusTypes, AF!TypeOK, CallFinds, LockedCalls, AF!SetFocusMode, AF!adapterVars,
     AF!componentVars, AF!modeVars
<1>4. SomebodyLeaves'
  BY DEF FocusConstants, FocusInv, FocusTypes, AF!TypeOK, AF!Statuses, CallFinds, LockedCalls, Scanning,
     SomebodyLeaves, AF!SetFocusMode, AF!adapterVars, AF!componentVars, AF!modeVars
<1> QED
  BY <1>1, <1>2, <1>3, <1>4 DEF FocusInv

LEMMA FocusCheckStep == ASSUME FocusConstants, FocusInv, AF!Check PROVE FocusInv'
<1>1. FocusTypes'
  BY DEF FocusConstants, FocusInv, FocusTypes, OneMessageEach, AF!TypeOK, AF!Modes, AF!Statuses, LockedCalls,
     AF!Check, AF!adapterVars, AF!componentVars, AF!modeVars
<1>2. OneMessageEach'
  BY DEF FocusConstants, FocusInv, FocusTypes, AF!TypeOK, OneMessageEach, AF!Check, AF!adapterVars,
     AF!componentVars, AF!modeVars
<1>3. CallFinds'
  BY DEF FocusConstants, FocusInv, FocusTypes, AF!TypeOK, CallFinds, LockedCalls, AF!Check, AF!adapterVars,
     AF!componentVars, AF!modeVars
<1>4. SomebodyLeaves'
  BY DEF FocusConstants, FocusInv, FocusTypes, AF!TypeOK, AF!Statuses, CallFinds, LockedCalls, Scanning,
     SomebodyLeaves, AF!Check, AF!adapterVars, AF!componentVars, AF!modeVars
<1> QED
  BY <1>1, <1>2, <1>3, <1>4 DEF FocusInv

LEMMA FocusFocusStep == ASSUME FocusConstants, FocusInv, AF!Focus PROVE FocusInv'
<1>1. FocusTypes'
  <2>1. /\ UNCHANGED <<afState, afNext, afLock, halPc, afMsgs, focusMode, seen, afCalls>>
        /\ cmdPc' \in {"return", "wait", "idle"} /\ timedOut' \in BOOLEAN
    BY DEF FocusInv, FocusTypes, AF!Focus, AF!ReturnsAtOnce, AF!adapterVars
  <2>2. control' \in AF!Modes \cup {"Off"} /\ status' \in AF!Statuses /\ focusEvents' \in Nat
    BY DEF FocusInv, FocusTypes, AF!TypeOK, AF!Modes, AF!Statuses, AF!Focus, AF!Configure, AF!componentVars
  <2>3. focusFaults' \in 0 .. FocusFaults
    BY DEF FocusConstants, FocusInv, FocusTypes, AF!TypeOK, AF!Focus, AF!Faulty
  <2> QED
    BY <2>1, <2>2, <2>3 DEF FocusInv, FocusTypes, AF!TypeOK, AF!Modes, LockedCalls
<1>2. OneMessageEach'
  BY DEF FocusConstants, FocusInv, FocusTypes, AF!TypeOK, OneMessageEach, AF!Focus, AF!Configure, AF!Faulty,
     AF!ReturnsAtOnce, AF!adapterVars, AF!componentVars, AF!modeVars
<1>3. CallFinds'
  BY DEF FocusConstants, FocusInv, FocusTypes, AF!TypeOK, CallFinds, LockedCalls, AF!Focus, AF!Configure, AF!Faulty,
     AF!ReturnsAtOnce, AF!adapterVars, AF!componentVars, AF!modeVars
<1>4. SomebodyLeaves'
  BY DEF FocusConstants, FocusInv, FocusTypes, AF!TypeOK, AF!Statuses, CallFinds, LockedCalls, Scanning,
     SomebodyLeaves, AF!Focus, AF!Configure, AF!Faulty, AF!ReturnsAtOnce, AF!adapterVars, AF!componentVars,
     AF!modeVars
<1> QED
  BY <1>1, <1>2, <1>3, <1>4 DEF FocusInv

LEMMA FocusTimeOutStep == ASSUME FocusConstants, FocusInv, AF!TimeOut PROVE FocusInv'
<1>1. FocusTypes'
  BY DEF FocusConstants, FocusInv, FocusTypes, OneMessageEach, AF!TypeOK, AF!Modes, AF!Statuses, LockedCalls,
     AF!TimeOut, AF!adapterVars, AF!componentVars, AF!modeVars
<1>2. OneMessageEach'
  BY DEF FocusConstants, FocusInv, FocusTypes, AF!TypeOK, OneMessageEach, AF!TimeOut, AF!adapterVars,
     AF!componentVars, AF!modeVars
<1>3. CallFinds'
  BY DEF FocusConstants, FocusInv, FocusTypes, AF!TypeOK, CallFinds, LockedCalls, AF!TimeOut, AF!adapterVars,
     AF!componentVars, AF!modeVars
<1>4. SomebodyLeaves'
  BY DEF FocusConstants, FocusInv, FocusTypes, AF!TypeOK, AF!Statuses, CallFinds, LockedCalls, Scanning,
     SomebodyLeaves, AF!TimeOut, AF!adapterVars, AF!componentVars, AF!modeVars
<1> QED
  BY <1>1, <1>2, <1>3, <1>4 DEF FocusInv

LEMMA FocusReturnStep == ASSUME FocusConstants, FocusInv, AF!Return PROVE FocusInv'
<1>1. FocusTypes'
  BY DEF FocusConstants, FocusInv, FocusTypes, OneMessageEach, AF!TypeOK, AF!Modes, AF!Statuses, LockedCalls,
     AF!Return, AF!Configure, AF!Faulty, AF!adapterVars, AF!componentVars, AF!modeVars
<1>2. OneMessageEach'
  BY DEF FocusConstants, FocusInv, FocusTypes, AF!TypeOK, OneMessageEach, AF!Return, AF!Configure, AF!Faulty,
     AF!adapterVars, AF!componentVars, AF!modeVars
<1>3. CallFinds'
  BY DEF FocusConstants, FocusInv, FocusTypes, AF!TypeOK, CallFinds, LockedCalls, AF!Return, AF!Configure,
     AF!Faulty, AF!adapterVars, AF!componentVars, AF!modeVars
<1>4. SomebodyLeaves'
  BY DEF FocusConstants, FocusInv, FocusTypes, AF!TypeOK, AF!Statuses, CallFinds, LockedCalls, Scanning,
     SomebodyLeaves, AF!Return, AF!Configure, AF!Faulty, AF!adapterVars, AF!componentVars, AF!modeVars
<1> QED
  BY <1>1, <1>2, <1>3, <1>4 DEF FocusInv

LEMMA FocusNotifyStep == ASSUME FocusConstants, FocusInv, AF!Notify PROVE FocusInv'
<1>1. FocusTypes'
  BY DEF FocusConstants, FocusInv, FocusTypes, OneMessageEach, AF!TypeOK, AF!Modes, AF!Statuses, LockedCalls,
     AF!Notify, AF!adapterVars, AF!componentVars, AF!modeVars
<1>2. OneMessageEach'
  BY DEF FocusConstants, FocusInv, FocusTypes, AF!TypeOK, OneMessageEach, AF!Notify, AF!adapterVars,
     AF!componentVars, AF!modeVars
<1>3. CallFinds'
  BY DEF FocusConstants, FocusInv, FocusTypes, AF!TypeOK, CallFinds, LockedCalls, AF!Notify, AF!adapterVars,
     AF!componentVars, AF!modeVars
<1>4. SomebodyLeaves'
  BY DEF FocusConstants, FocusInv, FocusTypes, AF!TypeOK, AF!Statuses, CallFinds, LockedCalls, Scanning,
     SomebodyLeaves, AF!Notify, AF!adapterVars, AF!componentVars, AF!modeVars
<1> QED
  BY <1>1, <1>2, <1>3, <1>4 DEF FocusInv

LEMMA FocusHandleFocusCallbackStep == ASSUME FocusConstants, FocusInv, AF!HandleFocusCallback PROVE FocusInv'
<1>1. FocusTypes'
  BY DEF FocusConstants, FocusInv, FocusTypes, OneMessageEach, AF!TypeOK, AF!Modes, AF!Statuses, LockedCalls,
     AF!HandleFocusCallback, AF!Faulty, AF!adapterVars, AF!componentVars, AF!modeVars
<1>2. OneMessageEach'
  BY DEF FocusConstants, FocusInv, FocusTypes, AF!TypeOK, OneMessageEach, AF!HandleFocusCallback, AF!Faulty,
     AF!adapterVars, AF!componentVars, AF!modeVars
<1>3. CallFinds'
  BY DEF FocusConstants, FocusInv, FocusTypes, AF!TypeOK, CallFinds, LockedCalls, AF!HandleFocusCallback, AF!Faulty,
     AF!adapterVars, AF!componentVars, AF!modeVars
<1>4. SomebodyLeaves'
  BY DEF FocusConstants, FocusInv, FocusTypes, AF!TypeOK, AF!Statuses, CallFinds, LockedCalls, Scanning,
     SomebodyLeaves, AF!HandleFocusCallback, AF!Faulty, AF!adapterVars, AF!componentVars, AF!modeVars
<1> QED
  BY <1>1, <1>2, <1>3, <1>4 DEF FocusInv

LEMMA FocusSignalStep == ASSUME FocusConstants, FocusInv, AF!Signal PROVE FocusInv'
<1>1. FocusTypes'
  BY DEF FocusConstants, FocusInv, FocusTypes, OneMessageEach, AF!TypeOK, AF!Modes, AF!Statuses, LockedCalls,
     AF!Signal, AF!Wakened, AF!adapterVars, AF!componentVars, AF!modeVars
<1>2. OneMessageEach'
  BY DEF FocusConstants, FocusInv, FocusTypes, AF!TypeOK, OneMessageEach, AF!Signal, AF!Wakened, AF!adapterVars,
     AF!componentVars, AF!modeVars
<1>3. CallFinds'
  BY DEF FocusConstants, FocusInv, FocusTypes, AF!TypeOK, CallFinds, LockedCalls, AF!Signal, AF!Wakened,
     AF!adapterVars, AF!componentVars, AF!modeVars
<1>4. SomebodyLeaves'
  BY DEF FocusConstants, FocusInv, FocusTypes, AF!TypeOK, AF!Statuses, CallFinds, LockedCalls, Scanning,
     SomebodyLeaves, AF!Signal, AF!Wakened, AF!adapterVars, AF!componentVars, AF!modeVars
<1> QED
  BY <1>1, <1>2, <1>3, <1>4 DEF FocusInv

LEMMA FocusScanEndsStep == ASSUME FocusConstants, FocusInv, AF!ScanEnds PROVE FocusInv'
<1>1. FocusTypes'
  BY DEF FocusConstants, FocusInv, FocusTypes, OneMessageEach, AF!TypeOK, AF!Modes, AF!Statuses, LockedCalls,
     AF!ScanEnds, AF!adapterVars, AF!componentVars, AF!modeVars
<1>2. OneMessageEach'
  BY DEF FocusConstants, FocusInv, FocusTypes, AF!TypeOK, OneMessageEach, AF!ScanEnds, AF!adapterVars,
     AF!componentVars, AF!modeVars
<1>3. CallFinds'
  BY DEF FocusConstants, FocusInv, FocusTypes, AF!TypeOK, CallFinds, LockedCalls, AF!ScanEnds, AF!adapterVars,
     AF!componentVars, AF!modeVars
<1>4. SomebodyLeaves'
  BY DEF FocusConstants, FocusInv, FocusTypes, AF!TypeOK, AF!Statuses, CallFinds, LockedCalls, Scanning,
     SomebodyLeaves, AF!ScanEnds, AF!adapterVars, AF!componentVars, AF!modeVars
<1> QED
  BY <1>1, <1>2, <1>3, <1>4 DEF FocusInv

LEMMA FocusRescanStep == ASSUME FocusConstants, FocusInv, AF!Rescan PROVE FocusInv'
<1>1. FocusTypes'
  BY DEF FocusConstants, FocusInv, FocusTypes, OneMessageEach, AF!TypeOK, AF!Modes, AF!Statuses, LockedCalls,
     AF!Rescan, AF!Configure, AF!adapterVars, AF!componentVars, AF!modeVars
<1>2. OneMessageEach'
  BY DEF FocusConstants, FocusInv, FocusTypes, AF!TypeOK, OneMessageEach, AF!Rescan, AF!Configure, AF!adapterVars,
     AF!componentVars, AF!modeVars
<1>3. CallFinds'
  BY DEF FocusConstants, FocusInv, FocusTypes, AF!TypeOK, CallFinds, LockedCalls, AF!Rescan, AF!Configure,
     AF!adapterVars, AF!componentVars, AF!modeVars
<1>4. SomebodyLeaves'
  BY DEF FocusConstants, FocusInv, FocusTypes, AF!TypeOK, AF!Statuses, CallFinds, LockedCalls, Scanning,
     SomebodyLeaves, AF!Rescan, AF!Configure, AF!adapterVars, AF!componentVars, AF!modeVars
<1> QED
  BY <1>1, <1>2, <1>3, <1>4 DEF FocusInv

LEMMA FocusInvStep ==
  ASSUME FocusConstants, FocusInv, AF!Next \/ UNCHANGED AF!focusVars
  PROVE  FocusInv'
<1>1. CASE AF!Next
  BY <1>1, FocusAutoFocusStep, FocusPerformStep, FocusPutStep, FocusCommitStep, FocusCancelAutoFocusStep,
     FocusCancelStep, FocusCancelStopsStep, FocusCancelTimesOutStep, FocusCancelSignalsStep, FocusSetFocusModeStep,
     FocusCheckStep, FocusFocusStep, FocusTimeOutStep, FocusReturnStep, FocusNotifyStep,
     FocusHandleFocusCallbackStep, FocusSignalStep, FocusScanEndsStep, FocusRescanStep
  DEF AF!Next, AF!HalStep, AF!CmdStep, AF!CbStep
<1>2. CASE UNCHANGED AF!focusVars
  BY <1>2 DEF FocusInv, FocusTypes, AF!TypeOK, OneMessageEach, CallFinds, LockedCalls, Scanning, SomebodyLeaves,
              AF!focusVars, AF!adapterVars, AF!componentVars, AF!modeVars
<1> QED
  BY <1>1, <1>2

LEMMA FocusInvImplies == ASSUME FocusInv PROVE AF!TypeOK /\ AF!NoFocusForgotten
BY DEF FocusInv, FocusTypes, AF!TypeOK, CallFinds, LockedCalls, Scanning, SomebodyLeaves, AF!NoFocusForgotten

(* An auto focus that has begun is going to be ended by somebody.             *)
THEOREM FocusIsNotForgotten == ASSUME FocusConstants PROVE AF!Spec => [](AF!TypeOK /\ AF!NoFocusForgotten)
<1>1. AF!Init => FocusInv
  BY FocusInvInit
<1>2. FocusInv /\ [AF!Next]_(AF!focusVars) => FocusInv'
  BY FocusInvStep
<1>3. FocusInv => AF!TypeOK /\ AF!NoFocusForgotten
  BY FocusInvImplies
<1> QED
  BY <1>1, <1>2, <1>3, PTL DEF AF!Spec

-----------------------------------------------------------------------------
(* Settings of the preview                                                   *)

PreviewConstants == SettingCalls \in Nat /\ PreviewFaults \in Nat

PreviewPcs == Previews!Loadable \cup {"off", "orientation", "execute", "running"}

(* The setters that the start of a preview has come past when it is at pc.    *)
Past(pc) ==
  {s \in Previews!Loadable :
     \/ pc \in {"orientation", "execute", "running"}
     \/ pc = "NSF" /\ s = "LDC"
     \/ pc = "CapMode" /\ s \in {"LDC", "NSF"}
     \/ pc = "VNF" /\ s \in {"LDC", "NSF", "CapMode"}
     \/ pc = "VSTAB" /\ s # "VSTAB"}

(* A setting is still pending behind its setter only if it was marked later,  *)
(* or if it waits for a video mode.                                           *)
WaitsForVideo(s) == s \in Previews!VideoOnly /\ (wantedMode # "video" \/ "CapMode" \in marked)
PastIsApplied == \A s \in Past(previewPc) : s \in pendingPreview => s \in marked \/ WaitsForVideo(s)

PreviewInv == Previews!TypeOK /\ previewPc \in PreviewPcs /\ Previews!NothingUnapplied /\ PastIsApplied

LEMMA PreviewInvInit == ASSUME PreviewConstants, Previews!Init PROVE PreviewInv
<1>1. Previews!TypeOK /\ previewPc \in PreviewPcs
  BY DEF Previews!Init, Previews!TypeOK, PreviewPcs
<1>2. Previews!NothingUnapplied
  BY DEF Previews!Init, Previews!NothingUnapplied, Previews!Has, Previews!Loadable, Previews!Switches
<1>3. PastIsApplied
  BY DEF Previews!Init, PastIsApplied
<1> QED
  BY <1>1, <1>2, <1>3 DEF PreviewInv

(* A call marks what it changes, and only that.                               *)
LEMMA PreviewSetStep == ASSUME PreviewConstants, PreviewInv, Previews!SetParameters PROVE PreviewInv'
<1>1. PICK mode \in {"photo", "video", "fast"}, ipp \in BOOLEAN, vnf \in BOOLEAN, vstab \in BOOLEAN, gbce \in BOOLEAN :
        Previews!SetParametersAlgo(mode, ipp, vnf, vstab, gbce)
  BY DEF Previews!SetParameters
<1>2. /\ UNCHANGED <<componentMode, previewPc, inFunction, componentLoaded>> /\ previewPc \in {"off", "running"}
  BY DEF Previews!SetParameters
<1> DEFINE on == [s \in Previews!Switches |->
                    CASE s \in {"LDC", "NSF"} -> mode # "fast" /\ ipp
                      [] s = "VNF" -> vnf [] s = "VSTAB" -> vstab
                      [] s = "GBCE" -> IF mode # "fast" THEN gbce ELSE wantedOn["GBCE"]]
           changed == {s \in Previews!Switches \ {"GBCE"} : on[s] # wantedOn[s]}
                        \cup (IF mode # wantedMode THEN {"CapMode"} ELSE {})
<1>3. /\ wantedMode' = mode /\ wantedOn' = on
      /\ pendingPreview' = pendingPreview \cup changed /\ marked' = marked \cup changed
      /\ Previews!SetGBCE(on["GBCE"])
  BY <1>1 DEF Previews!SetParametersAlgo
<1>4. on \in [Previews!Switches -> BOOLEAN]
  <2>1. wantedOn["GBCE"] \in BOOLEAN
    BY DEF PreviewInv, Previews!TypeOK, Previews!Switches
  <2> QED
    BY <2>1 DEF Previews!Switches
<1>5. changed \subseteq Previews!Loadable
  BY DEF Previews!Loadable, Previews!Switches
<1>6. /\ "CapMode" \in changed <=> mode # wantedMode
      /\ \A s \in Previews!Loadable : s # "CapMode" => (s \in changed <=> on[s] # wantedOn[s])
  BY DEF Previews!Loadable, Previews!Switches
<1>7. /\ componentOn' \in [Previews!Switches -> BOOLEAN]
      /\ \A s \in Previews!Loadable : s # "CapMode" => componentOn'[s] = componentOn[s]
      /\ failedSetters' \subseteq failedSetters \cup {"GBCE"} /\ failedSetters \subseteq failedSetters' \cup {"GBCE"}
      /\ componentOn'["GBCE"] = on["GBCE"] \/ "GBCE" \in failedSetters'
  <2> HIDE DEF on
  <2>1. on["GBCE"] \in BOOLEAN /\ componentOn \in [Previews!Switches -> BOOLEAN]
    BY <1>4 DEF PreviewInv, Previews!TypeOK, Previews!Switches
  <2>2. CASE on["GBCE"] = wantedOn["GBCE"]
    <3>1. componentOn' = componentOn /\ failedSetters' = failedSetters
      BY <1>3, <2>2 DEF Previews!SetGBCE
    <3>2. "GBCE" \notin pendingPreview
      BY DEF PreviewInv, Previews!TypeOK, Previews!Loadable
    <3>3. componentOn["GBCE"] = wantedOn["GBCE"] \/ "GBCE" \in failedSetters
      BY <3>2 DEF PreviewInv, Previews!NothingUnapplied, Previews!Has
    <3> QED
      BY <2>1, <2>2, <3>1, <3>3
  <2>3. CASE on["GBCE"] # wantedOn["GBCE"]
    BY <1>3, <2>1, <2>3 DEF Previews!SetGBCE, Previews!Loadable, Previews!Switches
  <2> QED
    BY <2>2, <2>3
<1> HIDE DEF on, changed
<1>8. Previews!TypeOK' /\ (previewPc \in PreviewPcs)'
  BY <1>2, <1>3, <1>4, <1>5, <1>7 DEF PreviewInv, Previews!TypeOK
<1>9. Previews!NothingUnapplied'
  <2> SUFFICES ASSUME NEW s \in Previews!Loadable \cup {"GBCE"}
               PROVE  Previews!Has(s)' \/ s \in (pendingPreview \cup failedSetters)'
    BY DEF Previews!NothingUnapplied
  <2>1. CASE s = "GBCE"
    BY <1>3, <1>7, <2>1 DEF Previews!Has
  <2>2. CASE s \in Previews!Loadable
    <3>1. s # "GBCE"
      BY <2>2 DEF Previews!Loadable
    <3>2. Previews!Has(s) \/ s \in pendingPreview \cup failedSetters
      BY DEF PreviewInv, Previews!NothingUnapplied
    <3>3. CASE s \in changed
      BY <1>3, <3>3
    <3>4. CASE s \notin changed
      BY <1>2, <1>3, <1>6, <1>7, <2>2, <3>1, <3>2, <3>4 DEF Previews!Has
    <3> QED
      BY <3>3, <3>4
  <2> QED
    BY <2>1, <2>2
<1>10. PastIsApplied'
  <2>1. previewPc' = previewPc
    BY <1>2
  <2> SUFFICES ASSUME NEW s \in Past(previewPc), s \in pendingPreview'
               PROVE  (s \in marked \/ WaitsForVideo(s))'
    BY <2>1 DEF PastIsApplied
  <2>2. s \in pendingPreview => s \in marked \/ WaitsForVideo(s)
    BY DEF PreviewInv, PastIsApplied
  <2> QED
    BY <1>3, <1>6, <2>2 DEF WaitsForVideo
<1> QED
  BY <1>8, <1>9, <1>10 DEF PreviewInv

(* A setter removes its mark, and takes the wish or is refused.               *)
LEMMA PreviewSetterStep ==
  ASSUME PreviewConstants, PreviewInv, NEW s \in Previews!Loadable, NEW calls \in Nat, Previews!Setter(s, calls)
  PROVE  PreviewInv'
<1>1. /\ UNCHANGED <<wantedMode, wantedOn, componentLoaded, marked>> /\ previewPc = s
      /\ previewPc' \in {Previews!Following(s), "off"} /\ componentLoaded
  BY DEF Previews!Setter, Previews!wanted, PreviewInv, Previews!TypeOK, Previews!Loadable
<1>2. \/ s \notin pendingPreview' /\ pendingPreview' = pendingPreview \ {s}
      \/ /\ UNCHANGED <<pendingPreview, componentMode, componentOn, failedSetters>>
         /\ s \in pendingPreview => s \in Previews!VideoOnly /\ wantedMode # "video"
  BY <1>1 DEF Previews!Setter, Previews!inComponent
<1>3. /\ failedSetters' \subseteq failedSetters \cup {s} /\ failedSetters \subseteq failedSetters' \cup {s}
      /\ \/ UNCHANGED <<pendingPreview, componentMode, componentOn, failedSetters>>
         \/ Previews!Take(s)
         \/ UNCHANGED <<componentMode, componentOn>> /\ s \in failedSetters'
  BY DEF Previews!Setter, Previews!inComponent
<1>4. previewPc' \in PreviewPcs /\ Past(previewPc') \subseteq Past(previewPc) \cup {s}
  BY <1>1 DEF PreviewPcs, Previews!Following, Previews!Loadable, Past
<1>5. /\ componentMode' \in {componentMode, wantedMode}
      /\ componentOn' \in [Previews!Switches -> BOOLEAN]
      /\ \A t \in Previews!Loadable \cup {"GBCE"} : Previews!Has(t) => Previews!Has(t)'
      /\ Previews!Take(s) => Previews!Has(s)'
  <2>1. /\ componentOn \in [Previews!Switches -> BOOLEAN] /\ wantedOn \in [Previews!Switches -> BOOLEAN]
        /\ s # "CapMode" => s \in Previews!Switches
    BY DEF PreviewInv, Previews!TypeOK, Previews!Loadable, Previews!Switches
  <2>2. CASE UNCHANGED <<componentMode, componentOn>> /\ ~Previews!Take(s)
    BY <1>1, <2>1, <2>2 DEF Previews!Has
  <2>3. CASE Previews!Take(s) /\ s = "CapMode"
    <3>1. componentMode' = wantedMode /\ componentOn' = componentOn
      BY <2>3 DEF Previews!Take
    <3> QED
      BY <1>1, <2>1, <2>3, <3>1 DEF Previews!Has
  <2>4. CASE Previews!Take(s) /\ s # "CapMode"
    <3>1. componentMode' = componentMode /\ componentOn' = [componentOn EXCEPT ![s] = wantedOn[s]]
      BY <2>4 DEF Previews!Take
    <3>2. /\ componentOn' \in [Previews!Switches -> BOOLEAN] /\ componentOn'[s] = wantedOn[s]
          /\ \A t : t # s => componentOn'[t] = componentOn[t]
      BY <2>1, <2>4, <3>1
    <3> QED
      BY <1>1, <2>4, <3>1, <3>2 DEF Previews!Has
  <2> QED
    BY <1>3, <2>2, <2>3, <2>4
<1>6. Previews!TypeOK'
  <2>1. pendingPreview' \subseteq Previews!Loadable /\ failedSetters' \subseteq Previews!Loadable \cup {"GBCE"}
    BY <1>2, <1>3 DEF PreviewInv, Previews!TypeOK
  <2>2. previewPc' # "running"
    BY <1>1 DEF Previews!Following, Previews!Loadable
  <2> QED
    BY <1>1, <1>5, <2>1, <2>2 DEF PreviewInv, Previews!TypeOK
<1>7. Previews!NothingUnapplied'
  <2> SUFFICES ASSUME NEW t \in Previews!Loadable \cup {"GBCE"}
               PROVE  Previews!Has(t)' \/ t \in (pendingPreview \cup failedSetters)'
    BY DEF Previews!NothingUnapplied
  <2>1. Previews!Has(t) \/ t \in pendingPreview \cup failedSetters
    BY DEF PreviewInv, Previews!NothingUnapplied
  <2>2. CASE t = s
    BY <1>3, <1>5, <2>1, <2>2
  <2>3. CASE t # s
    BY <1>2, <1>3, <1>5, <2>1, <2>3
  <2> QED
    BY <2>2, <2>3
<1>8. PastIsApplied'
  BY <1>1, <1>2, <1>4 DEF PreviewInv, PastIsApplied, WaitsForVideo
<1> QED
  BY <1>4, <1>6, <1>7, <1>8 DEF PreviewInv

LEMMA PreviewOtherStep ==
  ASSUME PreviewConstants, PreviewInv,
         Previews!StartPreview \/ Previews!SetSensorOrientation \/ Previews!Execute \/ Previews!StopPreview
  PROVE  PreviewInv'
<1>1. /\ UNCHANGED <<wantedMode, wantedOn, pendingPreview, componentMode, componentOn, failedSetters>>
      /\ marked' = marked \/ (marked' = {} /\ previewPc' = "LDC")
      /\ \/ previewPc' \in {"off", "LDC"}
         \/ previewPc = "orientation" /\ previewPc' = "execute"
         \/ previewPc = "execute" /\ previewPc' = "running"
  BY DEF PreviewInv, Previews!TypeOK, Previews!StartPreview, Previews!SetSensorOrientation, Previews!Execute,
         Previews!StopPreview, Previews!wanted, Previews!inComponent
<1>a. previewPc' \in PreviewPcs
  BY <1>1 DEF PreviewPcs, Previews!Loadable
<1>b. (previewPc' = "running") = ~componentLoaded'
  <2>1. previewPc = "running" <=> ~componentLoaded
    BY DEF PreviewInv, Previews!TypeOK
  <2>2. CASE Previews!StartPreview \/ Previews!SetSensorOrientation
    <3>1. /\ previewPc \in {"off", "orientation"} /\ previewPc' \in {"off", "LDC", "execute"}
          /\ componentLoaded' = componentLoaded
      BY <2>2 DEF Previews!StartPreview, Previews!SetSensorOrientation, Previews!wanted, Previews!inComponent
    <3> QED
      BY <2>1, <3>1
  <2>3. CASE Previews!Execute \/ Previews!StopPreview
    BY <2>3 DEF Previews!Execute, Previews!StopPreview
  <2> QED
    BY <2>2, <2>3
<1>2. Previews!TypeOK'
  BY <1>1, <1>b DEF PreviewInv, Previews!TypeOK
<1>3. Previews!NothingUnapplied'
  BY <1>1 DEF PreviewInv, Previews!NothingUnapplied, Previews!Has
<1>4. PastIsApplied'
  <2>1. CASE previewPc' \in {"off", "LDC"}
    BY <2>1 DEF PastIsApplied, Past
  <2>2. CASE previewPc' \notin {"off", "LDC"}
    <3>1. Past(previewPc') = Past(previewPc) /\ marked' = marked
      BY <1>1, <2>2 DEF Past
    <3> QED
      BY <1>1, <3>1 DEF PreviewInv, PastIsApplied, WaitsForVideo
  <2> QED
    BY <2>1, <2>2
<1> QED
  BY <1>a, <1>2, <1>3, <1>4 DEF PreviewInv

LEMMA PreviewInvStep ==
  ASSUME PreviewConstants, PreviewInv, Previews!Next \/ UNCHANGED Previews!previewVars
  PROVE  PreviewInv'
<1>1. CASE Previews!SetLDC \/ Previews!SetNSF \/ Previews!SetCaptureMode \/ Previews!EnableVideoNoiseFilter
             \/ Previews!EnableVideoStabilization
  <2>1. PICK s \in Previews!Loadable, calls \in Nat : Previews!Setter(s, calls)
    BY <1>1 DEF Previews!SetLDC, Previews!SetNSF, Previews!SetCaptureMode, Previews!EnableVideoNoiseFilter,
                Previews!EnableVideoStabilization, Previews!Loadable
  <2> QED
    BY <2>1, PreviewSetterStep
<1>2. CASE UNCHANGED Previews!previewVars
  BY <1>2 DEF PreviewInv, Previews!TypeOK, Previews!NothingUnapplied, Previews!Has, PastIsApplied, WaitsForVideo,
              Previews!previewVars
<1> QED
  BY <1>1, <1>2, PreviewSetStep, PreviewOtherStep DEF Previews!Next

LEMMA PreviewInvImplies ==
  ASSUME PreviewInv PROVE Previews!TypeOK /\ Previews!NothingUnapplied /\ Previews!RunsAsAsked
<1>1. ASSUME previewPc = "running", NEW s \in Previews!Loadable
      PROVE  \/ Previews!Has(s) \/ s \in marked \cup failedSetters
             \/ s \in Previews!VideoOnly /\ (wantedMode # "video" \/ "CapMode" \in marked)
  <2>1. Previews!Has(s) \/ s \in pendingPreview \cup failedSetters
    BY DEF PreviewInv, Previews!NothingUnapplied
  <2>2. s \in Past(previewPc)
    BY <1>1 DEF Past
  <2> QED
    BY <2>1, <2>2 DEF PreviewInv, PastIsApplied, WaitsForVideo
<1> QED
  BY <1>1 DEF PreviewInv, Previews!RunsAsAsked

(* The component has what was asked of it for previews, or it is marked for   *)
(* the next start or was refused; a preview runs with what was asked before.  *)
THEOREM PreviewsRunAsAsked ==
  ASSUME PreviewConstants
  PROVE  Previews!Spec => [](Previews!TypeOK /\ Previews!NothingUnapplied /\ Previews!RunsAsAsked)
<1>1. Previews!Init => PreviewInv
  BY PreviewInvInit
<1>2. PreviewInv /\ [Previews!Next]_(Previews!previewVars) => PreviewInv'
  BY PreviewInvStep
<1>3. PreviewInv => Previews!TypeOK /\ Previews!NothingUnapplied /\ Previews!RunsAsAsked
  BY PreviewInvImplies
<1> QED
  BY <1>1, <1>2, <1>3, PTL DEF Previews!Spec

-----------------------------------------------------------------------------
(* Bracketing                                                                *)

RingConstants == RingSize \in Nat \ {0} /\ BracketRange \in Nat \ {0} /\ MaxImages \in Nat

(* Places of the ring: the n-th buffer after l.                               *)
LEMMA AfterIs ==
  ASSUME RingConstants, NEW l \in Ring!Ring, NEW n \in 1 .. RingSize
  PROVE  Ring!After(l, n) \in Ring!Ring /\ Ring!After(l, n) = IF l + n < RingSize THEN l + n ELSE l + n - RingSize
<1>1. l \in Int /\ n \in Int /\ RingSize \in Nat \ {0} /\ 0 <= l /\ l < RingSize /\ 1 <= n /\ n <= RingSize
  BY DEF RingConstants, Ring!Ring
<1>2. CASE l + n < RingSize
  <2>1. (l + n) % RingSize = l + n
    BY <1>1, <1>2
  <2> QED
    BY <1>1, <1>2, <2>1 DEF Ring!After, Ring!Ring
<1>3. CASE l + n >= RingSize
  <2>1. (l + n) % RingSize = l + n - RingSize
    BY <1>1, <1>3
  <2> QED
    BY <1>1, <1>3, <2>1 DEF Ring!After, Ring!Ring
<1> QED
  BY <1>1, <1>2, <1>3

LEMMA PlacesDiffer ==
  ASSUME RingConstants, NEW l \in Ring!Ring, NEW m \in 1 .. RingSize, NEW n \in 1 .. RingSize, m # n
  PROVE  Ring!After(l, m) # Ring!After(l, n)
<1>1. /\ Ring!After(l, m) = IF l + m < RingSize THEN l + m ELSE l + m - RingSize
      /\ Ring!After(l, n) = IF l + n < RingSize THEN l + n ELSE l + n - RingSize
  BY AfterIs
<1> QED
  BY <1>1 DEF RingConstants, Ring!Ring

LEMMA EveryPlace ==
  ASSUME RingConstants, NEW l \in Ring!Ring, NEW b \in Ring!Ring
  PROVE  \E n \in 1 .. RingSize : Ring!After(l, n) = b
<1>1. l \in Int /\ b \in Int /\ RingSize \in Nat \ {0} /\ 0 <= l /\ l < RingSize /\ 0 <= b /\ b < RingSize
  BY DEF RingConstants, Ring!Ring
<1>2. CASE l < b
  <2>1. b - l \in 1 .. RingSize
    BY <1>1, <1>2
  <2>2. Ring!After(l, b - l) = b
    BY <1>1, <1>2, <2>1, AfterIs
  <2> QED
    BY <2>1, <2>2
<1>3. CASE l >= b
  <2>1. RingSize + b - l \in 1 .. RingSize
    BY <1>1, <1>3
  <2>2. Ring!After(l, RingSize + b - l) = b
    BY <1>1, <1>3, <2>1, AfterIs
  <2> QED
    BY <2>1, <2>2
<1> QED
  BY <1>1, <1>2, <1>3

(* Seen from the next buffer, every other one is a place nearer.              *)
LEMMA PlacesFromNext ==
  ASSUME RingConstants, NEW l \in Ring!Ring
  PROVE  /\ Ring!After(l, 1) \in Ring!Ring /\ Ring!After(l, RingSize) = l
         /\ \A n \in 1 .. RingSize - 1 : Ring!After(Ring!After(l, 1), n) = Ring!After(l, n + 1)
<1>1. RingSize \in Nat \ {0} /\ 1 \in 1 .. RingSize /\ RingSize \in 1 .. RingSize /\ l \in Int /\ 0 <= l /\ l < RingSize
  BY DEF RingConstants, Ring!Ring
<1>2. Ring!After(l, 1) \in Ring!Ring /\ Ring!After(l, 1) = IF l + 1 < RingSize THEN l + 1 ELSE l + 1 - RingSize
  BY <1>1, AfterIs
<1>3. Ring!After(l, RingSize) = l
  BY <1>1, AfterIs
<1>4. ASSUME NEW n \in 1 .. RingSize - 1 PROVE Ring!After(Ring!After(l, 1), n) = Ring!After(l, n + 1)
  <2>1. n \in 1 .. RingSize /\ n + 1 \in 1 .. RingSize
    BY <1>1
  <2>2. Ring!After(l, n + 1) = IF l + (n + 1) < RingSize THEN l + (n + 1) ELSE l + (n + 1) - RingSize
    BY <2>1, AfterIs
  <2>3. \A k \in Ring!Ring : Ring!After(k, n) = IF k + n < RingSize THEN k + n ELSE k + n - RingSize
    BY <2>1, AfterIs
  <2>4. Ring!After(Ring!After(l, 1), n) = IF Ring!After(l, 1) + n < RingSize THEN Ring!After(l, 1) + n ELSE Ring!After(l, 1) + n - RingSize
    BY <1>2, <2>3
  <2> HIDE DEF Ring!After
  <2> QED
    BY <1>1, <1>2, <2>1, <2>2, <2>4
<1> QED
  BY <1>2, <1>3, <1>4

Turning == bPc \in {"enable", "commit"} \/ (bState = "bracketing" /\ bPc = "idle")

RingTypes ==
  /\ Ring!TypeOK /\ enabled \in BOOLEAN /\ escaped \in BOOLEAN /\ atComponent \in Seq(Ring!Ring)
  /\ images \in Nat /\ stamp \in [Ring!Ring -> Nat] /\ sent \in Seq(Nat)
  /\ bPc \in {"idle", "enable", "commit", "stop"}
RingPhases ==
  /\ bPc \in {"enable", "commit"} => bState = "preview"
  /\ bPc = "stop" => bState = "bracketing" /\ atComponent = <<>>
  /\ enabled <=> bPc = "commit" \/ bState = "bracketing"
  /\ bState = "preview" /\ bPc = "idle" => atComponent = <<>>
  /\ bState # "capture" => atApp = {}

(* The component has the last places of the ring, in order; they are queued,  *)
(* and no others while no image has escaped.                                  *)
LastPlaces ==
  LET L == Len(atComponent)
  IN /\ count \in 1 .. RingSize /\ L <= count /\ (~escaped => count = L)
     /\ \A i \in 1 .. L : atComponent[i] = Ring!After(last, RingSize - L + i)
     /\ \A n \in 1 .. RingSize : n > RingSize - L => queued[Ring!After(last, n)]
     /\ ~escaped => \A n \in 1 .. RingSize : queued[Ring!After(last, n)] => n > RingSize - L

(* The images that are kept are newer than all that were sent, and the newer  *)
(* the farther their place.                                                   *)
KeptInOrder ==
  /\ \A m, n \in 1 .. RingSize :
       m < n /\ ~queued[Ring!After(last, m)] /\ ~queued[Ring!After(last, n)]
         => stamp[Ring!After(last, m)] < stamp[Ring!After(last, n)]
  /\ \A b \in Ring!Ring : ~queued[b] => \A i \in 1 .. Len(sent) : sent[i] < stamp[b]
RingShape == Turning => LastPlaces /\ KeptInOrder

(* No image is newer than the last one.                                       *)
UpToNow == (\A b \in Ring!Ring : stamp[b] <= images) /\ (\A i \in 1 .. Len(sent) : sent[i] <= images)

RingInv == RingTypes /\ RingPhases /\ RingShape /\ UpToNow /\ Ring!SentInOrder

LEMMA RingInvInit == ASSUME RingConstants, Ring!Init PROVE RingInv
<1>1. /\ bState = "preview" /\ bPc = "idle" /\ enabled = FALSE /\ escaped = FALSE /\ atComponent = <<>> /\ atApp = {}
      /\ sent = <<>> /\ images = 0 /\ count = 0 /\ last = 0 /\ captured = 1
      /\ queued = [b \in Ring!Ring |-> FALSE] /\ stamp = [b \in Ring!Ring |-> 0]
  BY DEF Ring!Init
<1>2. 0 \in Ring!Ring /\ 0 \in 0 .. RingSize /\ 1 \in 0 .. 2 * BracketRange - 1
  BY DEF RingConstants, Ring!Ring
<1>3. RingTypes
  <2>1. Ring!TypeOK
    BY <1>1, <1>2 DEF Ring!TypeOK
  <2>2. <<>> \in Seq(Ring!Ring) /\ <<>> \in Seq(Nat)
    OBVIOUS
  <2> QED
    BY <1>1, <2>1, <2>2 DEF RingTypes
<1>4. RingPhases /\ ~Turning
  BY <1>1 DEF RingPhases, Turning
<1>5. UpToNow /\ Ring!SentInOrder
  BY <1>1 DEF UpToNow, Ring!SentInOrder
<1> QED
  BY <1>3, <1>4, <1>5 DEF RingInv, RingShape

(* All buffers of the ring go to the component.                               *)
LEMMA RingStartStep == ASSUME RingConstants, RingInv, Ring!StartBracketing PROVE RingInv'
<1>1. /\ bState = "preview" /\ bPc = "idle" /\ bPc' = "enable"
      /\ queued' = [b \in Ring!Ring |-> TRUE] /\ count' = RingSize /\ last' = RingSize - 1
      /\ atComponent' = [i \in 1 .. RingSize |-> i - 1] /\ captured' = 1
      /\ UNCHANGED <<bState, enabled, atApp, stamp, images, sent, escaped>>
  BY DEF Ring!StartBracketing
<1>2. RingSize \in Nat \ {0} /\ BracketRange \in Nat \ {0}
  BY DEF RingConstants
<1>3. /\ last' \in Ring!Ring /\ count' \in 1 .. RingSize /\ count' \in 0 .. RingSize /\ 1 \in 0 .. 2 * BracketRange - 1
      /\ queued' \in [Ring!Ring -> BOOLEAN]
  BY <1>1, <1>2 DEF Ring!Ring
<1>4. atComponent' \in Seq(Ring!Ring) /\ Len(atComponent') = RingSize
  BY <1>1, <1>2 DEF Ring!Ring
<1>5. RingTypes'
  BY <1>1, <1>3, <1>4 DEF RingInv, RingTypes, Ring!TypeOK
<1>6. RingPhases'
  BY <1>1 DEF RingInv, RingPhases
<1>7. \A n \in 1 .. RingSize : Ring!After(last', n) \in Ring!Ring
  BY <1>3, AfterIs
<1>8. LastPlaces'
  <2>1. ASSUME NEW i \in 1 .. RingSize PROVE atComponent'[i] = Ring!After(last', RingSize - RingSize + i)
    <3>1. Ring!After(last', i) = IF last' + i < RingSize THEN last' + i ELSE last' + i - RingSize
      BY <1>3, AfterIs
    <3>2. atComponent'[i] = i - 1 /\ RingSize - RingSize + i = i
      BY <1>1, <1>2
    <3> QED
      BY <1>1, <1>2, <3>1, <3>2
  <2>2. \A n \in 1 .. RingSize : queued'[Ring!After(last', n)]
    BY <1>1, <1>7
  <2> QED
    BY <1>1, <1>2, <1>3, <1>4, <2>1, <2>2 DEF LastPlaces
<1>9. KeptInOrder'
  BY <1>1, <1>7 DEF KeptInOrder
<1> QED
  BY <1>1, <1>5, <1>6, <1>8, <1>9 DEF RingInv, RingShape, UpToNow, Ring!SentInOrder

(* The other steps of the calls do not touch the ring.                        *)
LEMMA RingCallStep ==
  ASSUME RingConstants, RingInv, Ring!Enable \/ Ring!Commit \/ Ring!StopImageCapture \/ Ring!StopBracketing
  PROVE  RingInv'
<1>1. /\ UNCHANGED <<stamp, images, sent, captured, escaped>>
      /\ bPc' \in {"idle", "enable", "commit", "stop"} /\ bState' \in {"preview", "bracketing", "capture"} /\ enabled' \in BOOLEAN
      /\ UNCHANGED <<atComponent, atApp>> \/ (atComponent' = <<>> /\ atApp' = {})
  BY DEF RingInv, RingTypes, Ring!TypeOK, Ring!Enable, Ring!Commit, Ring!StopImageCapture, Ring!StopBracketing,
         Ring!ring, Ring!burstVars
<1>2. /\ UNCHANGED <<queued, count, last>> \/ (queued' = [b \in Ring!Ring |-> FALSE] /\ count' = 0 /\ last' = 0)
      /\ Turning' => Turning /\ UNCHANGED <<queued, count, last, atComponent>>
  BY DEF RingInv, RingTypes, RingPhases, Turning, Ring!Enable, Ring!Commit, Ring!StopImageCapture,
     Ring!StopBracketing,
         Ring!ring, Ring!burstVars
<1>3. RingPhases'
  <2>1. CASE Ring!Enable \/ Ring!Commit
    BY <2>1 DEF RingInv, RingTypes, RingPhases, Ring!Enable, Ring!Commit
  <2>2. CASE Ring!StopImageCapture
    <3>1. /\ bState # "preview" /\ bPc = "idle" /\ enabled' = enabled /\ atComponent' = <<>> /\ atApp' = {}
          /\ \/ bState = "capture" /\ bState' = "preview" /\ bPc' = bPc
             \/ bState = "bracketing" /\ bState' = bState /\ bPc' = "stop"
      BY <2>2 DEF RingInv, RingTypes, Ring!TypeOK, Ring!StopImageCapture
    <3> QED
      BY <3>1 DEF RingInv, RingTypes, RingPhases
  <2>3. CASE Ring!StopBracketing
    <3>1. bPc = "stop" /\ bPc' = "idle" /\ bState' = "preview" /\ enabled' = FALSE /\ UNCHANGED <<atComponent, atApp>>
      BY <2>3 DEF Ring!StopBracketing
    <3>2. bState = "bracketing" /\ atApp = {} /\ atComponent = <<>>
      BY <3>1 DEF RingInv, RingPhases
    <3> QED
      BY <3>1, <3>2 DEF RingPhases
  <2> QED
    BY <2>1, <2>2, <2>3
<1>4. RingTypes'
  <2>1. 0 \in Ring!Ring /\ 0 \in 0 .. RingSize /\ <<>> \in Seq(Ring!Ring)
    BY DEF RingConstants, Ring!Ring
  <2> QED
    BY <1>1, <1>2, <2>1 DEF RingInv, RingTypes, Ring!TypeOK
<1>5. RingShape'
  BY <1>1, <1>2 DEF RingInv, RingShape, LastPlaces, KeptInOrder
<1> QED
  BY <1>1, <1>3, <1>4, <1>5 DEF RingInv, UpToNow, Ring!SentInOrder

(* The images kept in the ring are sent, after all others.                    *)
LEMMA RingCardinality == ASSUME NEW S PROVE Ring!Cardinality(S) = Cardinality(S)
BY DEF Ring!Cardinality, Cardinality

LEMMA RingTakeStep == ASSUME RingConstants, RingInv, Ring!TakePicture PROVE RingInv'
<1> DEFINE held == {n \in 1 .. RingSize : ~queued[Ring!FromLast[n]]}
           h == Ring!Cardinality(held)
<1>a. Ring!SendBracketFrames
  BY DEF Ring!TakePicture
<1>1. PICK at \in [1 .. h -> held] :
        /\ \A i, j \in 1 .. h : i < j => at[i] < at[j]
        /\ sent' = sent \o [i \in 1 .. h |-> stamp[Ring!FromLast[at[i]]]]
        /\ atApp' = atApp \cup {Ring!FromLast[n] : n \in held}
        /\ captured' = IF h < BracketRange - 1 THEN BracketRange + (BracketRange - 1 - h) ELSE BracketRange
  BY <1>a, Zenon DEF Ring!SendBracketFrames
<1>2. /\ bState = "bracketing" /\ bPc = "idle" /\ bState' = "capture" /\ bPc' = "idle" /\ enabled' = FALSE
      /\ UNCHANGED <<queued, count, last, atComponent, stamp, images, escaped>>
  BY DEF Ring!TakePicture, Ring!ring
<1>3. RingSize \in Nat \ {0} /\ BracketRange \in Nat \ {0} /\ last \in Ring!Ring
  BY DEF RingConstants, RingInv, RingTypes, Ring!TypeOK
<1>4. \A n \in 1 .. RingSize : Ring!FromLast[n] = Ring!After(last, n) /\ Ring!FromLast[n] \in Ring!Ring
  BY <1>3, AfterIs DEF Ring!FromLast
<1>5. h \in Nat
  <2>1. IsFiniteSet(1 .. RingSize)
    BY <1>3, FS_Interval
  <2>2. held \subseteq 1 .. RingSize
    OBVIOUS
  <2> QED
    BY <2>1, <2>2, FS_Subset, FS_CardinalityType, RingCardinality
<1> DEFINE new == [i \in 1 .. h |-> stamp[Ring!FromLast[at[i]]]]
<1>6. \A i \in 1 .. h : at[i] \in 1 .. RingSize /\ ~queued[Ring!FromLast[at[i]]] /\ Ring!FromLast[at[i]] \in Ring!Ring
  BY <1>1, <1>4
<1> HIDE DEF held, h
<1>7. new \in Seq(Nat) /\ Len(new) = h /\ \A i \in 1 .. h : new[i] = stamp[Ring!FromLast[at[i]]]
  <2>1. \A i \in 1 .. h : stamp[Ring!FromLast[at[i]]] \in Nat
    BY <1>6 DEF RingInv, RingTypes
  <2> QED
    BY <1>5, <2>1
<1>8. LastPlaces /\ KeptInOrder
  BY <1>2 DEF RingInv, RingShape, Turning
<1>9. \A i, j \in 1 .. h : i < j => new[i] < new[j]
  BY <1>1, <1>4, <1>6, <1>7, <1>8 DEF KeptInOrder
<1>10. \A j \in 1 .. h : new[j] \in Nat /\ new[j] <= images /\ \A i \in 1 .. Len(sent) : sent[i] < new[j]
  <2> SUFFICES ASSUME NEW j \in 1 .. h
               PROVE  new[j] \in Nat /\ new[j] <= images /\ \A i \in 1 .. Len(sent) : sent[i] < new[j]
    OBVIOUS
  <2> DEFINE b == Ring!FromLast[at[j]]
  <2>1. new[j] = stamp[b] /\ b \in Ring!Ring /\ ~queued[b]
    BY <1>6, <1>7
  <2> HIDE DEF new, b
  <2> QED
    BY <1>8, <2>1 DEF KeptInOrder, RingInv, RingTypes, UpToNow
<1>11. sent' = sent \o new /\ sent \in Seq(Nat)
  BY <1>1 DEF RingInv, RingTypes
<1> HIDE DEF new
<1>12. /\ sent' \in Seq(Nat) /\ Len(sent') = Len(sent) + h /\ Len(sent) \in Nat
       /\ \A i \in 1 .. Len(sent') : sent'[i] = IF i <= Len(sent) THEN sent[i] ELSE new[i - Len(sent)]
  BY <1>5, <1>7, <1>11, ConcatProperties
<1>13. \A i \in 1 .. Len(sent') : i > Len(sent) => i - Len(sent) \in 1 .. h
  BY <1>5, <1>12
<1>14. UpToNow'
  <2>1. ASSUME NEW i \in 1 .. Len(sent') PROVE sent'[i] <= images
    BY <1>10, <1>12, <1>13 DEF RingInv, UpToNow
  <2> QED
    BY <1>2, <2>1 DEF RingInv, UpToNow
<1>15. Ring!SentInOrder'
  <2>1. DOMAIN sent' = 1 .. Len(sent') /\ DOMAIN sent = 1 .. Len(sent)
    BY <1>11, <1>12
  <2> SUFFICES ASSUME NEW i \in 1 .. Len(sent'), NEW j \in 1 .. Len(sent'), i < j PROVE sent'[i] < sent'[j]
    BY <2>1 DEF Ring!SentInOrder
  <2>2. CASE j <= Len(sent)
    <3>1. i \in 1 .. Len(sent) /\ j \in 1 .. Len(sent)
      BY <1>12, <2>2
    <3> QED
      BY <1>12, <2>1, <3>1 DEF RingInv, Ring!SentInOrder
  <2>3. CASE j > Len(sent) /\ i <= Len(sent)
    <3>1. i \in 1 .. Len(sent)
      BY <1>12, <2>3
    <3>2. sent'[i] = sent[i] /\ sent'[j] = new[j - Len(sent)]
      BY <1>12, <2>3, <3>1
    <3>3. j - Len(sent) \in 1 .. h
      BY <1>13, <2>3
    <3> QED
      BY <1>10, <3>1, <3>2, <3>3
  <2>4. CASE i > Len(sent)
    <3>1. j > Len(sent) /\ i - Len(sent) < j - Len(sent)
      BY <1>12, <2>4
    <3>2. sent'[i] = new[i - Len(sent)] /\ sent'[j] = new[j - Len(sent)]
      BY <1>12, <2>4, <3>1
    <3> QED
      BY <1>9, <1>13, <2>4, <3>1, <3>2
  <2> QED
    BY <1>12, <2>2, <2>3, <2>4
<1>16. RingTypes'
  <2>1. captured' \in 0 .. 2 * BracketRange - 1
    BY <1>1, <1>3, <1>5
  <2>2. atApp' \subseteq Ring!Ring
    <3>1. \A n \in held : Ring!FromLast[n] \in Ring!Ring
      BY <1>4 DEF held
    <3> QED
      BY <1>1, <3>1 DEF RingInv, RingTypes, Ring!TypeOK
  <2> QED
    BY <1>2, <1>12, <2>1, <2>2 DEF RingInv, RingTypes, Ring!TypeOK
<1>17. RingPhases' /\ ~Turning'
  BY <1>2 DEF RingPhases, Turning
<1> QED
  BY <1>14, <1>15, <1>16, <1>17 DEF RingInv, RingShape

LEMMA RingReturnStep == ASSUME RingConstants, RingInv, Ring!ReturnFrame PROVE RingInv'
<1>1. /\ UNCHANGED <<bState, bPc, enabled, queued, count, last, stamp, images, sent, captured, escaped>>
      /\ ~enabled /\ bPc # "stop" /\ atApp # {} /\ atApp' \subseteq atApp
      /\ atComponent' = atComponent \/ \E b \in atApp : atComponent' = Append(atComponent, b)
  BY DEF Ring!ReturnFrame, Ring!ring
<1>2. bState = "capture" /\ bPc = "idle"
  BY <1>1 DEF RingInv, RingTypes, Ring!TypeOK, RingPhases
<1>3. atComponent' \in Seq(Ring!Ring)
  <2>1. atComponent \in Seq(Ring!Ring) /\ \A b \in atApp : b \in Ring!Ring
    BY DEF RingInv, RingTypes, Ring!TypeOK
  <2>2. \A b \in Ring!Ring : Append(atComponent, b) \in Seq(Ring!Ring)
    BY <2>1, AppendProperties
  <2> QED
    BY <1>1, <2>1, <2>2
<1>4. RingTypes' /\ RingPhases' /\ ~Turning'
  BY <1>1, <1>2, <1>3 DEF RingInv, RingTypes, Ring!TypeOK, RingPhases, Turning
<1> QED
  BY <1>1, <1>4 DEF RingInv, RingShape, UpToNow, Ring!SentInOrder

(* The next image: what the ring's shape says of its buffer.                  *)
LEMMA HeadOfRing ==
  ASSUME RingConstants, RingTypes, LastPlaces, atComponent # <<>>
  PROVE  /\ Len(atComponent) \in 1 .. RingSize /\ RingSize - Len(atComponent) + 1 \in 1 .. RingSize
         /\ Head(atComponent) = Ring!After(last, RingSize - Len(atComponent) + 1) /\ queued[Head(atComponent)]
         /\ Tail(atComponent) \in Seq(Ring!Ring) /\ Len(Tail(atComponent)) = Len(atComponent) - 1
         /\ \A i \in 1 .. Len(Tail(atComponent)) :
              Tail(atComponent)[i] = Ring!After(last, RingSize - Len(Tail(atComponent)) + i)
<1>1. /\ atComponent \in Seq(Ring!Ring) /\ RingSize \in Nat \ {0} /\ count \in 1 .. RingSize
      /\ Len(atComponent) <= count
  BY DEF RingConstants, RingTypes, LastPlaces
<1>2. Len(atComponent) \in 1 .. RingSize
  BY <1>1
<1>3. RingSize - Len(atComponent) + 1 \in 1 .. RingSize /\ RingSize - Len(atComponent) + 1 > RingSize - Len(atComponent)
  BY <1>1, <1>2
<1>4. Head(atComponent) = Ring!After(last, RingSize - Len(atComponent) + 1)
  BY <1>1, <1>2 DEF LastPlaces
<1>5. /\ Tail(atComponent) \in Seq(Ring!Ring) /\ Len(Tail(atComponent)) = Len(atComponent) - 1
      /\ \A i \in 1 .. Len(Tail(atComponent)) : Tail(atComponent)[i] = atComponent[i + 1]
  BY <1>1, <1>2
<1>6. ASSUME NEW i \in 1 .. Len(Tail(atComponent))
      PROVE  Tail(atComponent)[i] = Ring!After(last, RingSize - Len(Tail(atComponent)) + i)
  <2>1. i + 1 \in 1 .. Len(atComponent) /\ RingSize - Len(Tail(atComponent)) + i = RingSize - Len(atComponent) + (i + 1)
    BY <1>1, <1>2, <1>5
  <2>2. atComponent[i + 1] = Ring!After(last, RingSize - Len(atComponent) + (i + 1))
    BY <2>1 DEF LastPlaces
  <2> QED
    BY <1>5, <2>1, <2>2
<1> QED
  BY <1>2, <1>3, <1>4, <1>5, <1>6 DEF LastPlaces

(* An image that comes before the bracketing is committed is dropped.         *)
LEMMA RingEscapeStep ==
  ASSUME RingConstants, RingInv, Ring!FillBufferDone, bState = "preview"
  PROVE  RingInv'
<1>1. PICK b \in Ring!Ring : Ring!Filled(b) /\ atComponent' = Tail(atComponent) /\ escaped' = TRUE
  BY DEF Ring!FillBufferDone
<1>2. /\ UNCHANGED <<bState, bPc, enabled, queued, count, last, atApp, sent, captured>>
      /\ b = Head(atComponent) /\ images' = images + 1 /\ stamp' = [stamp EXCEPT ![b] = images'] /\ atComponent # <<>>
  BY <1>1 DEF Ring!FillBufferDone, Ring!Filled, Ring!ring
<1>3. Turning /\ LastPlaces /\ KeptInOrder /\ RingTypes
  BY <1>2 DEF RingInv, RingTypes, RingPhases, RingShape, Turning
<1>4. /\ Len(atComponent) \in 1 .. RingSize /\ b = Ring!After(last, RingSize - Len(atComponent) + 1) /\ queued[b]
      /\ Tail(atComponent) \in Seq(Ring!Ring) /\ Len(Tail(atComponent)) = Len(atComponent) - 1
      /\ \A i \in 1 .. Len(Tail(atComponent)) :
           Tail(atComponent)[i] = Ring!After(last, RingSize - Len(Tail(atComponent)) + i)
  BY <1>2, <1>3, HeadOfRing
<1>5. RingTypes'
  BY <1>1, <1>2, <1>3, <1>4 DEF RingTypes, Ring!TypeOK
<1>6. RingPhases'
  BY <1>2, <1>3 DEF RingInv, RingPhases, Turning
<1>7. LastPlaces'
  <2>1. /\ RingSize \in Nat /\ Len(atComponent) \in Nat /\ count \in 1 .. RingSize /\ Len(atComponent) <= count
    <3>1. RingSize \in Nat
      BY DEF RingConstants
    <3>2. count \in 1 .. RingSize /\ Len(atComponent) <= count
      BY <1>3 DEF LastPlaces
    <3> QED
      BY <1>4, <3>1, <3>2
  <2>2. Len(Tail(atComponent)) <= count
    BY <1>4, <2>1
  <2>3. \A n \in 1 .. RingSize : n > RingSize - Len(Tail(atComponent)) => queued[Ring!After(last, n)]
    <3>1. \A n \in 1 .. RingSize : n > RingSize - Len(Tail(atComponent)) => n > RingSize - Len(atComponent)
      BY <1>4, <2>1
    <3> QED
      BY <1>3, <3>1 DEF LastPlaces
  <2> QED
    BY <1>1, <1>2, <1>4, <2>1, <2>2, <2>3 DEF LastPlaces
<1>8. KeptInOrder'
  <2>1. \A c \in Ring!Ring : ~queued[c] => stamp'[c] = stamp[c]
    BY <1>2, <1>4 DEF RingInv, RingTypes
  <2>2. \A n \in 1 .. RingSize : Ring!After(last, n) \in Ring!Ring
    BY <1>3, AfterIs DEF RingTypes, Ring!TypeOK
  <2> QED
    BY <1>2, <1>3, <2>1, <2>2 DEF KeptInOrder
<1>9. UpToNow'
  BY <1>2, <1>3 DEF RingInv, RingTypes, UpToNow
<1> QED
  BY <1>2, <1>5, <1>6, <1>7, <1>8, <1>9 DEF RingInv, RingShape, Ring!SentInOrder

(* Once the picture is taken, the images are sent as they come.               *)
LEMMA RingSendStep ==
  ASSUME RingConstants, RingInv, Ring!FillBufferDone, bState # "preview", ~enabled
  PROVE  RingInv'
<1>1. PICK b \in Ring!Ring :
        /\ Ring!Filled(b) /\ atComponent' = Tail(atComponent)
        /\ IF captured < 1 THEN UNCHANGED <<sent, atApp, captured>>
           ELSE captured' = captured - 1 /\ sent' = Append(sent, images') /\ atApp' = atApp \cup {b}
  BY DEF Ring!FillBufferDone
<1>2. /\ UNCHANGED <<bState, bPc, enabled, queued, count, last, escaped>> /\ bPc # "stop"
      /\ images' = images + 1 /\ stamp' = [stamp EXCEPT ![b] = images'] /\ atComponent # <<>>
  BY <1>1 DEF Ring!FillBufferDone, Ring!Filled, Ring!ring
<1>3. bState = "capture" /\ bPc = "idle" /\ ~Turning' /\ RingTypes /\ UpToNow /\ Ring!SentInOrder
  BY <1>2 DEF RingInv, RingTypes, RingPhases, Turning, Ring!TypeOK
<1>4. /\ images \in Nat /\ images' \in Nat /\ images < images' /\ sent \in Seq(Nat) /\ atComponent \in Seq(Ring!Ring)
      /\ captured \in 0 .. 2 * BracketRange - 1 /\ BracketRange \in Nat
  BY <1>2, <1>3 DEF RingConstants, RingTypes, Ring!TypeOK
<1>5. Tail(atComponent) \in Seq(Ring!Ring)
  BY <1>2, <1>4
<1>6. /\ captured' \in 0 .. 2 * BracketRange - 1 /\ atApp' \subseteq Ring!Ring
      /\ sent' = sent \/ sent' = Append(sent, images')
  BY <1>1, <1>3, <1>4 DEF RingTypes, Ring!TypeOK
<1>7. stamp' \in [Ring!Ring -> Nat] /\ \A c \in Ring!Ring : stamp'[c] <= images'
  BY <1>2, <1>3, <1>4 DEF RingTypes, UpToNow
<1>8. /\ sent' \in Seq(Nat) /\ \A i \in 1 .. Len(sent') : sent'[i] <= images'
      /\ \A i, j \in 1 .. Len(sent') : i < j => sent'[i] < sent'[j]
  <2>1. /\ Len(sent) \in Nat /\ DOMAIN sent = 1 .. Len(sent)
        /\ \A i \in 1 .. Len(sent) : sent[i] \in Nat /\ sent[i] <= images /\ sent[i] < images'
        /\ \A i, j \in 1 .. Len(sent) : i < j => sent[i] < sent[j]
    BY <1>3, <1>4 DEF UpToNow, Ring!SentInOrder
  <2>2. CASE sent' = sent
    BY <1>4, <2>1, <2>2
  <2>3. CASE sent' = Append(sent, images')
    <3>1. /\ sent' \in Seq(Nat) /\ Len(sent') = Len(sent) + 1
          /\ \A i \in 1 .. Len(sent) : sent'[i] = sent[i]
          /\ sent'[Len(sent) + 1] = images'
      BY <1>4, <2>3, AppendProperties
    <3>2. \A i \in 1 .. Len(sent') : i \in 1 .. Len(sent) \/ i = Len(sent) + 1
      BY <2>1, <3>1
    <3>3. ASSUME NEW i \in 1 .. Len(sent') PROVE sent'[i] <= images'
      <4>1. images' \in Nat
        BY <1>4
      <4>2. CASE i \in 1 .. Len(sent)
        <5>1. sent'[i] = sent[i] /\ sent[i] \in Nat /\ sent[i] < images'
          BY <2>1, <3>1, <4>2
        <5> QED
          BY <4>1, <5>1
      <4>3. CASE i = Len(sent) + 1
        BY <3>1, <4>1, <4>3
      <4> QED
        BY <3>2, <4>2, <4>3
    <3>4. ASSUME NEW i \in 1 .. Len(sent'), NEW j \in 1 .. Len(sent'), i < j PROVE sent'[i] < sent'[j]
      <4>1. i \in 1 .. Len(sent)
        BY <2>1, <3>1, <3>4
      <4>2. CASE j \in 1 .. Len(sent)
        BY <2>1, <3>1, <3>4, <4>1, <4>2
      <4>3. CASE j = Len(sent) + 1
        BY <2>1, <3>1, <4>1, <4>3
      <4> QED
        BY <3>2, <4>2, <4>3
    <3> QED
      BY <3>1, <3>3, <3>4
  <2> QED
    BY <1>6, <2>2, <2>3
<1>9. RingTypes'
  BY <1>1, <1>2, <1>3, <1>4, <1>5, <1>6, <1>7, <1>8 DEF RingTypes, Ring!TypeOK
<1>10. RingPhases'
  BY <1>2, <1>3 DEF RingInv, RingPhases
<1>11. UpToNow' /\ Ring!SentInOrder'
  <2>1. DOMAIN sent' = 1 .. Len(sent')
    BY <1>8
  <2> QED
    BY <1>7, <1>8, <2>1 DEF UpToNow, Ring!SentInOrder
<1> QED
  BY <1>3, <1>9, <1>10, <1>11 DEF RingInv, RingShape

(* doBracketing(): an image is kept, and the ring turns when the component    *)
(* has none left.                                                             *)
LEMMA RingKeepStep ==
  ASSUME RingConstants, RingInv, Ring!FillBufferDone, bState # "preview", enabled
  PROVE  RingInv'
<1>1. PICK b \in Ring!Ring : Ring!Filled(b) /\ Ring!DoBracketing(b) /\ UNCHANGED <<atApp, sent, captured, escaped>>
  BY DEF Ring!FillBufferDone
<1>2. /\ UNCHANGED <<bState, bPc, enabled, atApp, sent, captured, escaped>> /\ bPc # "stop"
      /\ b = Head(atComponent) /\ images' = images + 1 /\ stamp' = [stamp EXCEPT ![b] = images'] /\ atComponent # <<>>
  BY <1>1 DEF Ring!FillBufferDone, Ring!Filled
<1>3. Turning /\ LastPlaces /\ KeptInOrder /\ RingTypes /\ UpToNow
  BY <1>2 DEF RingInv, RingTypes, RingPhases, RingShape, Turning
<1> DEFINE L == Len(atComponent)
<1>4. /\ L \in 1 .. RingSize /\ RingSize - L + 1 \in 1 .. RingSize
      /\ b = Ring!After(last, RingSize - L + 1) /\ queued[b]
      /\ Tail(atComponent) \in Seq(Ring!Ring) /\ Len(Tail(atComponent)) = L - 1
      /\ \A i \in 1 .. Len(Tail(atComponent)) :
           Tail(atComponent)[i] = Ring!After(last, RingSize - Len(Tail(atComponent)) + i)
  BY <1>2, <1>3, HeadOfRing
<1>5. /\ RingSize \in Nat \ {0} /\ L \in Nat /\ count \in 1 .. RingSize /\ L <= count /\ last \in Ring!Ring
      /\ queued \in [Ring!Ring -> BOOLEAN] /\ stamp \in [Ring!Ring -> Nat] /\ images \in Nat /\ sent \in Seq(Nat)
      /\ atComponent \in Seq(Ring!Ring)
  <2>1. count \in 1 .. RingSize /\ L <= count
    BY <1>3 DEF LastPlaces
  <2>2. RingSize \in Nat \ {0} /\ L \in Nat
    BY <1>4 DEF RingConstants
  <2> HIDE DEF L
  <2> QED
    BY <1>3, <2>1, <2>2 DEF RingTypes, Ring!TypeOK
<1> HIDE DEF L
<1>6. \A n \in 1 .. RingSize : Ring!After(last, n) \in Ring!Ring
  BY <1>5, AfterIs
<1>7. \A m, n \in 1 .. RingSize : m # n => Ring!After(last, m) # Ring!After(last, n)
  BY <1>5, PlacesDiffer
<1>8. /\ stamp' \in [Ring!Ring -> Nat] /\ stamp'[b] = images' /\ images' \in Nat /\ images < images'
      /\ \A c \in Ring!Ring : c # b => stamp'[c] = stamp[c]
  BY <1>2, <1>5
<1>9. UpToNow'
  <2>1. \A c \in Ring!Ring : stamp[c] <= images /\ stamp[c] \in Nat
    BY <1>3, <1>5 DEF UpToNow
  <2>2. ASSUME NEW c \in Ring!Ring PROVE stamp'[c] <= images'
    <3>1. stamp[c] <= images /\ stamp[c] \in Nat /\ (c = b \/ stamp'[c] = stamp[c])
      BY <1>8, <2>1
    <3> QED
      BY <1>5, <1>8, <3>1
  <2>3. \A i \in 1 .. Len(sent) : sent[i] <= images'
    BY <1>3, <1>5, <1>8 DEF UpToNow
  <2> QED
    BY <1>2, <2>2, <2>3 DEF UpToNow
(* Among the places of the old ring: b is the farthest that is kept.          *)
<1>10. \A m, n \in 1 .. RingSize :
         m < n /\ (Ring!After(last, m) = b \/ ~queued[Ring!After(last, m)])
               /\ (Ring!After(last, n) = b \/ ~queued[Ring!After(last, n)])
           => stamp'[Ring!After(last, m)] < stamp'[Ring!After(last, n)]
  <2> SUFFICES ASSUME NEW m \in 1 .. RingSize, NEW n \in 1 .. RingSize, m < n,
                      Ring!After(last, m) = b \/ ~queued[Ring!After(last, m)],
                      Ring!After(last, n) = b \/ ~queued[Ring!After(last, n)]
               PROVE  stamp'[Ring!After(last, m)] < stamp'[Ring!After(last, n)]
    OBVIOUS
  <2>1. m # RingSize - L + 1
    <3> SUFFICES ASSUME m = RingSize - L + 1 PROVE FALSE
      OBVIOUS
    <3>1. n > RingSize - L /\ n # RingSize - L + 1
      BY <1>4, <1>5
    <3>2. queued[Ring!After(last, n)]
      BY <1>3, <3>1 DEF LastPlaces, L
    <3> QED
      BY <1>4, <1>7, <3>1, <3>2
  <2>2. Ring!After(last, m) # b /\ Ring!After(last, m) \in Ring!Ring
    BY <1>4, <1>6, <1>7, <2>1
  <2>3. stamp'[Ring!After(last, m)] = stamp[Ring!After(last, m)] /\ stamp[Ring!After(last, m)] \in Nat
        /\ stamp[Ring!After(last, m)] <= images
    BY <1>3, <1>5, <1>8, <2>2 DEF UpToNow
  <2>4. CASE Ring!After(last, n) = b
    BY <1>5, <1>8, <2>3, <2>4
  <2>5. CASE Ring!After(last, n) # b
    BY <1>3, <1>6, <1>8, <2>2, <2>3, <2>5 DEF KeptInOrder
  <2> QED
    BY <2>4, <2>5
<1>11. \A c \in Ring!Ring : c = b \/ ~queued[c] => \A i \in 1 .. Len(sent) : sent[i] < stamp'[c]
  <2>1. \A i \in 1 .. Len(sent) : sent[i] <= images /\ sent[i] \in Nat
    BY <1>3, <1>5 DEF UpToNow
  <2>2. \A i \in 1 .. Len(sent) : sent[i] < stamp'[b]
    BY <1>5, <1>8, <2>1
  <2> QED
    BY <1>3, <1>8, <2>2 DEF KeptInOrder

<1>12. CASE count - 1 > 0
  <2>1. queued' = [queued EXCEPT ![b] = FALSE] /\ count' = count - 1 /\ last' = last /\ atComponent' = Tail(atComponent)
    BY <1>1, <1>5, <1>12 DEF Ring!DoBracketing
  <2>2. /\ queued' \in [Ring!Ring -> BOOLEAN] /\ ~queued'[b] /\ \A c \in Ring!Ring : c # b => queued'[c] = queued[c]
    BY <1>5, <2>1
  <2>3. count' \in 1 .. RingSize /\ count' \in 0 .. RingSize /\ L - 1 <= count'
    BY <1>5, <1>12, <2>1
  <2>4. RingTypes'
    BY <1>2, <1>3, <1>4, <1>5, <1>8, <2>1, <2>2, <2>3 DEF RingTypes, Ring!TypeOK
  <2>5. LastPlaces'
    <3>1. ~escaped => count' = L - 1
      BY <1>3, <1>5, <2>1 DEF LastPlaces, L
    <3>2. ASSUME NEW n \in 1 .. RingSize, n > RingSize - (L - 1) PROVE queued'[Ring!After(last, n)]
      <4>1. n > RingSize - L /\ n # RingSize - L + 1
        BY <1>5, <3>2
      <4>2. queued[Ring!After(last, n)] /\ Ring!After(last, n) # b
        BY <1>3, <1>4, <1>7, <4>1 DEF LastPlaces, L
      <4> QED
        BY <1>6, <2>2, <4>2
    <3>3. ASSUME ~escaped, NEW n \in 1 .. RingSize, queued'[Ring!After(last, n)] PROVE n > RingSize - (L - 1)
      <4>1. Ring!After(last, n) # b /\ queued[Ring!After(last, n)]
        BY <1>6, <2>2, <3>3
      <4>2. n > RingSize - L /\ n # RingSize - L + 1
        BY <1>3, <1>4, <3>3, <4>1 DEF LastPlaces, L
      <4> QED
        BY <1>5, <4>2
    <3> QED
      BY <1>2, <1>4, <2>1, <2>3, <3>1, <3>2, <3>3 DEF LastPlaces
  <2>6. KeptInOrder'
    <3>1. \A c \in Ring!Ring : ~queued'[c] => c = b \/ ~queued[c]
      BY <2>2
    <3> QED
      BY <1>2, <1>6, <1>10, <1>11, <2>1, <3>1 DEF KeptInOrder
  <2>7. RingPhases'
    BY <1>2, <1>3 DEF RingInv, RingPhases, Turning
  <2> QED
    BY <1>2, <1>9, <2>4, <2>5, <2>6, <2>7 DEF RingInv, RingShape, Ring!SentInOrder
<1>13. CASE count - 1 <= 0
  <2>1. count = 1 /\ L = 1 /\ RingSize - L + 1 = RingSize
    BY <1>4, <1>5, <1>13
  <2>2. b = last
    BY <1>4, <1>5, <2>1, PlacesFromNext
  <2>3. /\ queued' = [queued EXCEPT ![b] = FALSE, ![Ring!After(last, 1)] = TRUE] /\ count' = count
        /\ last' = Ring!After(last, 1) /\ atComponent' = Append(Tail(atComponent), Ring!After(last, 1))
    BY <1>1, <1>13, <2>2 DEF Ring!DoBracketing
  <2>4. /\ last' \in Ring!Ring /\ Ring!After(last', RingSize) = last'
        /\ \A n \in 1 .. RingSize - 1 : Ring!After(last', n) = Ring!After(last, n + 1)
    <3>1. Ring!After(last, 1) \in Ring!Ring
      BY <1>5, PlacesFromNext
    <3> QED
      BY <1>5, <2>3, <3>1, PlacesFromNext
  <2>5. /\ queued' \in [Ring!Ring -> BOOLEAN] /\ queued'[last'] /\ \A c \in Ring!Ring : c # b /\ c # last' => queued'[c] = queued[c]
    BY <1>5, <2>3, <2>4
  <2>6. atComponent' = <<last'>> /\ atComponent' \in Seq(Ring!Ring) /\ Len(atComponent') = 1 /\ atComponent'[1] = last'
    <3>1. Tail(atComponent) = <<>>
      <4>1. Len(Tail(atComponent)) = 0 /\ Tail(atComponent) \in Seq(Ring!Ring)
        BY <1>4, <2>1
      <4> QED
        BY <4>1, EmptySeq
    <3>2. Append(<<>>, last') = <<last'>>
      OBVIOUS
    <3>3. atComponent' = <<last'>>
      BY <2>3, <3>1, <3>2
    <3> QED
      BY <2>4, <3>3
  <2>7. RingTypes'
    <3>1. count' \in 0 .. RingSize
      BY <1>5, <2>3
    <3> QED
      BY <1>2, <1>3, <1>8, <2>4, <2>5, <2>6, <3>1 DEF RingTypes, Ring!TypeOK
  <2>8. LastPlaces'
    <3>1. count' = 1 /\ count' \in 1 .. RingSize
      BY <1>5, <2>1, <2>3
    <3>2. ASSUME NEW n \in 1 .. RingSize, n > RingSize - 1 PROVE n = RingSize
      BY <1>5, <3>2
    <3>3. ASSUME ~escaped, NEW n \in 1 .. RingSize, queued'[Ring!After(last', n)] PROVE n > RingSize - 1
      <4> SUFFICES ASSUME n <= RingSize - 1 PROVE FALSE
        BY <1>5
      <4>1. n \in 1 .. RingSize - 1 /\ n + 1 \in 1 .. RingSize /\ n + 1 # 1 /\ 1 \in 1 .. RingSize
        BY <1>5
      <4>2. Ring!After(last', n) = Ring!After(last, n + 1) /\ Ring!After(last, n + 1) # last'
        BY <1>7, <2>3, <2>4, <4>1
      <4>3. Ring!After(last, n + 1) = b \/ queued[Ring!After(last, n + 1)]
        BY <1>6, <2>5, <3>3, <4>1, <4>2
      <4>4. n + 1 = RingSize
        <5>1. CASE Ring!After(last, n + 1) = b
          <6>1. RingSize \in 1 .. RingSize /\ Ring!After(last, RingSize) = b
            BY <1>4, <2>1
          <6> QED
            BY <1>7, <4>1, <5>1, <6>1
        <5>2. CASE queued[Ring!After(last, n + 1)]
          <6>1. n + 1 > RingSize - 1
            BY <1>3, <2>1, <3>3, <4>1, <5>2 DEF LastPlaces, L
          <6> QED
            BY <1>5, <4>1, <6>1
        <5> QED
          BY <4>3, <5>1, <5>2
      <4>5. Ring!After(last, n + 1) = b /\ ~queued'[b]
        <5>1. b # last'
          BY <1>4, <2>1, <4>2, <4>4
        <5> QED
          BY <1>4, <1>5, <2>1, <2>3, <4>4, <5>1
      <4> QED
        BY <3>3, <4>2, <4>5
    <3>4. RingSize - 1 + 1 = RingSize
      BY <1>5
    <3> QED
      BY <1>2, <2>1, <2>4, <2>5, <2>6, <3>1, <3>2, <3>3, <3>4 DEF LastPlaces
  <2>9. KeptInOrder'
    <3>1. \A c \in Ring!Ring : ~queued'[c] => c = b \/ ~queued[c]
      BY <2>5
    <3>2. ASSUME NEW m \in 1 .. RingSize, NEW n \in 1 .. RingSize, m < n,
                 ~queued'[Ring!After(last', m)], ~queued'[Ring!After(last', n)]
          PROVE  stamp'[Ring!After(last', m)] < stamp'[Ring!After(last', n)]
      <4>1. n # RingSize
        BY <2>4, <2>5, <3>2
      <4>2. m \in 1 .. RingSize - 1 /\ n \in 1 .. RingSize - 1 /\ m + 1 \in 1 .. RingSize /\ n + 1 \in 1 .. RingSize /\ m + 1 < n + 1
        BY <1>5, <3>2, <4>1
      <4>3. Ring!After(last', m) = Ring!After(last, m + 1) /\ Ring!After(last', n) = Ring!After(last, n + 1)
        BY <2>4, <4>2
      <4>4. /\ Ring!After(last, m + 1) = b \/ ~queued[Ring!After(last, m + 1)]
            /\ Ring!After(last, n + 1) = b \/ ~queued[Ring!After(last, n + 1)]
        BY <1>6, <3>1, <3>2, <4>2, <4>3
      <4> QED
        BY <1>10, <4>2, <4>3, <4>4
    <3> QED
      BY <1>2, <1>11, <3>1, <3>2 DEF KeptInOrder
  <2>10. RingPhases'
    BY <1>2, <1>3 DEF RingInv, RingPhases, Turning
  <2> QED
    BY <1>2, <1>9, <2>7, <2>8, <2>9, <2>10 DEF RingInv, RingShape, Ring!SentInOrder
<1> QED
  BY <1>5, <1>12, <1>13

LEMMA RingInvStep ==
  ASSUME RingConstants, RingInv, Ring!Next \/ UNCHANGED Ring!ringVars
  PROVE  RingInv'
<1>1. CASE Ring!FillBufferDone
  BY <1>1, RingEscapeStep, RingSendStep, RingKeepStep
<1>2. CASE UNCHANGED Ring!ringVars
  BY <1>2 DEF RingInv, RingTypes, Ring!TypeOK, RingPhases, RingShape, LastPlaces, KeptInOrder, Turning, UpToNow,
              Ring!SentInOrder, Ring!ringVars
<1> QED
  BY <1>1, <1>2, RingStartStep, RingCallStep, RingTakeStep, RingReturnStep DEF Ring!Next

LEMMA RingInvImplies == ASSUME RingConstants, RingInv PROVE Ring!TypeOK /\ Ring!RingTurns /\ Ring!SentInOrder
<1>1. ASSUME enabled, bState = "bracketing", bPc = "idle", ~escaped
      PROVE  /\ {b \in Ring!Ring : queued[b]} = {atComponent[i] : i \in DOMAIN atComponent}
             /\ count = Len(atComponent) /\ count > 0
  <2>1. LastPlaces
    BY <1>1 DEF RingInv, RingShape, Turning
  <2> DEFINE L == Len(atComponent)
  <2>2. /\ RingSize \in Nat /\ atComponent \in Seq(Ring!Ring) /\ last \in Ring!Ring /\ count = L /\ count \in 1 .. RingSize
    BY <1>1, <2>1 DEF RingConstants, RingInv, RingTypes, Ring!TypeOK, LastPlaces
  <2>3. DOMAIN atComponent = 1 .. L /\ L \in 1 .. RingSize /\ \A i \in 1 .. L : atComponent[i] \in Ring!Ring
    BY <2>2
  <2>4. ASSUME NEW b \in Ring!Ring, queued[b] PROVE b \in {atComponent[i] : i \in DOMAIN atComponent}
    <3>1. PICK n \in 1 .. RingSize : Ring!After(last, n) = b
      BY <2>2, EveryPlace
    <3>2. n > RingSize - L
      BY <1>1, <2>1, <2>4, <3>1 DEF LastPlaces
    <3>3. n - (RingSize - L) \in 1 .. L /\ RingSize - L + (n - (RingSize - L)) = n
      BY <2>2, <2>3, <3>2
    <3>4. atComponent[n - (RingSize - L)] = b
      BY <2>1, <3>1, <3>3 DEF LastPlaces
    <3> QED
      BY <2>3, <3>3, <3>4
  <2>5. ASSUME NEW i \in 1 .. L PROVE queued[atComponent[i]]
    <3>1. RingSize - L + i \in 1 .. RingSize /\ RingSize - L + i > RingSize - L
      BY <2>2, <2>3
    <3> QED
      BY <2>1, <3>1 DEF LastPlaces
  <2> QED
    BY <2>2, <2>3, <2>4, <2>5
<1> QED
  BY <1>1 DEF RingInv, RingTypes, Ring!RingTurns

(* Temporal bracketing: the ring always has a buffer with the component, and  *)
(* the images are sent in the order they were taken, each once.               *)
THEOREM RingSendsInOrder ==
  ASSUME RingConstants
  PROVE  Ring!Spec => [](Ring!TypeOK /\ Ring!RingTurns /\ Ring!SentInOrder)
<1>1. Ring!Init => RingInv
  BY RingInvInit
<1>2. RingInv /\ [Ring!Next]_(Ring!ringVars) => RingInv'
  BY RingInvStep
<1>3. RingInv => Ring!TypeOK /\ Ring!RingTurns /\ Ring!SentInOrder
  BY RingInvImplies
<1> QED
  BY <1>1, <1>2, <1>3, PTL DEF Ring!Spec

-----------------------------------------------------------------------------
(* Reprocessing                                                              *)

ReprocessPcs == {"idle", "use", "enable", "useWait", "useLate", "stop", "stopWait", "stopLate", "stopped"}
ReprocessTypes ==
  /\ reprocessing \in {"preview", "loaded", "reprocess", "capture", "dead"} /\ reprocPc \in ReprocessPcs
  /\ mUseReprocessSem \in 0 .. 1 /\ mStopReprocSem \in Nat /\ registered \subseteq {"PortEnable", "PortDisable"}
  /\ header \in {"none", "live", "freed"} /\ reprocCommand \in {"none", "PortEnable", "PortDisable"}
  /\ videoInPort \in BOOLEAN /\ mReprocConfigured \in BOOLEAN /\ usedFreed \in BOOLEAN
  /\ halfStopped \in BOOLEAN /\ answeredLate \in BOOLEAN
  /\ reprocessing = "dead" => reprocPc = "idle"

(* The answer to the one command that enables the port is counted once.       *)
UseCounted ==
  /\ reprocPc \in {"useWait", "useLate"} =>
       /\ reprocCommand = "PortEnable" <=> "PortEnable" \in registered
       /\ mUseReprocessSem = IF "PortEnable" \in registered THEN 0 ELSE 1
  /\ reprocPc \notin {"useWait", "useLate"} /\ reprocessing # "dead" =>
       reprocCommand # "PortEnable" /\ "PortEnable" \notin registered /\ mUseReprocessSem = 0
  /\ reprocessing = "dead" => ~(reprocCommand = "PortEnable" /\ "PortEnable" \in registered)

(* No stop has failed, and no answer was counted after its time-out: nothing  *)
(* is left of the earlier calls, and the port follows the call's progress.    *)
Clean == ~halfStopped /\ ~answeredLate
NothingLeft ==
  /\ reprocPc # "stopWait" => mStopReprocSem = 0 /\ reprocCommand # "PortDisable" /\ "PortDisable" \notin registered
  /\ reprocPc = "stopWait" =>
       IF "PortDisable" \in registered THEN mStopReprocSem = 0 ELSE mStopReprocSem = 1 /\ reprocCommand = "none" /\ ~videoInPort
  /\ reprocPc # "stopLate" /\ ~usedFreed
  /\ reprocPc = "idle" => mUseReprocessSem = 0
PortFollows ==
  /\ reprocPc \in {"idle", "use", "stop", "enable"} /\ reprocessing # "dead" =>
       (videoInPort <=> mReprocConfigured) /\ (mReprocConfigured <=> header = "live")
  /\ reprocPc \in {"useWait", "useLate"} => header = "live" /\ (mUseReprocessSem = 1 => videoInPort)
  /\ reprocPc \in {"enable", "useWait", "useLate"} => ~mReprocConfigured
  /\ reprocPc = "stop" => mReprocConfigured
  /\ reprocPc = "stopWait" => header = "freed"
  /\ reprocPc = "stopped" => ~mReprocConfigured /\ ~videoInPort /\ header # "live"

ReprocessInv == ReprocessTypes /\ UseCounted /\ (Clean => NothingLeft /\ PortFollows)

LEMMA ReprocessInvInit == ASSUME Video!Init PROVE ReprocessInv
<1>1. /\ reprocessing = "preview" /\ reprocPc = "idle" /\ mReprocConfigured = FALSE
      /\ mUseReprocessSem = 0 /\ mStopReprocSem = 0 /\ registered = {} /\ reprocCommand = "none" /\ videoInPort = FALSE
      /\ header = "none" /\ usedFreed = FALSE /\ halfStopped = FALSE /\ answeredLate = FALSE
  BY DEF Video!Init, Video!NoCommand
<1>2. ReprocessTypes
  <2>1. reprocPc \in ReprocessPcs /\ 0 \in 0 .. 1 /\ 0 \in Nat
    BY <1>1 DEF ReprocessPcs
  <2> QED
    BY <1>1, <2>1 DEF ReprocessTypes
<1>a. UseCounted
  BY <1>1 DEF UseCounted
<1>3. NothingLeft /\ PortFollows
  BY <1>1 DEF NothingLeft, PortFollows
<1> QED
  BY <1>2, <1>a, <1>3 DEF ReprocessInv

LEMMA ReprocessUseBuffersReprocessStep == ASSUME ReprocessInv, Video!UseBuffersReprocess PROVE ReprocessInv'
<1>1. ReprocessTypes'
  BY DEF ReprocessInv, ReprocessTypes, ReprocessPcs, UseCounted, Video!UseBuffersReprocess, Video!waits,
     Video!buffer, Video!history, Video!limits
<1>2. UseCounted'
  BY DEF ReprocessInv, ReprocessTypes, ReprocessPcs, UseCounted, Video!UseBuffersReprocess, Video!waits,
     Video!buffer, Video!history, Video!limits
<1>3. ASSUME Clean' PROVE NothingLeft'
  BY <1>3 DEF ReprocessInv, ReprocessTypes, ReprocessPcs, UseCounted, Clean, NothingLeft, PortFollows,
     Video!UseBuffersReprocess, Video!waits, Video!buffer, Video!history, Video!limits
<1>4. ASSUME Clean' PROVE PortFollows'
  BY <1>4 DEF ReprocessInv, ReprocessTypes, ReprocessPcs, UseCounted, Clean, NothingLeft, PortFollows,
     Video!UseBuffersReprocess, Video!waits, Video!buffer, Video!history, Video!limits
<1> QED
  BY <1>1, <1>2, <1>3, <1>4 DEF ReprocessInv

LEMMA ReprocessSetParametersReprocessStep == ASSUME ReprocessInv, Video!SetParametersReprocess PROVE ReprocessInv'
<1>1. ReprocessTypes'
  BY DEF ReprocessInv, ReprocessTypes, ReprocessPcs, UseCounted, Video!SetParametersReprocess, Video!Fault,
     Video!waits, Video!buffer, Video!history, Video!limits
<1>2. UseCounted'
  BY DEF ReprocessInv, ReprocessTypes, ReprocessPcs, UseCounted, Video!SetParametersReprocess, Video!Fault,
     Video!waits, Video!buffer, Video!history, Video!limits
<1>3. ASSUME Clean' PROVE NothingLeft'
  BY <1>3 DEF ReprocessInv, ReprocessTypes, ReprocessPcs, UseCounted, Clean, NothingLeft, PortFollows,
     Video!SetParametersReprocess, Video!Fault, Video!waits, Video!buffer, Video!history, Video!limits
<1>4. ASSUME Clean' PROVE PortFollows'
  BY <1>4 DEF ReprocessInv, ReprocessTypes, ReprocessPcs, UseCounted, Clean, NothingLeft, PortFollows,
     Video!SetParametersReprocess, Video!Fault, Video!waits, Video!buffer, Video!history, Video!limits
<1> QED
  BY <1>1, <1>2, <1>3, <1>4 DEF ReprocessInv

LEMMA ReprocessEnablePortStep == ASSUME ReprocessInv, Video!EnablePort PROVE ReprocessInv'
<1>1. ReprocessTypes'
  BY DEF ReprocessInv, ReprocessTypes, ReprocessPcs, UseCounted, Video!EnablePort, Video!Fault, Video!CleanUp,
     Video!waits, Video!buffer, Video!history, Video!limits
<1>2. UseCounted'
  BY DEF ReprocessInv, ReprocessTypes, ReprocessPcs, UseCounted, Video!EnablePort, Video!Fault, Video!CleanUp,
     Video!waits, Video!buffer, Video!history, Video!limits
<1>3. ASSUME Clean' PROVE NothingLeft'
  BY <1>3 DEF ReprocessInv, ReprocessTypes, ReprocessPcs, UseCounted, Clean, NothingLeft, PortFollows,
     Video!EnablePort, Video!Fault, Video!CleanUp, Video!waits, Video!buffer, Video!history, Video!limits
<1>4. ASSUME Clean' PROVE PortFollows'
  BY <1>4 DEF ReprocessInv, ReprocessTypes, ReprocessPcs, UseCounted, Clean, NothingLeft, PortFollows,
     Video!EnablePort, Video!Fault, Video!CleanUp, Video!waits, Video!buffer, Video!history, Video!limits
<1> QED
  BY <1>1, <1>2, <1>3, <1>4 DEF ReprocessInv

LEMMA ReprocessUseWaitEndsStep == ASSUME ReprocessInv, Video!UseWaitEnds PROVE ReprocessInv'
<1>1. ReprocessTypes'
  <2>1. /\ reprocPc = "useWait" /\ reprocPc' \in {"idle", "useLate"} /\ reprocessing' \in {reprocessing, "loaded"}
        /\ mReprocConfigured' \in {TRUE, mReprocConfigured}
        /\ UNCHANGED <<mStopReprocSem, registered, reprocCommand, header, usedFreed, videoInPort, halfStopped, answeredLate>>
    BY DEF Video!UseWaitEnds, Video!waits, Video!buffer, Video!history, Video!limits
  <2>2. mUseReprocessSem' \in 0 .. 1
    BY DEF ReprocessInv, ReprocessTypes, Video!UseWaitEnds
  <2> QED
    BY <2>1, <2>2 DEF ReprocessInv, ReprocessTypes, ReprocessPcs
<1>2. UseCounted'
  BY DEF ReprocessInv, ReprocessTypes, ReprocessPcs, UseCounted, Video!UseWaitEnds, Video!Fault, Video!waits,
     Video!buffer, Video!history, Video!limits
<1>3. ASSUME Clean' PROVE NothingLeft'
  BY <1>3 DEF ReprocessInv, ReprocessTypes, ReprocessPcs, UseCounted, Clean, NothingLeft, PortFollows,
     Video!UseWaitEnds, Video!Fault, Video!waits, Video!buffer, Video!history, Video!limits
<1>4. ASSUME Clean' PROVE PortFollows'
  BY <1>4 DEF ReprocessInv, ReprocessTypes, ReprocessPcs, UseCounted, Clean, NothingLeft, PortFollows,
     Video!UseWaitEnds, Video!Fault, Video!waits, Video!buffer, Video!history, Video!limits
<1> QED
  BY <1>1, <1>2, <1>3, <1>4 DEF ReprocessInv

LEMMA ReprocessUseTimedOutStep == ASSUME ReprocessInv, Video!UseTimedOut PROVE ReprocessInv'
<1>1. ReprocessTypes'
  BY DEF ReprocessInv, ReprocessTypes, ReprocessPcs, UseCounted, Video!UseTimedOut, Video!CleanUp, Video!waits,
     Video!buffer, Video!history, Video!limits
<1>2. UseCounted'
  BY DEF ReprocessInv, ReprocessTypes, ReprocessPcs, UseCounted, Video!UseTimedOut, Video!CleanUp, Video!waits,
     Video!buffer, Video!history, Video!limits
<1>3. ASSUME Clean' PROVE NothingLeft'
  BY <1>3 DEF ReprocessInv, ReprocessTypes, ReprocessPcs, UseCounted, Clean, NothingLeft, PortFollows,
     Video!UseTimedOut, Video!CleanUp, Video!waits, Video!buffer, Video!history, Video!limits
<1>4. ASSUME Clean' PROVE PortFollows'
  BY <1>4 DEF ReprocessInv, ReprocessTypes, ReprocessPcs, UseCounted, Clean, NothingLeft, PortFollows,
     Video!UseTimedOut, Video!CleanUp, Video!waits, Video!buffer, Video!history, Video!limits
<1> QED
  BY <1>1, <1>2, <1>3, <1>4 DEF ReprocessInv

LEMMA ReprocessStartReprocessStep == ASSUME ReprocessInv, Video!StartReprocess PROVE ReprocessInv'
<1>1. ReprocessTypes'
  BY DEF ReprocessInv, ReprocessTypes, ReprocessPcs, UseCounted, Video!StartReprocess, Video!Fault, Video!CleanUp,
     Video!waits, Video!buffer, Video!history, Video!limits
<1>2. UseCounted'
  BY DEF ReprocessInv, ReprocessTypes, ReprocessPcs, UseCounted, Video!StartReprocess, Video!Fault, Video!CleanUp,
     Video!waits, Video!buffer, Video!history, Video!limits
<1>3. ASSUME Clean' PROVE NothingLeft'
  BY <1>3 DEF ReprocessInv, ReprocessTypes, ReprocessPcs, UseCounted, Clean, NothingLeft, PortFollows,
     Video!StartReprocess, Video!Fault, Video!CleanUp, Video!waits, Video!buffer, Video!history, Video!limits
<1>4. ASSUME Clean' PROVE PortFollows'
  BY <1>4 DEF ReprocessInv, ReprocessTypes, ReprocessPcs, UseCounted, Clean, NothingLeft, PortFollows,
     Video!StartReprocess, Video!Fault, Video!CleanUp, Video!waits, Video!buffer, Video!history, Video!limits
<1> QED
  BY <1>1, <1>2, <1>3, <1>4 DEF ReprocessInv

LEMMA ReprocessStopImageCaptureStep == ASSUME ReprocessInv, Video!StopImageCapture PROVE ReprocessInv'
<1>1. ReprocessTypes'
  BY DEF ReprocessInv, ReprocessTypes, ReprocessPcs, UseCounted, Video!StopImageCapture, Video!waits, Video!buffer,
     Video!history, Video!limits
<1>2. UseCounted'
  BY DEF ReprocessInv, ReprocessTypes, ReprocessPcs, UseCounted, Video!StopImageCapture, Video!waits, Video!buffer,
     Video!history, Video!limits
<1>3. ASSUME Clean' PROVE NothingLeft'
  BY <1>3 DEF ReprocessInv, ReprocessTypes, ReprocessPcs, UseCounted, Clean, NothingLeft, PortFollows,
     Video!StopImageCapture, Video!waits, Video!buffer, Video!history, Video!limits
<1>4. ASSUME Clean' PROVE PortFollows'
  BY <1>4 DEF ReprocessInv, ReprocessTypes, ReprocessPcs, UseCounted, Clean, NothingLeft, PortFollows,
     Video!StopImageCapture, Video!waits, Video!buffer, Video!history, Video!limits
<1> QED
  BY <1>1, <1>2, <1>3, <1>4 DEF ReprocessInv

LEMMA ReprocessDisablePortStep == ASSUME ReprocessInv, Video!DisablePort PROVE ReprocessInv'
<1>1. ReprocessTypes'
  BY DEF ReprocessInv, ReprocessTypes, ReprocessPcs, UseCounted, Video!DisablePort, Video!Fault, Video!waits,
     Video!buffer, Video!history, Video!limits
<1>2. UseCounted'
  BY DEF ReprocessInv, ReprocessTypes, ReprocessPcs, UseCounted, Video!DisablePort, Video!Fault, Video!waits,
     Video!buffer, Video!history, Video!limits
<1>3. ASSUME Clean' PROVE NothingLeft'
  BY <1>3 DEF ReprocessInv, ReprocessTypes, ReprocessPcs, UseCounted, Clean, NothingLeft, PortFollows,
     Video!DisablePort, Video!Fault, Video!waits, Video!buffer, Video!history, Video!limits
<1>4. ASSUME Clean' PROVE PortFollows'
  BY <1>4 DEF ReprocessInv, ReprocessTypes, ReprocessPcs, UseCounted, Clean, NothingLeft, PortFollows,
     Video!DisablePort, Video!Fault, Video!waits, Video!buffer, Video!history, Video!limits
<1> QED
  BY <1>1, <1>2, <1>3, <1>4 DEF ReprocessInv

LEMMA ReprocessStopWaitEndsStep == ASSUME ReprocessInv, Video!StopWaitEnds PROVE ReprocessInv'
<1>1. ReprocessTypes'
  <2>1. /\ reprocPc = "stopWait" /\ reprocPc' \in {"stopped", "stopLate"} /\ mReprocConfigured' \in {FALSE, mReprocConfigured}
        /\ halfStopped' \in {TRUE, halfStopped}
        /\ UNCHANGED <<reprocessing, mUseReprocessSem, registered, reprocCommand, header, usedFreed, videoInPort, answeredLate>>
    BY DEF Video!StopWaitEnds, Video!waits, Video!buffer, Video!history, Video!limits
  <2>2. mStopReprocSem' \in Nat
    BY DEF ReprocessInv, ReprocessTypes, Video!StopWaitEnds
  <2> QED
    BY <2>1, <2>2 DEF ReprocessInv, ReprocessTypes, ReprocessPcs
<1>2. UseCounted'
  BY DEF ReprocessInv, ReprocessTypes, ReprocessPcs, UseCounted, Video!StopWaitEnds, Video!Fault, Video!waits,
     Video!buffer, Video!history, Video!limits
<1>3. ASSUME Clean' PROVE NothingLeft'
  BY <1>3 DEF ReprocessInv, ReprocessTypes, ReprocessPcs, UseCounted, Clean, NothingLeft, PortFollows,
     Video!StopWaitEnds, Video!Fault, Video!waits, Video!buffer, Video!history, Video!limits
<1>4. ASSUME Clean' PROVE PortFollows'
  BY <1>4 DEF ReprocessInv, ReprocessTypes, ReprocessPcs, UseCounted, Clean, NothingLeft, PortFollows,
     Video!StopWaitEnds, Video!Fault, Video!waits, Video!buffer, Video!history, Video!limits
<1> QED
  BY <1>1, <1>2, <1>3, <1>4 DEF ReprocessInv

LEMMA ReprocessStopTimedOutStep == ASSUME ReprocessInv, Video!StopTimedOut PROVE ReprocessInv'
<1>1. ReprocessTypes'
  BY DEF ReprocessInv, ReprocessTypes, ReprocessPcs, UseCounted, Video!StopTimedOut, Video!Go, Video!waits,
     Video!buffer, Video!history, Video!limits
<1>2. UseCounted'
  BY DEF ReprocessInv, ReprocessTypes, ReprocessPcs, UseCounted, Video!StopTimedOut, Video!Go, Video!waits,
     Video!buffer, Video!history, Video!limits
<1>3. ASSUME Clean' PROVE NothingLeft'
  BY <1>3 DEF ReprocessInv, ReprocessTypes, ReprocessPcs, UseCounted, Clean, NothingLeft, PortFollows,
     Video!StopTimedOut, Video!Go, Video!waits, Video!buffer, Video!history, Video!limits
<1>4. ASSUME Clean' PROVE PortFollows'
  BY <1>4 DEF ReprocessInv, ReprocessTypes, ReprocessPcs, UseCounted, Clean, NothingLeft, PortFollows,
     Video!StopTimedOut, Video!Go, Video!waits, Video!buffer, Video!history, Video!limits
<1> QED
  BY <1>1, <1>2, <1>3, <1>4 DEF ReprocessInv

LEMMA ReprocessStoppedStep == ASSUME ReprocessInv, Video!Stopped PROVE ReprocessInv'
<1>1. ReprocessTypes'
  BY DEF ReprocessInv, ReprocessTypes, ReprocessPcs, UseCounted, Video!Stopped, Video!waits, Video!buffer,
     Video!history, Video!limits
<1>2. UseCounted'
  BY DEF ReprocessInv, ReprocessTypes, ReprocessPcs, UseCounted, Video!Stopped, Video!waits, Video!buffer,
     Video!history, Video!limits
<1>3. ASSUME Clean' PROVE NothingLeft'
  BY <1>3 DEF ReprocessInv, ReprocessTypes, ReprocessPcs, UseCounted, Clean, NothingLeft, PortFollows,
     Video!Stopped, Video!waits, Video!buffer, Video!history, Video!limits
<1>4. ASSUME Clean' PROVE PortFollows'
  BY <1>4 DEF ReprocessInv, ReprocessTypes, ReprocessPcs, UseCounted, Clean, NothingLeft, PortFollows,
     Video!Stopped, Video!waits, Video!buffer, Video!history, Video!limits
<1> QED
  BY <1>1, <1>2, <1>3, <1>4 DEF ReprocessInv

LEMMA ReprocessPortAnswersStep == ASSUME ReprocessInv, Video!PortAnswers PROVE ReprocessInv'
<1>1. ReprocessTypes'
  BY DEF ReprocessInv, ReprocessTypes, ReprocessPcs, UseCounted, Video!PortAnswers, Video!NoCommand, Video!waits,
     Video!buffer, Video!history, Video!limits
<1>2. UseCounted'
  BY DEF ReprocessInv, ReprocessTypes, ReprocessPcs, UseCounted, Video!PortAnswers, Video!NoCommand, Video!waits,
     Video!buffer, Video!history, Video!limits
<1>3. ASSUME Clean' PROVE NothingLeft'
  BY <1>3 DEF ReprocessInv, ReprocessTypes, ReprocessPcs, UseCounted, Clean, NothingLeft, PortFollows,
     Video!PortAnswers, Video!NoCommand, Video!waits, Video!buffer, Video!history, Video!limits
<1>4. ASSUME Clean' PROVE PortFollows'
  BY <1>4 DEF ReprocessInv, ReprocessTypes, ReprocessPcs, UseCounted, Clean, NothingLeft, PortFollows,
     Video!PortAnswers, Video!NoCommand, Video!waits, Video!buffer, Video!history, Video!limits
<1> QED
  BY <1>1, <1>2, <1>3, <1>4 DEF ReprocessInv

LEMMA ReprocessCaptureStep == ASSUME ReprocessInv, Video!Capture PROVE ReprocessInv'
<1>1. ReprocessTypes'
  BY DEF ReprocessInv, ReprocessTypes, ReprocessPcs, UseCounted, Video!Capture, Video!waits, Video!buffer,
     Video!history, Video!limits
<1>2. UseCounted'
  BY DEF ReprocessInv, ReprocessTypes, ReprocessPcs, UseCounted, Video!Capture, Video!waits, Video!buffer,
     Video!history, Video!limits
<1>3. ASSUME Clean' PROVE NothingLeft'
  BY <1>3 DEF ReprocessInv, ReprocessTypes, ReprocessPcs, UseCounted, Clean, NothingLeft, PortFollows,
     Video!Capture, Video!waits, Video!buffer, Video!history, Video!limits
<1>4. ASSUME Clean' PROVE PortFollows'
  BY <1>4 DEF ReprocessInv, ReprocessTypes, ReprocessPcs, UseCounted, Clean, NothingLeft, PortFollows,
     Video!Capture, Video!waits, Video!buffer, Video!history, Video!limits
<1> QED
  BY <1>1, <1>2, <1>3, <1>4 DEF ReprocessInv

LEMMA ReprocessInvStep == ASSUME ReprocessInv, Video!Next \/ UNCHANGED Video!reprocessVars PROVE ReprocessInv'
<1>1. CASE Video!Next
  BY <1>1, ReprocessUseBuffersReprocessStep, ReprocessSetParametersReprocessStep, ReprocessEnablePortStep,
     ReprocessUseWaitEndsStep, ReprocessUseTimedOutStep, ReprocessStartReprocessStep, ReprocessStopImageCaptureStep,
     ReprocessDisablePortStep, ReprocessStopWaitEndsStep, ReprocessStopTimedOutStep, ReprocessStoppedStep,
     ReprocessPortAnswersStep, ReprocessCaptureStep
  DEF Video!Next, Video!Adapter
<1>2. CASE UNCHANGED Video!reprocessVars
  BY <1>2 DEF ReprocessInv, ReprocessTypes, UseCounted, Clean, NothingLeft, PortFollows,
              Video!reprocessVars
<1> QED
  BY <1>1, <1>2

LEMMA ReprocessInvImplies ==
  ASSUME ReprocessInv PROVE Video!TypeOK /\ Video!PortAsConfigured /\ Video!SemaphoresDrained
<1>1. Video!TypeOK
  BY DEF ReprocessInv, ReprocessTypes, Video!TypeOK
<1>2. Video!PortAsConfigured
  BY DEF ReprocessInv, ReprocessTypes, Clean, NothingLeft, PortFollows, Video!PortAsConfigured
<1>3. Video!SemaphoresDrained
  BY DEF ReprocessInv, ReprocessTypes, Clean, NothingLeft, Video!SemaphoresDrained
<1> QED
  BY <1>1, <1>2, <1>3

(* The port of the tap-in buffer is as the adapter believes between calls,    *)
(* and no call finds a semaphore counted by another.                          *)
THEOREM ReprocessPortAsBelieved ==
  Video!Spec => [](Video!TypeOK /\ Video!PortAsConfigured /\ Video!SemaphoresDrained)
<1>1. Video!Init => ReprocessInv
  BY ReprocessInvInit
<1>2. ReprocessInv /\ [Video!Next]_(Video!reprocessVars) => ReprocessInv'
  BY ReprocessInvStep
<1>3. ReprocessInv => Video!TypeOK /\ Video!PortAsConfigured /\ Video!SemaphoresDrained
  BY ReprocessInvImplies
<1> QED
  BY <1>1, <1>2, <1>3, PTL DEF Video!Spec

-----------------------------------------------------------------------------
(* The V4L adapter                                                           *)

V4LConstants == \E n \in Nat \ {0} : V4LBufs = 0 .. n - 1

LEMMA V4LBufsFinite ==
  ASSUME V4LConstants
  PROVE  /\ 0 \in V4LBufs /\ IsFiniteSet(V4LBufs) /\ V4L!Cardinality(V4LBufs) - 1 \in V4LBufs
         /\ \A S : V4L!Cardinality(S) = Cardinality(S)
<1>1. \A S : V4L!Cardinality(S) = Cardinality(S)
  BY DEF V4L!Cardinality, Cardinality
<1>2. PICK n \in Nat \ {0} : V4LBufs = 0 .. n - 1
  BY DEF V4LConstants
<1>3. IsFiniteSet(V4LBufs) /\ Cardinality(V4LBufs) = n
  BY <1>2, FS_Interval
<1> QED
  BY <1>1, <1>2, <1>3

LEMMA QueuedTypes ==
  ASSUME V4LConstants, NEW bufs \in {V4LBufs, {0}}
  PROVE  /\ V4L!Stream(bufs) => isStreaming' = TRUE /\ mapped' = TRUE /\ driver' = bufs /\ bufIndex' \in V4LBufs /\ bufs \subseteq V4LBufs
         /\ V4L!QueuedOnly(bufs) => mapped' = TRUE /\ driver' \subseteq V4LBufs /\ bufIndex' \in V4LBufs
<1>1. PICK n \in Nat \ {0} : V4LBufs = 0 .. n - 1
  BY DEF V4LConstants
<1>2. V4L!Cardinality({0}) = 1
  BY V4LBufsFinite, FS_Singleton
<1>3. V4L!Last(bufs) \in V4LBufs /\ bufs \subseteq V4LBufs
  BY <1>2, V4LBufsFinite DEF V4L!Last
<1>4. \A i \in bufs : i \in V4LBufs /\ 0 .. i - 1 \subseteq V4LBufs
  BY <1>1, <1>3
<1> QED
  BY <1>3, <1>4 DEF V4L!Stream, V4L!QueuedOnly

LEMMA NotStreamedTypes ==
  ASSUME V4LConstants, NEW bufs \in {V4LBufs, {0}}, V4L!NotStreamed(bufs), bufIndex \in V4LBufs
  PROVE  isStreaming' = isStreaming /\ driver' \subseteq V4LBufs /\ bufIndex' \in V4LBufs
BY QueuedTypes DEF V4L!NotStreamed

V4LPcs == {"idle", "join", "failing", "picture", "frame", "restart", "taken", "stuck"}
V4LTypes ==
  /\ V4L!TypeOK
  /\ threadPc \in {"none", "loop", "dequeue", "got", "convert"} /\ returnPc \in {"none", "lookup", "queue"} /\ v4lHalPc \in V4LPcs
  /\ threadBuf \in V4LBufs /\ threadGot \in V4LBufs /\ returnBuf \in V4LBufs
  /\ v4lHalPc \in {"join", "picture", "restart"} => ~isStreaming
  /\ v4lHalPc \in {"picture", "frame", "restart", "taken"} => mCapturing
  /\ v4lHalPc \in {"join", "failing"} => ~mPreviewing
  /\ v4lHalPc = "idle" /\ ~mPreviewing => ~isStreaming
  /\ v4lHalPc = "stuck" => ~(mPreviewing /\ isStreaming)

(* The preview's own stream runs, and neither have two threads met nor was it *)
(* started with frames outside.                                               *)
Streams == isStreaming /\ v4lHalPc \in {"idle", "taken"} /\ ~crashed /\ ~v4lRaced /\ ~twice /\ ~stolen

Apart(S, T) == S \cap T = {}
OnePlaceEach ==
  /\ driver \cup subscribers \cup V4L!WithThread \cup V4L!WithReturner \cup dropped = V4LBufs
  /\ Apart(driver, subscribers) /\ Apart(driver, V4L!WithThread) /\ Apart(driver, V4L!WithReturner) /\ Apart(driver, dropped)
  /\ Apart(subscribers, V4L!WithThread) /\ Apart(subscribers, V4L!WithReturner) /\ Apart(subscribers, dropped)
  /\ Apart(V4L!WithThread, V4L!WithReturner) /\ Apart(V4L!WithThread, dropped) /\ Apart(V4L!WithReturner, dropped)

(* The shared structure holds the index of the thread that uses it.           *)
OwnIndex ==
  /\ threadPc = "got" => bufIndex = threadGot
  /\ threadPc = "convert" => threadBuf = threadGot
  /\ returnPc = "queue" => bufIndex = returnBuf

V4LInv == V4LTypes /\ (Streams => OnePlaceEach /\ OwnIndex)

LEMMA V4LInvInit == ASSUME V4LConstants, V4L!Init PROVE V4LInv
<1>1. /\ mPreviewing = FALSE /\ mCapturing = FALSE /\ isStreaming = FALSE /\ mapped = FALSE /\ driver = {} /\ bufIndex = 0
      /\ subscribers = {} /\ threadPc = "none" /\ threadBuf = 0 /\ threadGot = 0 /\ returnPc = "none" /\ returnBuf = 0
      /\ v4lHalPc = "idle" /\ dropped = {}
  BY DEF V4L!Init
<1>2. V4LTypes
  BY <1>1, V4LBufsFinite DEF V4LTypes, V4L!TypeOK, V4LPcs
<1> QED
  BY <1>1, <1>2 DEF V4LInv, Streams

LEMMA V4LStartPreviewStep == ASSUME V4LConstants, V4LInv, V4L!StartPreview PROVE V4LInv'
<1>1. /\ v4lHalPc = "idle" /\ ~mPreviewing /\ ~mCapturing /\ mCapturing' = mCapturing /\ ~isStreaming
      /\ UNCHANGED <<subscribers, threadBuf, threadGot, returnPc, returnBuf, v4lRaced, stolen, crashed>>
  BY DEF V4L!StartPreview, V4L!returner, V4LInv, V4LTypes
<1>2. CASE V4L!Stream(V4LBufs) /\ threadPc' = "loop" /\ mPreviewing' = TRUE /\ dropped' = {}
           /\ twice' = (twice \/ subscribers # {} \/ returnPc # "none") /\ v4lHalPc' = v4lHalPc
  <2>1. isStreaming' = TRUE /\ mapped' = TRUE /\ driver' = V4LBufs /\ bufIndex' \in V4LBufs
    BY <1>2, QueuedTypes
  <2>2. V4LTypes'
    BY <1>1, <1>2, <2>1 DEF V4LInv, V4LTypes, V4L!TypeOK, V4LPcs
  <2>3. ASSUME Streams' PROVE OnePlaceEach' /\ OwnIndex'
    <3>1. subscribers = {} /\ returnPc = "none"
      BY <1>2, <2>3 DEF Streams
    <3>2. subscribers' = {} /\ dropped' = {} /\ V4L!WithThread' = {} /\ V4L!WithReturner' = {}
      BY <1>1, <1>2, <3>1 DEF V4L!WithThread, V4L!WithReturner
    <3> QED
      BY <1>1, <1>2, <2>1, <3>1, <3>2 DEF OnePlaceEach, OwnIndex, Apart
  <2> QED
    BY <2>2, <2>3 DEF V4LInv
<1>3. CASE V4L!QueuedOnly(V4LBufs) /\ v4lHalPc' = "stuck" /\ mPreviewing' = (driver' = V4LBufs)
           /\ threadPc' = (IF mPreviewing' THEN "loop" ELSE threadPc) /\ UNCHANGED <<isStreaming, dropped>>
  <2>1. mapped' = TRUE /\ driver' \subseteq V4LBufs /\ bufIndex' \in V4LBufs
    BY <1>3, QueuedTypes
  <2>2. V4LTypes' /\ ~Streams'
    BY <1>1, <1>3, <2>1 DEF V4LInv, V4LTypes, V4L!TypeOK, V4LPcs, Streams
  <2> QED
    BY <2>2 DEF V4LInv
<1>4. CASE UNCHANGED <<isStreaming, mapped, driver, threadPc, mPreviewing, dropped, bufIndex, v4lHalPc>>
  BY <1>1, <1>4 DEF V4LInv, V4LTypes, V4L!TypeOK, Streams
<1> QED
  BY <1>2, <1>3, <1>4 DEF V4L!StartPreview, V4L!stream

LEMMA V4LStopPreviewStep == ASSUME V4LConstants, V4LInv, V4L!StopPreview PROVE V4LInv'
<1>1. V4LTypes'
  BY V4LBufsFinite DEF V4LInv, V4LTypes, V4L!TypeOK, V4LPcs, V4L!StopPreview, V4L!StopStreaming, V4L!StopStreamingFails, V4L!V4LFault, V4L!flags,
     V4L!stream, V4L!thread, V4L!returner, V4L!marks, V4L!counts
<1>2. ASSUME Streams' PROVE OnePlaceEach'
  BY <1>2, V4LBufsFinite DEF V4LInv, V4LTypes, V4L!TypeOK, Streams, OnePlaceEach, OwnIndex, Apart, V4L!WithThread,
     V4L!WithReturner, V4L!StopPreview, V4L!StopStreaming, V4L!StopStreamingFails, V4L!V4LFault, V4L!flags, V4L!stream, V4L!thread, V4L!returner,
     V4L!marks, V4L!counts
<1>3. ASSUME Streams' PROVE OwnIndex'
  BY <1>3, V4LBufsFinite DEF V4LInv, V4LTypes, V4L!TypeOK, Streams, OwnIndex, V4L!StopPreview, V4L!StopStreaming, V4L!StopStreamingFails, V4L!V4LFault,
     V4L!flags, V4L!stream, V4L!thread, V4L!returner, V4L!marks, V4L!counts
<1> QED
  BY <1>1, <1>2, <1>3 DEF V4LInv

LEMMA V4LJoinStep == ASSUME V4LConstants, V4LInv, V4L!Join PROVE V4LInv'
<1>1. V4LTypes'
  BY V4LBufsFinite DEF V4LInv, V4LTypes, V4L!TypeOK, V4LPcs, V4L!Join, V4L!Joining, V4L!flags, V4L!stream, V4L!thread,
     V4L!returner, V4L!marks, V4L!counts
<1>2. ASSUME Streams' PROVE OnePlaceEach'
  BY <1>2, V4LBufsFinite DEF V4LInv, V4LTypes, V4L!TypeOK, Streams, OnePlaceEach, OwnIndex, Apart, V4L!WithThread,
     V4L!WithReturner, V4L!Join, V4L!Joining, V4L!flags, V4L!stream, V4L!thread, V4L!returner, V4L!marks, V4L!counts
<1>3. ASSUME Streams' PROVE OwnIndex'
  BY <1>3, V4LBufsFinite DEF V4LInv, V4LTypes, V4L!TypeOK, Streams, OwnIndex, V4L!Join, V4L!Joining, V4L!flags, V4L!stream,
     V4L!thread, V4L!returner, V4L!marks, V4L!counts
<1> QED
  BY <1>1, <1>2, <1>3 DEF V4LInv

LEMMA V4LLoopStep == ASSUME V4LConstants, V4LInv, V4L!Loop PROVE V4LInv'
<1>1. V4LTypes'
  BY V4LBufsFinite DEF V4LInv, V4LTypes, V4L!TypeOK, V4LPcs, V4L!Loop, V4L!Joining, V4L!flags, V4L!stream, V4L!thread,
     V4L!returner, V4L!marks, V4L!counts
<1>2. ASSUME Streams' PROVE OnePlaceEach'
  BY <1>2, V4LBufsFinite DEF V4LInv, V4LTypes, V4L!TypeOK, Streams, OnePlaceEach, OwnIndex, Apart, V4L!WithThread,
     V4L!WithReturner, V4L!Loop, V4L!Joining, V4L!flags, V4L!stream, V4L!thread, V4L!returner, V4L!marks, V4L!counts
<1>3. ASSUME Streams' PROVE OwnIndex'
  BY <1>3, V4LBufsFinite DEF V4LInv, V4LTypes, V4L!TypeOK, Streams, OwnIndex, V4L!Loop, V4L!Joining, V4L!flags, V4L!stream,
     V4L!thread, V4L!returner, V4L!marks, V4L!counts
<1> QED
  BY <1>1, <1>2, <1>3 DEF V4LInv

LEMMA V4LDequeueStep == ASSUME V4LConstants, V4LInv, V4L!Dequeue PROVE V4LInv'
<1>1. /\ threadPc = "dequeue"
      /\ UNCHANGED <<mPreviewing, mCapturing, isStreaming, mapped, subscribers, threadBuf, returnPc, returnBuf, v4lHalPc,
                     dropped, twice, crashed>>
  BY DEF V4L!Dequeue, V4L!flags, V4L!returner
<1>2. CASE threadPc' = "loop" /\ UNCHANGED <<driver, bufIndex, threadGot, v4lRaced, stolen>>
  <2>1. V4L!WithThread = {} /\ V4L!WithThread' = {} /\ V4L!WithReturner' = V4L!WithReturner
    BY <1>1, <1>2 DEF V4L!WithThread, V4L!WithReturner
  <2> QED
    BY <1>1, <1>2, <2>1 DEF V4LInv, V4LTypes, V4L!TypeOK, Streams, OnePlaceEach, OwnIndex
<1>3. CASE /\ isStreaming /\ threadPc' = "got" /\ v4lRaced' = (v4lRaced \/ returnPc = "queue")
           /\ (stolen => stolen') /\ \E b \in driver : driver' = driver \ {b} /\ bufIndex' = b /\ threadGot' = b
  <2>1. PICK b \in driver : driver' = driver \ {b} /\ bufIndex' = b /\ threadGot' = b
    BY <1>3
  <2>2. V4LTypes'
    BY <1>1, <1>3, <2>1 DEF V4LInv, V4LTypes, V4L!TypeOK
  <2>3. V4L!WithThread = {} /\ V4L!WithThread' = {b} /\ V4L!WithReturner' = V4L!WithReturner
    BY <1>1, <1>3, <2>1 DEF V4L!WithThread, V4L!WithReturner
  <2>4. ASSUME Streams' PROVE OnePlaceEach' /\ OwnIndex'
    <3>1. OnePlaceEach /\ returnPc' # "queue"
      BY <1>1, <1>3, <2>4 DEF Streams, V4LInv
    <3>2. OnePlaceEach'
      BY <1>1, <2>1, <2>3, <3>1 DEF OnePlaceEach, Apart
    <3> QED
      BY <1>3, <2>1, <3>1, <3>2 DEF OwnIndex
  <2> QED
    BY <2>2, <2>4 DEF V4LInv
<1> QED
  BY <1>2, <1>3 DEF V4L!Dequeue

LEMMA V4LReadIndexStep == ASSUME V4LConstants, V4LInv, V4L!ReadIndex PROVE V4LInv'
<1>1. V4LTypes'
  BY V4LBufsFinite DEF V4LInv, V4LTypes, V4L!TypeOK, V4LPcs, V4L!ReadIndex, V4L!flags, V4L!stream, V4L!thread,
     V4L!returner, V4L!marks, V4L!counts
<1>2. ASSUME Streams' PROVE OnePlaceEach'
  BY <1>2, V4LBufsFinite DEF V4LInv, V4LTypes, V4L!TypeOK, Streams, OnePlaceEach, OwnIndex, Apart, V4L!WithThread,
     V4L!WithReturner, V4L!ReadIndex, V4L!flags, V4L!stream, V4L!thread, V4L!returner, V4L!marks, V4L!counts
<1>3. ASSUME Streams' PROVE OwnIndex'
  BY <1>3, V4LBufsFinite DEF V4LInv, V4LTypes, V4L!TypeOK, Streams, OwnIndex, V4L!ReadIndex, V4L!flags, V4L!stream,
     V4L!thread, V4L!returner, V4L!marks, V4L!counts
<1> QED
  BY <1>1, <1>2, <1>3 DEF V4LInv

LEMMA V4LSendFrameStep == ASSUME V4LConstants, V4LInv, V4L!SendFrame PROVE V4LInv'
<1>1. V4LTypes'
  BY V4LBufsFinite DEF V4LInv, V4LTypes, V4L!TypeOK, V4LPcs, V4L!SendFrame, V4L!V4LFault, V4L!flags, V4L!stream,
     V4L!thread, V4L!returner, V4L!marks, V4L!counts
<1>2. ASSUME Streams' PROVE OnePlaceEach'
  BY <1>2, V4LBufsFinite DEF V4LInv, V4LTypes, V4L!TypeOK, Streams, OnePlaceEach, OwnIndex, Apart, V4L!WithThread,
     V4L!WithReturner, V4L!SendFrame, V4L!V4LFault, V4L!flags, V4L!stream, V4L!thread, V4L!returner, V4L!marks,
     V4L!counts
<1>3. ASSUME Streams' PROVE OwnIndex'
  BY <1>3, V4LBufsFinite DEF V4LInv, V4LTypes, V4L!TypeOK, Streams, OwnIndex, V4L!SendFrame, V4L!V4LFault,
     V4L!flags, V4L!stream, V4L!thread, V4L!returner, V4L!marks, V4L!counts
<1> QED
  BY <1>1, <1>2, <1>3 DEF V4LInv

LEMMA V4LReturnFrameStep == ASSUME V4LConstants, V4LInv, V4L!ReturnFrame PROVE V4LInv'
<1>1. V4LTypes'
  BY V4LBufsFinite DEF V4LInv, V4LTypes, V4L!TypeOK, V4LPcs, V4L!ReturnFrame, V4L!flags, V4L!stream, V4L!thread,
     V4L!returner, V4L!marks, V4L!counts
<1>2. ASSUME Streams' PROVE OnePlaceEach'
  BY <1>2, V4LBufsFinite DEF V4LInv, V4LTypes, V4L!TypeOK, Streams, OnePlaceEach, OwnIndex, Apart, V4L!WithThread,
     V4L!WithReturner, V4L!ReturnFrame, V4L!flags, V4L!stream, V4L!thread, V4L!returner, V4L!marks, V4L!counts
<1>3. ASSUME Streams' PROVE OwnIndex'
  BY <1>3, V4LBufsFinite DEF V4LInv, V4LTypes, V4L!TypeOK, Streams, OwnIndex, V4L!ReturnFrame, V4L!flags,
     V4L!stream, V4L!thread, V4L!returner, V4L!marks, V4L!counts
<1> QED
  BY <1>1, <1>2, <1>3 DEF V4LInv

LEMMA V4LLookUpStep == ASSUME V4LConstants, V4LInv, V4L!LookUp PROVE V4LInv'
<1>1. V4LTypes'
  BY V4LBufsFinite DEF V4LInv, V4LTypes, V4L!TypeOK, V4LPcs, V4L!LookUp, V4L!flags, V4L!stream, V4L!thread,
     V4L!returner, V4L!marks, V4L!counts
<1>2. ASSUME Streams' PROVE OnePlaceEach'
  BY <1>2, V4LBufsFinite DEF V4LInv, V4LTypes, V4L!TypeOK, Streams, OnePlaceEach, OwnIndex, Apart, V4L!WithThread,
     V4L!WithReturner, V4L!LookUp, V4L!flags, V4L!stream, V4L!thread, V4L!returner, V4L!marks, V4L!counts
<1>3. ASSUME Streams' PROVE OwnIndex'
  BY <1>3, V4LBufsFinite DEF V4LInv, V4LTypes, V4L!TypeOK, Streams, OwnIndex, V4L!LookUp, V4L!flags, V4L!stream,
     V4L!thread, V4L!returner, V4L!marks, V4L!counts
<1> QED
  BY <1>1, <1>2, <1>3 DEF V4LInv

LEMMA V4LQueueStep == ASSUME V4LConstants, V4LInv, V4L!Queue PROVE V4LInv'
<1>1. V4LTypes'
  BY V4LBufsFinite DEF V4LInv, V4LTypes, V4L!TypeOK, V4LPcs, V4L!Queue, V4L!V4LFault, V4L!PictureStream, V4L!flags, V4L!stream, V4L!thread,
     V4L!returner, V4L!marks, V4L!counts
<1>2. ASSUME Streams' PROVE OnePlaceEach'
  BY <1>2, V4LBufsFinite DEF V4LInv, V4LTypes, V4L!TypeOK, Streams, OnePlaceEach, OwnIndex, Apart, V4L!WithThread,
     V4L!WithReturner, V4L!Queue, V4L!V4LFault, V4L!PictureStream, V4L!flags, V4L!stream, V4L!thread, V4L!returner, V4L!marks, V4L!counts
<1>3. ASSUME Streams' PROVE OwnIndex'
  BY <1>3, V4LBufsFinite DEF V4LInv, V4LTypes, V4L!TypeOK, Streams, OwnIndex, V4L!Queue, V4L!V4LFault, V4L!PictureStream, V4L!flags, V4L!stream,
     V4L!thread, V4L!returner, V4L!marks, V4L!counts
<1> QED
  BY <1>1, <1>2, <1>3 DEF V4LInv

LEMMA V4LTakePictureStep == ASSUME V4LConstants, V4LInv, V4L!TakePicture PROVE V4LInv'
<1>1. V4LTypes'
  BY V4LBufsFinite DEF V4LInv, V4LTypes, V4L!TypeOK, V4LPcs, V4L!TakePicture, V4L!StopStreaming, V4L!StopStreamingFails, V4L!V4LFault,
     V4L!flags, V4L!stream, V4L!thread, V4L!returner, V4L!marks, V4L!counts
<1>2. ASSUME Streams' PROVE OnePlaceEach'
  BY <1>2, V4LBufsFinite DEF V4LInv, V4LTypes, V4L!TypeOK, Streams, OnePlaceEach, OwnIndex, Apart, V4L!WithThread,
     V4L!WithReturner, V4L!TakePicture, V4L!StopStreaming, V4L!StopStreamingFails, V4L!V4LFault, V4L!flags, V4L!stream, V4L!thread,
     V4L!returner, V4L!marks, V4L!counts
<1>3. ASSUME Streams' PROVE OwnIndex'
  BY <1>3, V4LBufsFinite DEF V4LInv, V4LTypes, V4L!TypeOK, Streams, OwnIndex, V4L!TakePicture, V4L!StopStreaming, V4L!StopStreamingFails,
     V4L!V4LFault, V4L!flags, V4L!stream, V4L!thread, V4L!returner, V4L!marks, V4L!counts
<1> QED
  BY <1>1, <1>2, <1>3 DEF V4LInv

LEMMA V4LStartPictureStep == ASSUME V4LConstants, V4LInv, V4L!StartPicture PROVE V4LInv'
<1>1. /\ v4lHalPc = "picture" /\ v4lHalPc' \in {"frame", "stuck"} /\ mCapturing /\ ~mPreviewing
      /\ UNCHANGED <<mPreviewing, mCapturing, subscribers, threadPc, threadBuf, threadGot, returnPc, returnBuf, dropped>>
  BY DEF V4L!StartPicture, V4L!flags, V4L!thread, V4L!returner, V4LInv, V4LTypes, V4L!TypeOK
<1>2. driver' \subseteq V4LBufs /\ bufIndex' \in V4LBufs /\ (isStreaming' => mapped')
  <2>1. CASE V4L!Stream({0})
    BY <2>1, QueuedTypes
  <2>2. CASE V4L!NotStreamed({0})
    BY <2>2, NotStreamedTypes, <1>1 DEF V4LInv, V4LTypes, V4L!TypeOK
  <2> QED
    BY <2>1, <2>2 DEF V4L!StartPicture
<1>3. V4LTypes' /\ ~Streams'
  BY <1>1, <1>2 DEF V4LInv, V4LTypes, V4L!TypeOK, V4LPcs, Streams
<1> QED
  BY <1>3 DEF V4LInv

LEMMA V4LGetPictureStep == ASSUME V4LConstants, V4LInv, V4L!GetPicture PROVE V4LInv'
<1>1. V4LTypes'
  BY V4LBufsFinite DEF V4LInv, V4LTypes, V4L!TypeOK, V4LPcs, V4L!GetPicture, V4L!StopStreaming, V4L!V4LFault, V4L!flags,
     V4L!stream, V4L!thread, V4L!returner, V4L!marks, V4L!counts
<1>2. ASSUME Streams' PROVE OnePlaceEach'
  BY <1>2, V4LBufsFinite DEF V4LInv, V4LTypes, V4L!TypeOK, Streams, OnePlaceEach, OwnIndex, Apart, V4L!WithThread,
     V4L!WithReturner, V4L!GetPicture, V4L!StopStreaming, V4L!V4LFault, V4L!flags, V4L!stream, V4L!thread, V4L!returner,
     V4L!marks, V4L!counts
<1>3. ASSUME Streams' PROVE OwnIndex'
  BY <1>3, V4LBufsFinite DEF V4LInv, V4LTypes, V4L!TypeOK, Streams, OwnIndex, V4L!GetPicture, V4L!StopStreaming, V4L!V4LFault,
     V4L!flags, V4L!stream, V4L!thread, V4L!returner, V4L!marks, V4L!counts
<1> QED
  BY <1>1, <1>2, <1>3 DEF V4LInv

LEMMA V4LRestartPreviewStep == ASSUME V4LConstants, V4LInv, V4L!RestartPreview PROVE V4LInv'
<1>1. /\ v4lHalPc = "restart" /\ mCapturing /\ ~mPreviewing /\ ~isStreaming
      /\ UNCHANGED <<mPreviewing, mCapturing, subscribers, threadPc, threadBuf, threadGot, returnPc, returnBuf>>
  BY DEF V4L!RestartPreview, V4L!flags, V4L!thread, V4L!returner, V4LInv, V4LTypes, V4L!TypeOK
<1>2. CASE /\ V4L!Stream(V4LBufs) /\ v4lHalPc' = "taken" /\ dropped' = {}
           /\ twice' = (twice \/ subscribers # {} \/ returnPc # "none" \/ threadPc \in {"got", "convert"})
  <2>1. isStreaming' = TRUE /\ mapped' = TRUE /\ driver' = V4LBufs /\ bufIndex' \in V4LBufs
    BY <1>2, QueuedTypes
  <2>2. V4LTypes'
    BY <1>1, <1>2, <2>1 DEF V4LInv, V4LTypes, V4L!TypeOK, V4LPcs
  <2>3. ASSUME Streams' PROVE OnePlaceEach' /\ OwnIndex'
    <3>1. subscribers = {} /\ returnPc = "none" /\ threadPc \notin {"got", "convert"}
      BY <1>2, <2>3 DEF Streams
    <3>2. subscribers' = {} /\ dropped' = {} /\ V4L!WithThread' = {} /\ V4L!WithReturner' = {}
      BY <1>1, <1>2, <3>1 DEF V4L!WithThread, V4L!WithReturner
    <3> QED
      BY <1>1, <1>2, <2>1, <3>1, <3>2 DEF OnePlaceEach, OwnIndex, Apart
  <2> QED
    BY <2>2, <2>3 DEF V4LInv
<1>3. CASE V4L!NotStreamed(V4LBufs) /\ v4lHalPc' = "stuck" /\ dropped' = dropped
  <2>1. isStreaming' = isStreaming /\ driver' \subseteq V4LBufs /\ bufIndex' \in V4LBufs
    BY <1>3, NotStreamedTypes DEF V4LInv, V4LTypes, V4L!TypeOK
  <2>2. V4LTypes' /\ ~Streams'
    BY <1>1, <1>3, <2>1 DEF V4LInv, V4LTypes, V4L!TypeOK, V4LPcs, Streams
  <2> QED
    BY <2>2 DEF V4LInv
<1> QED
  BY <1>2, <1>3 DEF V4L!RestartPreview

LEMMA V4LStopImageCaptureStep == ASSUME V4LConstants, V4LInv, V4L!StopImageCapture PROVE V4LInv'
<1>1. V4LTypes'
  BY V4LBufsFinite DEF V4LInv, V4LTypes, V4L!TypeOK, V4LPcs, V4L!StopImageCapture, V4L!flags, V4L!stream,
     V4L!thread, V4L!returner, V4L!marks, V4L!counts
<1>2. ASSUME Streams' PROVE OnePlaceEach'
  BY <1>2, V4LBufsFinite DEF V4LInv, V4LTypes, V4L!TypeOK, Streams, OnePlaceEach, OwnIndex, Apart, V4L!WithThread,
     V4L!WithReturner, V4L!StopImageCapture, V4L!flags, V4L!stream, V4L!thread, V4L!returner, V4L!marks, V4L!counts
<1>3. ASSUME Streams' PROVE OwnIndex'
  BY <1>3, V4LBufsFinite DEF V4LInv, V4LTypes, V4L!TypeOK, Streams, OwnIndex, V4L!StopImageCapture, V4L!flags,
     V4L!stream, V4L!thread, V4L!returner, V4L!marks, V4L!counts
<1> QED
  BY <1>1, <1>2, <1>3 DEF V4LInv

LEMMA V4LInvStep == ASSUME V4LConstants, V4LInv, V4L!Next \/ UNCHANGED V4L!v4lVars PROVE V4LInv'
<1>1. CASE V4L!Next
  BY <1>1, V4LStartPreviewStep, V4LStopPreviewStep, V4LJoinStep, V4LLoopStep, V4LDequeueStep, V4LReadIndexStep,
     V4LSendFrameStep, V4LReturnFrameStep, V4LLookUpStep, V4LQueueStep, V4LTakePictureStep, V4LStartPictureStep,
     V4LGetPictureStep, V4LRestartPreviewStep, V4LStopImageCaptureStep
  DEF V4L!Next, V4L!PreviewThread, V4L!Returner, V4L!Hal
<1>2. CASE UNCHANGED V4L!v4lVars
  BY <1>2 DEF V4LInv, V4LTypes, V4L!TypeOK, Streams, OnePlaceEach, OwnIndex, V4L!WithThread, V4L!WithReturner,
              V4L!v4lVars
<1> QED
  BY <1>1, <1>2

LEMMA ApartAdd ==
  ASSUME NEW S, NEW T, IsFiniteSet(S), IsFiniteSet(T), Apart(S, T)
  PROVE  IsFiniteSet(S \cup T) /\ Cardinality(S \cup T) = Cardinality(S) + Cardinality(T)
<1>1. Cardinality(S \cap T) = 0 /\ Cardinality(S) \in Nat /\ Cardinality(T) \in Nat
  BY FS_EmptySet, FS_CardinalityType DEF Apart
<1>2. IsFiniteSet(S \cup T) /\ Cardinality(S \cup T) = Cardinality(S) + Cardinality(T) - Cardinality(S \cap T)
  BY FS_Union
<1> QED
  BY <1>1, <1>2

LEMMA V4LInvImplies == ASSUME V4LConstants, V4LInv PROVE V4L!TypeOK /\ V4L!EachBufferOnce
<1>1. ASSUME mPreviewing, isStreaming, ~crashed, ~v4lRaced, ~twice, ~stolen
      PROVE  /\ UNION {driver, subscribers, V4L!WithThread, V4L!WithReturner, dropped} = V4LBufs
             /\ V4L!Cardinality(driver) + V4L!Cardinality(subscribers) + V4L!Cardinality(V4L!WithThread)
                  + V4L!Cardinality(V4L!WithReturner) + V4L!Cardinality(dropped) = V4L!Cardinality(V4LBufs)
  <2>1. OnePlaceEach
    BY <1>1 DEF V4LInv, V4LTypes, V4L!TypeOK, V4LPcs, Streams
  <2> DEFINE A == V4L!WithThread
             B == V4L!WithReturner
  <2>2. IsFiniteSet(driver) /\ IsFiniteSet(subscribers) /\ IsFiniteSet(A) /\ IsFiniteSet(B) /\ IsFiniteSet(dropped)
    <3>1. driver \subseteq V4LBufs /\ subscribers \subseteq V4LBufs /\ A \subseteq V4LBufs /\ B \subseteq V4LBufs
          /\ dropped \subseteq V4LBufs
      BY <2>1 DEF OnePlaceEach
    <3> QED
      BY <3>1, V4LBufsFinite, FS_Subset
  <2>3. UNION {driver, subscribers, A, B, dropped} = V4LBufs
    <3>1. UNION {driver, subscribers, A, B, dropped} = driver \cup subscribers \cup A \cup B \cup dropped
      OBVIOUS
    <3> QED
      BY <2>1, <3>1 DEF OnePlaceEach
  <2> HIDE DEF A, B
  <2>4. /\ IsFiniteSet(driver \cup subscribers)
        /\ Cardinality(driver \cup subscribers) = Cardinality(driver) + Cardinality(subscribers)
    BY <2>1, <2>2, ApartAdd DEF OnePlaceEach
  <2>5. /\ IsFiniteSet(driver \cup subscribers \cup A)
        /\ Cardinality(driver \cup subscribers \cup A) = Cardinality(driver \cup subscribers) + Cardinality(A)
    <3>1. Apart(driver \cup subscribers, A)
      BY <2>1 DEF OnePlaceEach, Apart, A
    <3> QED
      BY <2>2, <2>4, <3>1, ApartAdd
  <2>6. /\ IsFiniteSet(driver \cup subscribers \cup A \cup B)
        /\ Cardinality(driver \cup subscribers \cup A \cup B) = Cardinality(driver \cup subscribers \cup A) + Cardinality(B)
    <3>1. Apart(driver \cup subscribers \cup A, B)
      BY <2>1 DEF OnePlaceEach, Apart, A, B
    <3> QED
      BY <2>2, <2>5, <3>1, ApartAdd
  <2>7. Cardinality(driver \cup subscribers \cup A \cup B \cup dropped)
          = Cardinality(driver \cup subscribers \cup A \cup B) + Cardinality(dropped)
    <3>1. Apart(driver \cup subscribers \cup A \cup B, dropped)
      BY <2>1 DEF OnePlaceEach, Apart, A, B
    <3> QED
      BY <2>2, <2>6, <3>1, ApartAdd
  <2>8. driver \cup subscribers \cup A \cup B \cup dropped = V4LBufs
    BY <2>1 DEF OnePlaceEach, A, B
  <2>9. Cardinality(driver) + Cardinality(subscribers) + Cardinality(A) + Cardinality(B) + Cardinality(dropped) = Cardinality(V4LBufs)
    BY <2>4, <2>5, <2>6, <2>7, <2>8
  <2> QED
    BY <2>3, <2>9, V4LBufsFinite DEF A, B
<1> QED
  BY <1>1 DEF V4LInv, V4LTypes, V4L!EachBufferOnce

(* Each buffer of a USB camera's preview is in one place.                     *)
THEOREM V4LBuffersOnce == ASSUME V4LConstants PROVE V4L!Spec => [](V4L!TypeOK /\ V4L!EachBufferOnce)
<1>1. V4L!Init => V4LInv
  BY V4LInvInit
<1>2. V4LInv /\ [V4L!Next]_(V4L!v4lVars) => V4LInv'
  BY V4LInvStep
<1>3. V4LInv => V4L!TypeOK /\ V4L!EachBufferOnce
  BY V4LInvImplies
<1> QED
  BY <1>1, <1>2, <1>3, PTL DEF V4L!Spec

-----------------------------------------------------------------------------
(* Capabilities                                                              *)

CapConstants == MaxCameras \in Nat /\ OmxCamPorts \in Nat /\ OperatingModes \in Nat \ {0}

CapPcs == Caps!Waiting \cup {"start", "sensor", "disable", "select", "mode", "idle", "caps", "load", "free", "counted",
                             "found", "failed", "done"}
CapEvents == {"PortDisable", "Error", "Idle", "Loaded"}
CapTypes ==
  /\ finder \in CapPcs /\ sensorId \in 0 .. MaxCameras /\ mPortsLeftToDisable \in 0 .. OmxCamPorts
  /\ supportedCameras \in 0 .. MaxCameras /\ compState \in {"None", "Loaded", "Idle"}
  /\ capCommand \in {"None", "PortDisable", "Idle", "Loaded"} /\ capEvents \in Seq(CapEvents) /\ modesLeft \in Seq(Nat)
  /\ mIsOk \in BOOLEAN /\ mIsAborted \in BOOLEAN /\ signalled \in BOOLEAN

(* A sensor is being read: what is not read of it is left, with one mode more *)
(* until it has been read in that.                                            *)
Reading == {"mode", "idle", "idling", "caps", "load", "loading"}
LeftOrRead(i) == <<sensorId, i>> \in properties \/ \E k \in 1 .. Len(modesLeft) : modesLeft[k] = i
ReadSoFar ==
  /\ \A s \in 0 .. sensorId - 1 : \A i \in DOMAIN Caps!ModesOf(s) : <<s, i>> \in properties
  /\ finder \in Reading => \A i \in DOMAIN Caps!ModesOf(sensorId) : LeftOrRead(i)
  /\ finder \in {"mode", "idle", "idling", "caps"} => modesLeft # <<>>
  /\ finder = "counted" => \A i \in DOMAIN Caps!ModesOf(sensorId) : <<sensorId, i>> \in properties
  /\ finder \in Reading \cup {"disable", "disabling", "select", "counted"} => sensorId < MaxCameras

(* The component has at most one command, and events only of the last one.    *)
Quiet == capCommand = "None" /\ capEvents = <<>>
OneCommand ==
  /\ capCommand # "None" => capEvents = <<>>
  /\ finder \notin Caps!Waiting \cup {"free"} => Quiet
  /\ Len(capEvents) <= OmxCamPorts + 1
  /\ Len(capEvents) <= 1 \/ \A i \in 1 .. Len(capEvents) : capEvents[i] = "PortDisable"

(* What the handler waits for.                                                *)
Awaited ==
  /\ finder \in Caps!Waiting => ~mIsAborted /\ (mIsOk => Quiet)
  /\ ~mIsAborted => /\ capCommand = "PortDisable" => mPortsLeftToDisable = OmxCamPorts
                    /\ capEvents # <<>> /\ capEvents[1] = "PortDisable" => Len(capEvents) <= mPortsLeftToDisable
  /\ finder = "idling" =>
       /\ mState = "Idle" /\ capCommand \in {"None", "Idle"} /\ (mIsOk => compState = "Idle")
       /\ capEvents # <<>> => capEvents[1] = "Error" \/ (capEvents[1] = "Idle" /\ compState = "Idle")
  /\ finder = "caps" => compState = "Idle"
  /\ readIn \subseteq {"Idle"}

CapInv == CapTypes /\ ReadSoFar /\ OneCommand /\ Awaited

LEMMA CapInvInit == ASSUME CapConstants, Caps!Init PROVE CapInv
<1>1. /\ finder = "start" /\ sensorId = 0 /\ modesLeft = <<>> /\ compState = "None" /\ capCommand = "None"
      /\ capEvents = <<>> /\ mIsOk = FALSE /\ mIsAborted = TRUE /\ mPortsLeftToDisable = 0
      /\ signalled = FALSE /\ properties = {} /\ readIn = {} /\ supportedCameras = 0
  BY DEF Caps!Init, Caps!None
<1>2. /\ 0 \in 0 .. MaxCameras /\ 0 \in 0 .. OmxCamPorts /\ 0 <= OmxCamPorts + 1
      /\ <<>> \in Seq(CapEvents) /\ <<>> \in Seq(Nat) /\ Len(<<>>) = 0
  BY EmptySeq DEF CapConstants
<1>3. CapTypes
  BY <1>1, <1>2 DEF CapTypes, CapPcs
<1>4. ReadSoFar
  BY <1>1 DEF ReadSoFar, Reading
<1>5. OneCommand
  BY <1>1, <1>2 DEF OneCommand, Quiet
<1>6. Awaited
  BY <1>1 DEF Awaited, Caps!Waiting
<1> QED
  BY <1>3, <1>4, <1>5, <1>6 DEF CapInv

LEMMA CapModes ==
  ASSUME CapConstants, NEW s
  PROVE  /\ Caps!ModesOf(s) \in Seq(Nat) /\ Caps!ModesOf(s) # <<>>
         /\ \A i \in DOMAIN Caps!ModesOf(s) : i \in 1 .. Len(Caps!ModesOf(s)) /\ Caps!ModesOf(s)[i] = i
<1> DEFINE n == IF s = Caps!Stereo THEN 1 ELSE OperatingModes
<1>1. n \in Nat \ {0}
  BY DEF CapConstants
<1>2. Caps!ModesOf(s) = [i \in 1 .. n |-> i]
  BY DEF Caps!ModesOf
<1> HIDE DEF n
<1>3. [i \in 1 .. n |-> i] \in Seq(Nat) /\ Len([i \in 1 .. n |-> i]) = n /\ DOMAIN [i \in 1 .. n |-> i] = 1 .. n
  BY <1>1
<1>4. Len(<<>>) = 0
  BY EmptySeq
<1> QED
  BY <1>1, <1>2, <1>3, <1>4

LEMMA CapBeginStep == ASSUME CapConstants, CapInv, Caps!Begin PROVE CapInv'
<1>1. CapTypes'
  BY EmptySeq DEF CapInv, CapConstants, CapTypes, CapPcs, Caps!Waiting, Caps!Begin, Caps!capComponent,
     Caps!capHandler, Caps!capFound, Caps!CapFault, Caps!NoFault, Caps!None
<1>2. ReadSoFar'
  BY EmptySeq DEF CapInv, CapTypes, CapPcs, Caps!Waiting, ReadSoFar, LeftOrRead, Reading, Caps!Begin,
     Caps!capComponent, Caps!capHandler, Caps!capFound, Caps!CapFault, Caps!NoFault, Caps!None
<1>3. OneCommand'
  BY EmptySeq DEF CapInv, CapConstants, CapTypes, OneCommand, Awaited, Quiet, Caps!Waiting, CapPcs, Caps!Begin,
     Caps!capComponent, Caps!capHandler, Caps!capFound, Caps!CapFault, Caps!NoFault, Caps!None
<1>4. Awaited'
  BY EmptySeq DEF CapInv, CapConstants, CapTypes, OneCommand, Awaited, Quiet, Caps!Waiting, CapPcs, Caps!Begin,
     Caps!capComponent, Caps!capHandler, Caps!capFound, Caps!CapFault, Caps!NoFault, Caps!None
<1> QED
  BY <1>1, <1>2, <1>3, <1>4 DEF CapInv

LEMMA CapGetHandleStep == ASSUME CapConstants, CapInv, Caps!GetHandle PROVE CapInv'
<1>1. CapTypes'
  <2>1. finder' \in {"sensor", "disable", "failed"} /\ UNCHANGED <<sensorId, modesLeft, supportedCameras>>
    BY DEF Caps!GetHandle, Caps!capComponent, Caps!capHandler, Caps!capFound, Caps!CapFault, Caps!NoFault, Caps!None
  <2>2. CASE compState' = "Loaded" /\ capCommand' = "None" /\ capEvents' = <<>> /\ mIsAborted' = TRUE /\ mIsOk' = FALSE
             /\ mPortsLeftToDisable' = 0 /\ signalled' = FALSE
    <3>1. 0 \in 0 .. OmxCamPorts /\ <<>> \in Seq(CapEvents)
      BY EmptySeq DEF CapConstants
    <3> QED
      BY <2>1, <2>2, <3>1 DEF CapInv, CapTypes, CapPcs
  <2>3. CASE UNCHANGED <<compState, capCommand, capEvents, mIsAborted, mIsOk, mPortsLeftToDisable, signalled>>
    BY <2>1, <2>3 DEF CapInv, CapTypes, CapPcs
  <2> QED
    BY <2>2, <2>3 DEF Caps!GetHandle, Caps!capComponent, Caps!capHandler, Caps!capFound, Caps!CapFault,
       Caps!NoFault, Caps!None
<1>2. ReadSoFar'
  BY EmptySeq DEF CapInv, CapTypes, CapPcs, Caps!Waiting, ReadSoFar, LeftOrRead, Reading, Caps!GetHandle,
     Caps!Attempts, Caps!capComponent, Caps!capHandler, Caps!capFound, Caps!CapFault, Caps!NoFault, Caps!None
<1>3. OneCommand'
  BY EmptySeq DEF CapInv, CapConstants, CapTypes, OneCommand, Awaited, Quiet, Caps!Waiting, CapPcs, Caps!GetHandle,
     Caps!Attempts, Caps!capComponent, Caps!capHandler, Caps!capFound, Caps!CapFault, Caps!NoFault, Caps!None
<1>4. Awaited'
  BY EmptySeq DEF CapInv, CapConstants, CapTypes, OneCommand, Awaited, Quiet, Caps!Waiting, CapPcs, Caps!GetHandle,
     Caps!Attempts, Caps!capComponent, Caps!capHandler, Caps!capFound, Caps!CapFault, Caps!NoFault, Caps!None
<1> QED
  BY <1>1, <1>2, <1>3, <1>4 DEF CapInv

LEMMA CapDisableStep == ASSUME CapConstants, CapInv, Caps!DisableAllPorts PROVE CapInv'
<1>1. CapTypes'
  <2>1. /\ finder' \in {"disabling", "free"} /\ capCommand' \in {capCommand, "PortDisable"}
        /\ mPortsLeftToDisable' \in 0 .. OmxCamPorts /\ mIsOk' = FALSE /\ mIsAborted' = FALSE /\ signalled' = FALSE
        /\ UNCHANGED <<sensorId, modesLeft, supportedCameras, compState, capEvents>>
    BY DEF CapInv, CapTypes, CapConstants, Caps!Waiting, Caps!DisableAllPorts, Caps!SendCommand, Caps!capComponent,
       Caps!capHandler, Caps!capFound, Caps!CapFault, Caps!NoFault, Caps!None
  <2> QED
    BY <2>1, EmptySeq DEF CapInv, CapTypes, CapPcs, Caps!Waiting, CapEvents
<1>2. ReadSoFar'
  BY EmptySeq DEF CapInv, CapTypes, CapPcs, Caps!Waiting, ReadSoFar, LeftOrRead, Reading, Caps!DisableAllPorts,
     Caps!SendCommand, Caps!capComponent, Caps!capHandler, Caps!capFound, Caps!CapFault, Caps!NoFault, Caps!None
<1>3. OneCommand'
  BY EmptySeq DEF CapInv, CapConstants, CapTypes, OneCommand, Awaited, Quiet, Caps!Waiting, CapPcs,
     Caps!DisableAllPorts, Caps!SendCommand, Caps!capComponent, Caps!capHandler, Caps!capFound, Caps!CapFault,
     Caps!NoFault, Caps!None
<1>4. Awaited'
  BY EmptySeq DEF CapInv, CapConstants, CapTypes, OneCommand, Awaited, Quiet, Caps!Waiting, CapPcs,
     Caps!DisableAllPorts, Caps!SendCommand, Caps!capComponent, Caps!capHandler, Caps!capFound, Caps!CapFault,
     Caps!NoFault, Caps!None
<1> QED
  BY <1>1, <1>2, <1>3, <1>4 DEF CapInv

LEMMA CapIdleStep == ASSUME CapConstants, CapInv, Caps!SwitchToState("idle", "Idle", "idling") PROVE CapInv'
<1>1. CapTypes'
  BY EmptySeq DEF CapInv, CapConstants, CapTypes, CapPcs, Caps!Waiting, Caps!SwitchToState, Caps!SendCommand,
     Caps!capComponent, Caps!capHandler, Caps!capFound, Caps!CapFault, Caps!NoFault, Caps!None
<1>2. ReadSoFar'
  BY EmptySeq DEF CapInv, CapTypes, CapPcs, Caps!Waiting, ReadSoFar, LeftOrRead, Reading, Caps!SwitchToState,
     Caps!SendCommand, Caps!capComponent, Caps!capHandler, Caps!capFound, Caps!CapFault, Caps!NoFault, Caps!None
<1>3. OneCommand'
  BY EmptySeq DEF CapInv, CapConstants, CapTypes, OneCommand, Awaited, Quiet, Caps!Waiting, CapPcs,
     Caps!SwitchToState, Caps!SendCommand, Caps!capComponent, Caps!capHandler, Caps!capFound, Caps!CapFault,
     Caps!NoFault, Caps!None
<1>4. Awaited'
  BY EmptySeq DEF CapInv, CapConstants, CapTypes, OneCommand, Awaited, Quiet, Caps!Waiting, CapPcs,
     Caps!SwitchToState, Caps!SendCommand, Caps!capComponent, Caps!capHandler, Caps!capFound, Caps!CapFault,
     Caps!NoFault, Caps!None
<1> QED
  BY <1>1, <1>2, <1>3, <1>4 DEF CapInv

LEMMA CapLoadStep == ASSUME CapConstants, CapInv, Caps!SwitchToState("load", "Loaded", "loading") PROVE CapInv'
<1>1. CapTypes'
  BY EmptySeq DEF CapInv, CapConstants, CapTypes, CapPcs, Caps!Waiting, Caps!SwitchToState, Caps!SendCommand,
     Caps!capComponent, Caps!capHandler, Caps!capFound, Caps!CapFault, Caps!NoFault, Caps!None
<1>2. ReadSoFar'
  BY EmptySeq DEF CapInv, CapTypes, CapPcs, Caps!Waiting, ReadSoFar, LeftOrRead, Reading, Caps!SwitchToState,
     Caps!SendCommand, Caps!capComponent, Caps!capHandler, Caps!capFound, Caps!CapFault, Caps!NoFault, Caps!None
<1>3. OneCommand'
  BY EmptySeq DEF CapInv, CapConstants, CapTypes, OneCommand, Awaited, Quiet, Caps!Waiting, CapPcs,
     Caps!SwitchToState, Caps!SendCommand, Caps!capComponent, Caps!capHandler, Caps!capFound, Caps!CapFault,
     Caps!NoFault, Caps!None
<1>4. Awaited'
  BY EmptySeq DEF CapInv, CapConstants, CapTypes, OneCommand, Awaited, Quiet, Caps!Waiting, CapPcs,
     Caps!SwitchToState, Caps!SendCommand, Caps!capComponent, Caps!capHandler, Caps!capFound, Caps!CapFault,
     Caps!NoFault, Caps!None
<1> QED
  BY <1>1, <1>2, <1>3, <1>4 DEF CapInv

LEMMA CapWaitEndsStep == ASSUME CapConstants, CapInv, Caps!WaitEnds PROVE CapInv'
<1>1. CapTypes'
  BY EmptySeq DEF CapInv, CapConstants, CapTypes, CapPcs, Caps!Waiting, Caps!WaitEnds, Caps!capComponent,
     Caps!capHandler, Caps!capFound, Caps!CapFault, Caps!NoFault, Caps!None
<1>2. ReadSoFar'
  BY EmptySeq DEF CapInv, CapTypes, CapPcs, Caps!Waiting, ReadSoFar, LeftOrRead, Reading, Caps!WaitEnds,
     Caps!capComponent, Caps!capHandler, Caps!capFound, Caps!CapFault, Caps!NoFault, Caps!None
<1>3. OneCommand'
  <2>1. /\ finder' \in {"free", "select", "caps", "counted", "mode"} /\ UNCHANGED <<capCommand, capEvents>>
        /\ finder \in Caps!Waiting
    BY DEF Caps!WaitEnds, Caps!Waiting, Caps!capComponent, Caps!capHandler, Caps!capFound, Caps!CapFault,
       Caps!NoFault, Caps!None
  <2>a. finder' # "free" => mIsOk
    <3>1. ~(signalled /\ mIsOk) => finder' = "free"
      BY DEF Caps!WaitEnds
    <3> QED
      BY <3>1
  <2>2. finder' # "free" => Quiet
    BY <2>1, <2>a DEF CapInv, Awaited
  <2> QED
    BY <2>1, <2>2 DEF CapInv, OneCommand, Quiet
<1>4. Awaited'
  <2>1. /\ UNCHANGED <<capCommand, capEvents, mPortsLeftToDisable, mState, compState, readIn, mIsOk>> /\ finder \in Caps!Waiting
        /\ finder' \in {"free", "select", "caps", "counted", "mode"}
    BY DEF Caps!WaitEnds, Caps!Waiting, Caps!capComponent, Caps!capHandler, Caps!capFound, Caps!CapFault,
       Caps!NoFault, Caps!None
  <2>a. finder' = "caps" => finder = "idling" /\ mIsOk
    <3>1. ~(signalled /\ mIsOk) => finder' = "free"
      BY DEF Caps!WaitEnds
    <3>2. finder \in {"disabling", "loading"} => finder' # "caps"
      BY DEF Caps!WaitEnds
    <3> QED
      BY <2>1, <3>1, <3>2 DEF Caps!Waiting
  <2>2. ~mIsAborted
    BY <2>1 DEF CapInv, Awaited
  <2>3. finder' \notin Caps!Waiting /\ finder' # "idling"
    BY <2>1 DEF Caps!Waiting
  <2> QED
    BY <2>1, <2>a, <2>2, <2>3 DEF CapInv, Awaited
<1> QED
  BY <1>1, <1>2, <1>3, <1>4 DEF CapInv

LEMMA CapSelectStep == ASSUME CapConstants, CapInv, Caps!SelectSensor PROVE CapInv'
<1>1. CapTypes'
  <2>1. /\ finder' \in {"mode", "free"} /\ modesLeft' \in Seq(Nat)
        /\ UNCHANGED <<sensorId, supportedCameras, compState, capCommand, capEvents, mPortsLeftToDisable, mIsOk, mIsAborted, signalled>>
    BY CapModes DEF CapInv, CapTypes, CapConstants, Caps!Waiting, Caps!SelectSensor, Caps!capComponent,
       Caps!capHandler, Caps!capFound, Caps!CapFault, Caps!NoFault, Caps!None
  <2> QED
    BY <2>1, EmptySeq DEF CapInv, CapTypes, CapPcs, Caps!Waiting, CapEvents
<1>2. ReadSoFar'
  <2>1. /\ finder = "select" /\ finder' \in {"mode", "free"} /\ modesLeft' = Caps!ModesOf(sensorId)
        /\ UNCHANGED <<sensorId, properties>>
    BY DEF Caps!SelectSensor, Caps!capComponent, Caps!capHandler, Caps!capFound, Caps!CapFault, Caps!NoFault,
       Caps!None
  <2>2. \A i \in DOMAIN Caps!ModesOf(sensorId) : \E k \in 1 .. Len(modesLeft') : modesLeft'[k] = i
    BY <2>1, CapModes
  <2>3. modesLeft' # <<>> /\ sensorId < MaxCameras
    BY <2>1, CapModes DEF CapInv, ReadSoFar
  <2>4. \A s \in 0 .. sensorId - 1 : \A i \in DOMAIN Caps!ModesOf(s) : <<s, i>> \in properties
    BY DEF CapInv, ReadSoFar
  <2> QED
    BY <2>1, <2>2, <2>3, <2>4 DEF ReadSoFar, LeftOrRead, Reading
<1>3. OneCommand'
  BY EmptySeq DEF CapInv, CapConstants, CapTypes, OneCommand, Awaited, Quiet, Caps!Waiting, CapPcs,
     Caps!SelectSensor, Caps!capComponent, Caps!capHandler, Caps!capFound, Caps!CapFault, Caps!NoFault, Caps!None
<1>4. Awaited'
  BY EmptySeq DEF CapInv, CapConstants, CapTypes, OneCommand, Awaited, Quiet, Caps!Waiting, CapPcs,
     Caps!SelectSensor, Caps!capComponent, Caps!capHandler, Caps!capFound, Caps!CapFault, Caps!NoFault, Caps!None
<1> QED
  BY <1>1, <1>2, <1>3, <1>4 DEF CapInv

LEMMA CapModeStep == ASSUME CapConstants, CapInv, Caps!SetOperatingMode PROVE CapInv'
<1>1. CapTypes'
  BY EmptySeq DEF CapInv, CapConstants, CapTypes, CapPcs, Caps!Waiting, Caps!SetOperatingMode, Caps!capComponent,
     Caps!capHandler, Caps!capFound, Caps!CapFault, Caps!NoFault, Caps!None
<1>2. ReadSoFar'
  BY EmptySeq DEF CapInv, CapTypes, CapPcs, Caps!Waiting, ReadSoFar, LeftOrRead, Reading, Caps!SetOperatingMode,
     Caps!capComponent, Caps!capHandler, Caps!capFound, Caps!CapFault, Caps!NoFault, Caps!None
<1>3. OneCommand'
  BY EmptySeq DEF CapInv, CapConstants, CapTypes, OneCommand, Awaited, Quiet, Caps!Waiting, CapPcs,
     Caps!SetOperatingMode, Caps!capComponent, Caps!capHandler, Caps!capFound, Caps!CapFault, Caps!NoFault,
     Caps!None
<1>4. Awaited'
  BY EmptySeq DEF CapInv, CapConstants, CapTypes, OneCommand, Awaited, Quiet, Caps!Waiting, CapPcs,
     Caps!SetOperatingMode, Caps!capComponent, Caps!capHandler, Caps!capFound, Caps!CapFault, Caps!NoFault,
     Caps!None
<1> QED
  BY <1>1, <1>2, <1>3, <1>4 DEF CapInv

LEMMA CapGetCapsStep == ASSUME CapConstants, CapInv, Caps!GetCaps PROVE CapInv'
<1>1. CapTypes'
  <2>1. /\ finder' = "load" /\ modesLeft' \in Seq(Nat)
        /\ UNCHANGED <<sensorId, supportedCameras, compState, capCommand, capEvents, mPortsLeftToDisable, mIsOk, mIsAborted, signalled>>
    <3>1. modesLeft # <<>> /\ modesLeft \in Seq(Nat)
      BY DEF CapInv, CapTypes, ReadSoFar, Caps!GetCaps
    <3>2. Tail(modesLeft) \in Seq(Nat)
      BY <3>1
    <3> QED
      BY <3>2 DEF Caps!GetCaps, Caps!capComponent, Caps!capHandler, Caps!capFound, Caps!CapFault, Caps!NoFault,
         Caps!None
  <2> QED
    BY <2>1, EmptySeq DEF CapInv, CapTypes, CapPcs, Caps!Waiting, CapEvents
<1>2. ReadSoFar'
  <2>1. /\ finder = "caps" /\ finder' = "load" /\ modesLeft' = Tail(modesLeft) /\ sensorId' = sensorId
        /\ properties' = properties \cup {<<sensorId, Head(modesLeft)>>}
    BY DEF Caps!GetCaps, Caps!capComponent, Caps!capHandler, Caps!capFound, Caps!CapFault, Caps!NoFault, Caps!None
  <2>2. modesLeft # <<>> /\ modesLeft \in Seq(Nat) /\ sensorId < MaxCameras
    BY <2>1 DEF CapInv, CapTypes, ReadSoFar, Reading
  <2>3. /\ Len(modesLeft) \in Nat \ {0} /\ Len(Tail(modesLeft)) = Len(modesLeft) - 1 /\ Head(modesLeft) = modesLeft[1]
        /\ \A k \in 1 .. Len(Tail(modesLeft)) : Tail(modesLeft)[k] = modesLeft[k + 1]
    BY <2>2
  <2>4. ASSUME NEW i \in DOMAIN Caps!ModesOf(sensorId) PROVE LeftOrRead(i)'
    <3>1. LeftOrRead(i)
      BY <2>1 DEF CapInv, ReadSoFar, Reading
    <3>2. CASE <<sensorId, i>> \in properties
      BY <2>1, <3>2 DEF LeftOrRead
    <3>3. CASE \E k \in 1 .. Len(modesLeft) : modesLeft[k] = i
      <4>1. PICK k \in 1 .. Len(modesLeft) : modesLeft[k] = i
        BY <3>3
      <4>2. CASE k = 1
        BY <2>1, <2>3, <4>1, <4>2 DEF LeftOrRead
      <4>3. CASE k # 1
        <5>1. k - 1 \in 1 .. Len(Tail(modesLeft)) /\ k - 1 + 1 = k
          BY <2>3, <4>1, <4>3
        <5>2. Tail(modesLeft)[k - 1] = i
          BY <2>3, <4>1, <5>1
        <5> QED
          BY <2>1, <5>1, <5>2 DEF LeftOrRead
      <4> QED
        BY <4>2, <4>3
    <3> QED
      BY <3>1, <3>2, <3>3 DEF LeftOrRead
  <2>5. \A s \in 0 .. sensorId - 1 : \A i \in DOMAIN Caps!ModesOf(s) : <<s, i>> \in properties
    BY DEF CapInv, ReadSoFar
  <2> QED
    BY <2>1, <2>2, <2>4, <2>5 DEF ReadSoFar, Reading
<1>3. OneCommand'
  BY EmptySeq DEF CapInv, CapConstants, CapTypes, OneCommand, Awaited, Quiet, Caps!Waiting, CapPcs, Caps!GetCaps,
     Caps!capComponent, Caps!capHandler, Caps!capFound, Caps!CapFault, Caps!NoFault, Caps!None
<1>4. Awaited'
  BY EmptySeq DEF CapInv, CapConstants, CapTypes, OneCommand, Awaited, Quiet, Caps!Waiting, CapPcs, Caps!GetCaps,
     Caps!capComponent, Caps!capHandler, Caps!capFound, Caps!CapFault, Caps!NoFault, Caps!None
<1> QED
  BY <1>1, <1>2, <1>3, <1>4 DEF CapInv

LEMMA CapFreeStep == ASSUME CapConstants, CapInv, Caps!FreeHandle PROVE CapInv'
<1>1. CapTypes'
  <2>1. /\ finder' \in {"found", "sensor"} /\ compState' = "None" /\ capCommand' = "None" /\ capEvents' = <<>> /\ sensorId' \in 0 .. MaxCameras
        /\ UNCHANGED <<modesLeft, supportedCameras, mPortsLeftToDisable, mIsOk, mIsAborted, signalled>>
    BY DEF CapInv, CapTypes, ReadSoFar, CapConstants, Caps!Waiting, Caps!FreeHandle, Caps!capComponent,
       Caps!capHandler, Caps!capFound, Caps!CapFault, Caps!NoFault, Caps!None
  <2> QED
    BY <2>1, EmptySeq DEF CapInv, CapTypes, CapPcs, Caps!Waiting, CapEvents
<1>2. ReadSoFar'
  BY EmptySeq DEF CapInv, CapTypes, CapPcs, Caps!Waiting, ReadSoFar, LeftOrRead, Reading, Caps!FreeHandle,
     Caps!capComponent, Caps!capHandler, Caps!capFound, Caps!CapFault, Caps!NoFault, Caps!None
<1>3. OneCommand'
  BY EmptySeq DEF CapInv, CapConstants, CapTypes, OneCommand, Awaited, Quiet, Caps!Waiting, CapPcs, Caps!FreeHandle,
     Caps!capComponent, Caps!capHandler, Caps!capFound, Caps!CapFault, Caps!NoFault, Caps!None
<1>4. Awaited'
  BY EmptySeq DEF CapInv, CapConstants, CapTypes, OneCommand, Awaited, Quiet, Caps!Waiting, CapPcs, Caps!FreeHandle,
     Caps!capComponent, Caps!capHandler, Caps!capFound, Caps!CapFault, Caps!NoFault, Caps!None
<1> QED
  BY <1>1, <1>2, <1>3, <1>4 DEF CapInv

LEMMA CapAllFoundStep == ASSUME CapConstants, CapInv, Caps!AllFound PROVE CapInv'
<1>1. CapTypes'
  BY EmptySeq DEF CapInv, CapConstants, CapTypes, CapPcs, Caps!Waiting, Caps!AllFound, Caps!capComponent,
     Caps!capHandler, Caps!capFound, Caps!CapFault, Caps!NoFault, Caps!None
<1>2. ReadSoFar'
  BY EmptySeq DEF CapInv, CapTypes, CapPcs, Caps!Waiting, ReadSoFar, LeftOrRead, Reading, Caps!AllFound,
     Caps!capComponent, Caps!capHandler, Caps!capFound, Caps!CapFault, Caps!NoFault, Caps!None
<1>3. OneCommand'
  BY EmptySeq DEF CapInv, CapConstants, CapTypes, OneCommand, Awaited, Quiet, Caps!Waiting, CapPcs, Caps!AllFound,
     Caps!capComponent, Caps!capHandler, Caps!capFound, Caps!CapFault, Caps!NoFault, Caps!None
<1>4. Awaited'
  BY EmptySeq DEF CapInv, CapConstants, CapTypes, OneCommand, Awaited, Quiet, Caps!Waiting, CapPcs, Caps!AllFound,
     Caps!capComponent, Caps!capHandler, Caps!capFound, Caps!CapFault, Caps!NoFault, Caps!None
<1> QED
  BY <1>1, <1>2, <1>3, <1>4 DEF CapInv

LEMMA CapV4LStep == ASSUME CapConstants, CapInv, Caps!V4LCapabilities PROVE CapInv'
<1>1. CapTypes'
  BY EmptySeq DEF CapInv, CapConstants, CapTypes, CapPcs, Caps!Waiting, Caps!V4LCapabilities, Caps!capComponent,
     Caps!capHandler, Caps!capFound, Caps!CapFault, Caps!NoFault, Caps!None
<1>2. ReadSoFar'
  BY EmptySeq DEF CapInv, CapTypes, CapPcs, Caps!Waiting, ReadSoFar, LeftOrRead, Reading, Caps!V4LCapabilities,
     Caps!capComponent, Caps!capHandler, Caps!capFound, Caps!CapFault, Caps!NoFault, Caps!None
<1>3. OneCommand'
  BY EmptySeq DEF CapInv, CapConstants, CapTypes, OneCommand, Awaited, Quiet, Caps!Waiting, CapPcs,
     Caps!V4LCapabilities, Caps!capComponent, Caps!capHandler, Caps!capFound, Caps!CapFault, Caps!NoFault, Caps!None
<1>4. Awaited'
  BY EmptySeq DEF CapInv, CapConstants, CapTypes, OneCommand, Awaited, Quiet, Caps!Waiting, CapPcs,
     Caps!V4LCapabilities, Caps!capComponent, Caps!capHandler, Caps!capFound, Caps!CapFault, Caps!NoFault, Caps!None
<1> QED
  BY <1>1, <1>2, <1>3, <1>4 DEF CapInv

(* The component's answer: the ports one by one, the state, or an error.      *)
AnswerIs ==
  /\ capEvents' \in Seq(CapEvents)
  /\ \/ /\ capCommand = "PortDisable" /\ Len(capEvents') = OmxCamPorts
        /\ \A i \in 1 .. Len(capEvents') : capEvents'[i] = "PortDisable"
     \/ /\ capCommand # "PortDisable" /\ compState' = capCommand /\ Len(capEvents') = 1 /\ capEvents'[1] = capCommand
     \/ Len(capEvents') = 1 /\ capEvents'[1] = "Error"

LEMMA AnswerGives == ASSUME CapConstants, CapInv, Caps!Answer PROVE AnswerIs
<1>1. capEvents = <<>> /\ capCommand \in CapEvents /\ OmxCamPorts \in Nat
  BY DEF CapConstants, CapInv, CapTypes, CapEvents, OneCommand, Caps!Answer, Caps!None
<1>2. \A e \in CapEvents : Append(<<>>, e) \in Seq(CapEvents) /\ Len(Append(<<>>, e)) = 1 /\ Append(<<>>, e)[1] = e
  BY EmptySeq, AppendProperties
<1> DEFINE ports == [i \in 1 .. OmxCamPorts |-> "PortDisable"]
<1>3. ports \in Seq(CapEvents) /\ Len(ports) = OmxCamPorts /\ \A i \in 1 .. OmxCamPorts : ports[i] = "PortDisable"
  BY <1>1 DEF CapEvents
<1>4. <<>> \o ports = ports
  BY <1>3
<1>5. CASE capCommand = "PortDisable" /\ capEvents' = capEvents \o ports
  <2> HIDE DEF ports
  <2> QED
    BY <1>1, <1>3, <1>4, <1>5 DEF AnswerIs
<1>6. CASE capCommand # "PortDisable" /\ compState' = capCommand /\ capEvents' = Append(capEvents, capCommand)
  BY <1>1, <1>2, <1>6 DEF AnswerIs
<1>7. CASE capEvents' = Append(capEvents, "Error")
  BY <1>1, <1>2, <1>7 DEF CapEvents, AnswerIs
<1> QED
  BY <1>5, <1>6, <1>7 DEF Caps!Answer, AnswerIs

LEMMA CapAnswerStep == ASSUME CapConstants, CapInv, Caps!Answer PROVE CapInv'
<1>1. CapTypes'
  <2>1. /\ capCommand' = "None" /\ compState' \in {"None", "Loaded", "Idle"} /\ capEvents' \in Seq(CapEvents)
        /\ UNCHANGED <<finder, sensorId, modesLeft, supportedCameras, mPortsLeftToDisable, mIsOk, mIsAborted, signalled>>
    <3>1. capCommand' = "None" /\ compState' \in {"None", "Loaded", "Idle"}
      BY DEF CapInv, CapTypes, Caps!Answer, Caps!capComponent, Caps!capHandler, Caps!capFound, Caps!CapFault,
         Caps!NoFault, Caps!None
    <3>2. capEvents' \in Seq(CapEvents)
      BY AnswerGives DEF AnswerIs
    <3> QED
      BY <3>1, <3>2 DEF Caps!Answer, Caps!capComponent, Caps!capHandler, Caps!capFound, Caps!CapFault, Caps!NoFault,
         Caps!None
  <2> QED
    BY <2>1, EmptySeq DEF CapInv, CapTypes, CapPcs, Caps!Waiting, CapEvents
<1>2. ReadSoFar'
  BY EmptySeq DEF CapInv, CapTypes, CapPcs, Caps!Waiting, ReadSoFar, LeftOrRead, Reading, Caps!Answer,
     Caps!capComponent, Caps!capHandler, Caps!capFound, Caps!CapFault, Caps!NoFault, Caps!None
<1>e. AnswerIs
  BY AnswerGives
<1>3. OneCommand'
  <2>1. capCommand' = "None" /\ finder' = finder /\ finder \in Caps!Waiting \cup {"free"}
    BY DEF CapInv, OneCommand, Quiet, Caps!Answer, Caps!capComponent, Caps!capHandler, Caps!capFound, Caps!CapFault,
       Caps!NoFault, Caps!None
  <2>2. /\ Len(capEvents') <= OmxCamPorts + 1
        /\ Len(capEvents') <= 1 \/ \A i \in 1 .. Len(capEvents') : capEvents'[i] = "PortDisable"
    BY <1>e DEF CapConstants, AnswerIs
  <2> QED
    BY <2>1, <2>2 DEF OneCommand
<1>4. Awaited'
  <2>1. /\ capCommand' = "None" /\ capCommand # "None" /\ UNCHANGED <<finder, mIsAborted, mIsOk, mPortsLeftToDisable, mState, readIn>>
    BY DEF Caps!Answer, Caps!capComponent, Caps!capHandler, Caps!capFound, Caps!CapFault, Caps!NoFault, Caps!None
  <2>2. finder \in Caps!Waiting => ~mIsAborted /\ ~mIsOk
    BY <2>1 DEF CapInv, CapTypes, Awaited, Quiet
  <2>3. ~mIsAborted /\ capEvents' # <<>> /\ capEvents'[1] = "PortDisable" => Len(capEvents') <= mPortsLeftToDisable
    BY <1>e DEF CapConstants, CapInv, CapTypes, Awaited, AnswerIs
  <2>4. finder = "idling" => mState = "Idle" /\ ~mIsOk /\ (capEvents'[1] = "Error" \/ (capEvents'[1] = "Idle" /\ compState' = "Idle"))
    BY <2>1, <2>2, <1>e DEF CapInv, CapTypes, Awaited, Caps!Waiting, AnswerIs
  <2>5. finder # "caps" /\ readIn \subseteq {"Idle"}
    BY <2>1 DEF CapInv, OneCommand, Quiet, Awaited, Caps!Waiting
  <2> QED
    BY <2>1, <2>2, <2>3, <2>4, <2>5 DEF Awaited
<1> QED
  BY <1>1, <1>2, <1>3, <1>4 DEF CapInv

(* The handler takes one event.                                               *)
EventTakenIs ==
  /\ capEvents # <<>> /\ capCommand = "None" /\ capEvents' \in Seq(CapEvents) /\ Len(capEvents') = Len(capEvents) - 1
  /\ \A i \in 1 .. Len(capEvents') : capEvents'[i] = capEvents[i + 1]
  /\ capEvents[1] = "PortDisable" \/ capEvents' = <<>>
  /\ Len(capEvents) \in Nat \ {0} /\ capEvents[1] \in CapEvents
  /\ UNCHANGED <<finder, sensorId, modesLeft, compState, capCommand, mState, mIsAborted, properties, readIn, supportedCameras>>
  /\ \/ mIsAborted /\ UNCHANGED <<mIsOk, mPortsLeftToDisable, signalled>>
     \/ /\ ~mIsAborted /\ capEvents[1] = "PortDisable" /\ mPortsLeftToDisable' = mPortsLeftToDisable - 1
        /\ mIsOk' = (mIsOk \/ mPortsLeftToDisable = 1) /\ signalled' = (signalled \/ mPortsLeftToDisable = 1)
     \/ ~mIsAborted /\ capEvents[1] = "Error" /\ signalled' = TRUE /\ UNCHANGED <<mIsOk, mPortsLeftToDisable>>
     \/ /\ ~mIsAborted /\ capEvents[1] \in {"Idle", "Loaded"} /\ mIsOk' = (capEvents[1] = mState) /\ signalled' = TRUE
        /\ UNCHANGED mPortsLeftToDisable

LEMMA EventTaken == ASSUME CapConstants, CapInv, Caps!ProcessEvent PROVE EventTakenIs
<1>1. capEvents # <<>> /\ capEvents \in Seq(CapEvents) /\ capEvents' = Tail(capEvents)
  BY DEF CapInv, CapTypes, Caps!ProcessEvent
<1>2. /\ capEvents' \in Seq(CapEvents) /\ Len(capEvents') = Len(capEvents) - 1 /\ Head(capEvents) = capEvents[1]
      /\ \A i \in 1 .. Len(capEvents') : capEvents'[i] = capEvents[i + 1]
      /\ Len(capEvents) \in Nat \ {0} /\ capEvents[1] \in CapEvents
  BY <1>1
<1>3. capCommand = "None"
  BY <1>1 DEF CapInv, OneCommand
<1>4. capEvents[1] = "PortDisable" \/ capEvents' = <<>>
  <2>1. CASE Len(capEvents) <= 1
    <3>1. Len(capEvents') = 0
      BY <1>2, <2>1
    <3> QED
      BY <1>2, <3>1, EmptySeq
  <2>2. CASE \A i \in 1 .. Len(capEvents) : capEvents[i] = "PortDisable"
    BY <1>2, <2>2
  <2> QED
    BY <2>1, <2>2 DEF CapInv, OneCommand
<1>5. UNCHANGED <<finder, sensorId, modesLeft, compState, capCommand, mState, mIsAborted, properties, readIn, supportedCameras>>
  BY DEF Caps!ProcessEvent, Caps!capFound
<1>6. CASE mIsAborted
  BY <1>1, <1>2, <1>3, <1>4, <1>5, <1>6 DEF Caps!ProcessEvent, EventTakenIs
<1>7. CASE ~mIsAborted /\ capEvents[1] = "PortDisable"
  BY <1>1, <1>2, <1>3, <1>4, <1>5, <1>7 DEF Caps!ProcessEvent, EventTakenIs
<1>8. CASE ~mIsAborted /\ capEvents[1] = "Error"
  BY <1>1, <1>2, <1>3, <1>4, <1>5, <1>8 DEF Caps!ProcessEvent, EventTakenIs
<1>9. CASE ~mIsAborted /\ capEvents[1] \in {"Idle", "Loaded"}
  BY <1>1, <1>2, <1>3, <1>4, <1>5, <1>9 DEF Caps!ProcessEvent, EventTakenIs
<1> QED
  BY <1>2, <1>6, <1>7, <1>8, <1>9 DEF CapEvents, CapInv, CapTypes, EventTakenIs

LEMMA CapProcessStep == ASSUME CapConstants, CapInv, Caps!ProcessEvent PROVE CapInv'
<1>e. EventTakenIs
  BY EventTaken
<1>1. CapTypes'
  <2>1. mPortsLeftToDisable' \in 0 .. OmxCamPorts
    BY <1>e DEF CapConstants, CapInv, CapTypes, Awaited, EventTakenIs
  <2>2. mIsOk' \in BOOLEAN /\ signalled' \in BOOLEAN
    BY <1>e DEF CapInv, CapTypes, EventTakenIs
  <2> QED
    BY <2>1, <2>2, <1>e DEF CapInv, CapTypes, EventTakenIs
<1>2. ReadSoFar'
  BY <1>e DEF CapInv, ReadSoFar, LeftOrRead, EventTakenIs
<1>3. OneCommand'
  <2>1. finder \in Caps!Waiting \cup {"free"}
    BY DEF Caps!ProcessEvent
  <2>2. Len(capEvents') <= OmxCamPorts + 1
    BY <1>e DEF CapConstants, CapInv, OneCommand, EventTakenIs
  <2>3. Len(capEvents') <= 1 \/ \A i \in 1 .. Len(capEvents') : capEvents'[i] = "PortDisable"
    <3>1. CASE Len(capEvents) <= 1
      BY <1>e, <3>1 DEF EventTakenIs
    <3>2. CASE \A i \in 1 .. Len(capEvents) : capEvents[i] = "PortDisable"
      <4>1. \A i \in 1 .. Len(capEvents') : i + 1 \in 1 .. Len(capEvents)
        BY <1>e DEF EventTakenIs
      <4> QED
        BY <1>e, <3>2, <4>1 DEF EventTakenIs
    <3> QED
      BY <3>1, <3>2 DEF CapInv, OneCommand
  <2> QED
    BY <2>1, <2>2, <2>3, <1>e DEF OneCommand, EventTakenIs
<1>4. Awaited'
  <2>1. finder # "caps" /\ readIn \subseteq {"Idle"} /\ ~Quiet
    <3>1. ~Quiet
      BY <1>e DEF Quiet, EventTakenIs
    <3> QED
      BY <3>1 DEF CapInv, OneCommand, Awaited, Caps!Waiting
  <2>2. ~mIsAborted /\ capEvents' # <<>> => capEvents[1] = "PortDisable" /\ Len(capEvents') <= mPortsLeftToDisable' /\ mPortsLeftToDisable > 1
    <3>1. ~mIsAborted /\ capEvents' # <<>> => Len(capEvents) >= 2 /\ Len(capEvents) <= mPortsLeftToDisable /\ capEvents[1] = "PortDisable"
      BY <1>e, EmptySeq DEF CapInv, Awaited, EventTakenIs
    <3> QED
      BY <3>1, <1>e DEF CapInv, CapTypes, EventTakenIs
  <2>3. finder \in Caps!Waiting => ~mIsAborted /\ ~mIsOk
    BY <2>1 DEF CapInv, Awaited
  <2>4. finder \in Caps!Waiting => (mIsOk' => Quiet')
    <3> SUFFICES ASSUME finder \in Caps!Waiting, mIsOk' PROVE Quiet'
      OBVIOUS
    <3>1. ~mIsAborted /\ ~mIsOk
      BY <2>3
    <3>2. capEvents[1] = "PortDisable" => mPortsLeftToDisable = 1
      BY <1>e, <3>1 DEF EventTakenIs
    <3>3. capEvents' = <<>>
      BY <1>e, <2>2, <3>1, <3>2 DEF EventTakenIs
    <3> QED
      BY <3>3, <1>e DEF Quiet, EventTakenIs
  <2>5. finder = "idling" => /\ mState = "Idle" /\ (mIsOk' => compState = "Idle") /\ capEvents' = <<>>
    <3> SUFFICES ASSUME finder = "idling"
                 PROVE  mState = "Idle" /\ (mIsOk' => compState = "Idle") /\ capEvents' = <<>>
      OBVIOUS
    <3>1. /\ mState = "Idle" /\ ~mIsOk
          /\ capEvents[1] = "Error" \/ (capEvents[1] = "Idle" /\ compState = "Idle")
      BY <2>3, <1>e DEF CapInv, Awaited, Caps!Waiting, EventTakenIs
    <3> QED
      BY <3>1, <1>e DEF EventTakenIs
  <2> QED
    BY <2>1, <2>2, <2>3, <2>4, <2>5, <1>e DEF Awaited, EventTakenIs
<1> QED
  BY <1>1, <1>2, <1>3, <1>4 DEF CapInv

LEMMA CapInvStep == ASSUME CapConstants, CapInv, Caps!Next \/ UNCHANGED Caps!capabilityVars PROVE CapInv'
<1>1. CASE Caps!Next
  BY <1>1, CapBeginStep, CapGetHandleStep, CapDisableStep, CapIdleStep, CapLoadStep, CapWaitEndsStep, CapSelectStep,
     CapModeStep, CapGetCapsStep, CapFreeStep, CapAllFoundStep, CapV4LStep, CapAnswerStep, CapProcessStep
  DEF Caps!Next, Caps!Finder, Caps!Callbacks
<1>2. CASE UNCHANGED Caps!capabilityVars
  BY <1>2 DEF CapInv, CapTypes, ReadSoFar, LeftOrRead, OneCommand, Quiet, Awaited,
              Caps!capabilityVars, Caps!capComponent, Caps!capHandler, Caps!capFound
<1> QED
  BY <1>1, <1>2

LEMMA CapInvImplies == ASSUME CapInv PROVE Caps!TypeOK /\ Caps!CamerasAreComplete
BY DEF CapInv, CapTypes, ReadSoFar, OneCommand, Awaited, Caps!TypeOK, Caps!None, Caps!CamerasAreComplete

(* Every camera that is reported has been read in all of its modes, with the  *)
(* component Idle.                                                            *)
THEOREM CamerasComplete == ASSUME CapConstants PROVE Caps!Spec => [](Caps!TypeOK /\ Caps!CamerasAreComplete)
<1>1. Caps!Init => CapInv
  BY CapInvInit
<1>2. CapInv /\ [Caps!Next]_(Caps!capabilityVars) => CapInv'
  BY CapInvStep
<1>3. CapInv => Caps!TypeOK /\ Caps!CamerasAreComplete
  BY CapInvImplies
<1> QED
  BY <1>1, <1>2, <1>3, PTL DEF Caps!Spec

-----------------------------------------------------------------------------
(* Parameters                                                                *)

(* CameraHal::setParameters().  A call on its way has touched the size and *)
(* the capture mode of a running preview only if it also asks for a        *)
(* restart, whatever the parameters it went through, and refused or not.   *)
CallFields == {"m", "backup", "restart", "update", "refused"}
ParameterRecord(m) == DOMAIN m = Params!AllParameters /\ m = [k \in Params!AllParameters |-> m[k]]
Backups == Params!Supported.mode \cup {Params!Default}

CallShape(c) ==
  /\ DOMAIN c = CallFields /\ ParameterRecord(c.m) /\ c.backup \in Backups
  /\ c.restart \in BOOLEAN /\ c.refused \in BOOLEAN
RestartsOrKeeps(c) ==
  ~c.restart => c.m["size"] = mParameters["size"] /\ (previewIs = "on" => c.m["mode"] = mParameters["mode"])
OnItsWay(c) == CallShape(c) /\ RestartsOrKeeps(c)

(* The parameters, by name.                                                *)
LEMMA ParameterNames ==
  Params!AllParameters = {"mode", "vnf", "vstab", "hint", "size", "focus", "fps", "manual", "tone", "scene", "gps"}
BY DEF Params!AllParameters, Params!Supported

(* What Set() leaves of a call: one parameter of it, and nothing else.     *)
Written(s, c, k, v) ==
  /\ CallShape(s) /\ s.m[k] = v /\ (\A j \in Params!AllParameters \ {k} : s.m[j] = c.m[j])
  /\ s.restart = c.restart /\ s.refused = c.refused /\ s.backup = c.backup

LEMMA SetWrites == ASSUME NEW c, CallShape(c), NEW k \in Params!AllParameters, NEW v PROVE Written(Params!Set(c, k, v), c, k, v)
<1> DEFINE m == [c.m EXCEPT ![k] = v]
           s == Params!Set(c, k, v)
<1>1. ParameterRecord(m) /\ m[k] = v /\ (\A j \in Params!AllParameters \ {k} : m[j] = c.m[j])
  BY DEF CallShape, ParameterRecord
<1>2. s = [c EXCEPT !.m = m]
  BY DEF Params!Set
<1> HIDE DEF m, s
<1>3. DOMAIN s = CallFields /\ s.m = m /\ s.backup = c.backup /\ s.restart = c.restart /\ s.refused = c.refused
  BY <1>2 DEF CallShape, CallFields
<1>4. CallShape(s)
  BY <1>1, <1>3 DEF CallShape
<1> QED
  BY <1>1, <1>3, <1>4 DEF Written, s

LEMMA SetKeeps == ASSUME NEW c, OnItsWay(c), NEW k \in Params!AllParameters \ {"size", "mode"}, NEW v PROVE OnItsWay(Params!Set(c, k, v))
<1>1. Written(Params!Set(c, k, v), c, k, v)
  BY SetWrites DEF OnItsWay
<1> QED
  BY <1>1, ParameterNames DEF Written, OnItsWay, RestartsOrKeeps

(* NeedsRestart() writes too, and asks for a restart when it has changed.  *)
LEMMA NeedsRestartKeeps ==
  ASSUME NEW c, OnItsWay(c), NEW k \in Params!AllParameters, NEW v
  PROVE  /\ OnItsWay(Params!NeedsRestart(c, k, v))
         /\ Params!NeedsRestart(c, k, v).m = Params!Set(c, k, v).m
         /\ Params!NeedsRestart(c, k, v).restart = (c.restart \/ c.m[k] # v)
<1> DEFINE s == Params!Set(c, k, v)
           n == Params!NeedsRestart(c, k, v)
           again == (c.restart \/ c.m[k] # v)
<1>1. Written(s, c, k, v)
  BY SetWrites DEF OnItsWay
<1>2. n = [s EXCEPT !.restart = (s.restart \/ c.m[k] # v)]
  BY DEF Params!NeedsRestart
<1>a. n = [s EXCEPT !.restart = again]
  BY <1>1, <1>2 DEF Written
<1>b. again \in BOOLEAN
  OBVIOUS
<1>c. ~again => ~c.restart /\ c.m[k] = v
  BY DEF OnItsWay, CallShape
<1> HIDE DEF s, n, again
<1>3. DOMAIN n = CallFields /\ n.m = s.m /\ n.backup = s.backup /\ n.refused = s.refused /\ n.restart = again
  BY <1>1, <1>a DEF Written, CallShape, CallFields
<1>4. CallShape(n)
  BY <1>1, <1>3, <1>b DEF Written, CallShape
<1>5. RestartsOrKeeps(n)
  BY <1>1, <1>3, <1>c, ParameterNames DEF Written, OnItsWay, RestartsOrKeeps
<1>6. OnItsWay(n) /\ n.m = s.m /\ n.restart = again
  BY <1>3, <1>4, <1>5 DEF OnItsWay
<1> QED
  BY <1>6 DEF s, n, again

(* A call may always ask for one more restart, and be refused.             *)
LEMMA RestartKeeps == ASSUME NEW c, OnItsWay(c) PROVE OnItsWay([c EXCEPT !.restart = TRUE])
<1> DEFINE n == [c EXCEPT !.restart = TRUE]
<1>1. DOMAIN n = CallFields /\ n.m = c.m /\ n.backup = c.backup /\ n.refused = c.refused /\ n.restart = TRUE
  BY DEF OnItsWay, CallShape, CallFields
<1> HIDE DEF n
<1>2. OnItsWay(n)
  BY <1>1 DEF OnItsWay, CallShape, RestartsOrKeeps
<1> QED
  BY <1>2 DEF n

LEMMA RefuseKeeps == ASSUME NEW c, OnItsWay(c) PROVE OnItsWay(Params!Refuse(c))
<1> DEFINE n == Params!Refuse(c)
<1>1. DOMAIN n = CallFields /\ n.m = c.m /\ n.backup = c.backup /\ n.refused = TRUE /\ n.restart = c.restart
  BY DEF OnItsWay, CallShape, CallFields, Params!Refuse
<1> HIDE DEF n
<1>2. OnItsWay(n)
  BY <1>1 DEF OnItsWay, CallShape, RestartsOrKeeps
<1> QED
  BY <1>2 DEF n

(* DoesNeedUpdate(), and the end of CaptureMode(): another backup and more *)
(* to tell the adapter.                                                    *)
LEMMA UpdateWrites ==
  ASSUME NEW c, CallShape(c), NEW k \in Params!AllParameters, NEW v
  PROVE  Written(Params!DoesNeedUpdate(c, k, v), c, k, v)
<1> DEFINE s == Params!Set(c, k, v)
           n == Params!DoesNeedUpdate(c, k, v)
<1>1. Written(s, c, k, v)
  BY SetWrites
<1>2. n = [s EXCEPT !.update = (s.update \/ c.m[k] # v)]
  BY DEF Params!DoesNeedUpdate
<1> HIDE DEF s, n
<1>3. DOMAIN n = CallFields /\ n.m = s.m /\ n.backup = s.backup /\ n.refused = s.refused /\ n.restart = s.restart
  BY <1>1, <1>2 DEF Written, CallShape, CallFields
<1>4. Written(n, c, k, v)
  BY <1>1, <1>3 DEF Written, CallShape
<1> QED
  BY <1>4 DEF n

(* The stages, one after the other.                                        *)
LEMMA VideoModeKeeps == ASSUME NEW c, OnItsWay(c), NEW p PROVE OnItsWay(Params!SetVideoModeParameters(c, p))
<1> DEFINE mode == IF c.m.mode \in Params!VideoModes THEN c ELSE Params!NeedsRestart(c, "mode", "video")
           vstab == IF mode.m.vstab = Params!Absent THEN Params!Set(mode, "vstab", p.vstab)
                    ELSE Params!NeedsRestart(mode, "vstab", p.vstab)
           vnf == IF p.vnf = Params!Absent THEN [Params!Set(vstab, "vnf", Params!On) EXCEPT !.restart = TRUE]
                  ELSE Params!NeedsRestart(vstab, "vnf", p.vnf)
           size == IF vnf.m.vstab = Params!On /\ p.size = "1080p"
                   THEN [Params!Set(vnf, "vnf", Params!On) EXCEPT !.restart = TRUE] ELSE vnf
<1>1. OnItsWay(mode)
  BY NeedsRestartKeeps, ParameterNames
<1> HIDE DEF mode
<1>2. OnItsWay(vstab)
  <2>1. OnItsWay(Params!Set(mode, "vstab", p.vstab)) /\ OnItsWay(Params!NeedsRestart(mode, "vstab", p.vstab))
    BY <1>1, NeedsRestartKeeps, SetKeeps, ParameterNames
  <2> QED
    BY <2>1
<1> HIDE DEF vstab
<1>3. OnItsWay(vnf)
  <2>1. OnItsWay(Params!Set(vstab, "vnf", Params!On)) /\ OnItsWay(Params!NeedsRestart(vstab, "vnf", p.vnf))
    BY <1>2, NeedsRestartKeeps, SetKeeps, ParameterNames
  <2> QED
    BY <2>1, RestartKeeps
<1> HIDE DEF vnf
<1>4. OnItsWay(size)
  <2>1. OnItsWay(Params!Set(vnf, "vnf", Params!On))
    BY <1>3, SetKeeps, ParameterNames
  <2> QED
    BY <1>3, <2>1, RestartKeeps
<1>5. Params!SetVideoModeParameters(c, p) = size
  BY DEF Params!SetVideoModeParameters, size, vnf, vstab, mode
<1> QED
  BY <1>4, <1>5

LEMMA ResetModeKeeps == ASSUME NEW c, OnItsWay(c) PROVE OnItsWay(Params!ResetVideoModeParameters(c))
BY NeedsRestartKeeps, ParameterNames DEF Params!ResetVideoModeParameters

(* While no preview runs the mode may change as it likes.                  *)
LEMMA CaptureModeKeeps ==
  ASSUME NEW c, OnItsWay(c), previewIs # "on", NEW p, p.mode \in Params!Supported.mode \cup {Params!Absent}
  PROVE  OnItsWay(Params!CaptureMode(c, p))
<1> DEFINE backup == IF p.mode \in {Params!Absent, "video"} THEN c.backup ELSE p.mode
           mode == IF p.mode # Params!Absent THEN p.mode ELSE backup
           told == Params!DoesNeedUpdate(c, "mode", mode)
           n == [told EXCEPT !.backup = backup, !.update = (told.update \/ p.mode = Params!Absent)]
<1>1. backup \in Backups
  BY DEF OnItsWay, CallShape, Backups
<1>2. Written(told, c, "mode", mode)
  BY UpdateWrites, ParameterNames DEF OnItsWay
<1>3. Params!CaptureMode(c, p) \in {c, n}
  BY DEF Params!CaptureMode
<1> HIDE DEF backup, mode, told
<1>4. OnItsWay(n)
  <2> HIDE DEF n
  <2>1. DOMAIN n = CallFields /\ n.m = told.m /\ n.backup = backup /\ n.refused = told.refused /\ n.restart = told.restart
    BY <1>2 DEF Written, CallShape, CallFields, n
  <2>2. CallShape(n)
    BY <1>1, <1>2, <2>1 DEF Written, CallShape
  <2>3. n.m["size"] = c.m["size"]
    BY <1>2, <2>1, ParameterNames DEF Written
  <2> QED
    BY <1>2, <2>1, <2>2, <2>3 DEF Written, OnItsWay, RestartsOrKeeps
<1> QED
  BY <1>3, <1>4

LEMMA BeforePreviewKeeps ==
  ASSUME NEW c, OnItsWay(c), NEW p, p.mode \in Params!Supported.mode \cup {Params!Absent}
  PROVE  OnItsWay(Params!BeforePreview(c, p))
<1> DEFINE vnf == IF p.vnf = Params!Absent THEN c ELSE Params!Set(c, "vnf", p.vnf)
           vstab == IF p.vstab = Params!Absent THEN vnf ELSE Params!Set(vnf, "vstab", p.vstab)
           mode == Params!CaptureMode(vstab, p)
<1>1. Params!BeforePreview(c, p) \in {c} \cup (IF previewIs = "on" THEN {} ELSE {Params!Refuse(c), Params!Refuse(mode), mode})
  BY DEF Params!BeforePreview
<1>2. OnItsWay(vnf)
  BY SetKeeps, ParameterNames
<1> HIDE DEF vnf
<1>3. OnItsWay(vstab)
  BY <1>2, SetKeeps, ParameterNames
<1> HIDE DEF vstab
<1>4. previewIs # "on" => OnItsWay(mode)
  BY <1>3, CaptureModeKeeps
<1> HIDE DEF mode
<1>5. OnItsWay(Params!Refuse(c)) /\ (previewIs # "on" => OnItsWay(Params!Refuse(mode)))
  BY <1>4, RefuseKeeps
<1> QED
  BY <1>1, <1>4, <1>5

LEMMA RecordingHintKeeps == ASSUME NEW c, OnItsWay(c), NEW p PROVE OnItsWay(Params!RecordingHint(c, p))
<1> DEFINE hint == Params!Set(c, "hint", p.hint)
<1>1. Params!RecordingHint(c, p) \in {Params!Refuse(c), Params!SetVideoModeParameters(hint, p), Params!ResetVideoModeParameters(hint)}
  BY DEF Params!RecordingHint
<1>2. OnItsWay(hint)
  BY SetKeeps, ParameterNames
<1> HIDE DEF hint
<1> QED
  BY <1>1, <1>2, RefuseKeeps, VideoModeKeeps, ResetModeKeeps

LEMMA PreviewSizeKeeps == ASSUME NEW c, OnItsWay(c), NEW p PROVE OnItsWay(Params!PreviewSize(c, p))
BY NeedsRestartKeeps, RefuseKeeps, ParameterNames DEF Params!PreviewSize

LEMMA FocusModeKeeps == ASSUME NEW c, OnItsWay(c), NEW p PROVE OnItsWay(Params!FocusMode(c, p))
<1> DEFINE mode == CASE p.focus = "picture" -> Params!ResetVideoModeParameters(c)
                     [] p.focus = "video" -> Params!SetVideoModeParameters(c, p)
                     [] OTHER -> c
<1>1. Params!FocusMode(c, p) \in {Params!Refuse(c), Params!Set(mode, "focus", p.focus)}
  BY DEF Params!FocusMode
<1>2. mode \in {c, Params!ResetVideoModeParameters(c), Params!SetVideoModeParameters(c, p)}
  OBVIOUS
<1> HIDE DEF mode
<1>3. OnItsWay(mode)
  BY <1>2, VideoModeKeeps, ResetModeKeeps
<1> QED
  BY <1>1, <1>3, RefuseKeeps, SetKeeps, ParameterNames

LEMMA PictureAndRateKeeps == ASSUME NEW c, OnItsWay(c), NEW p PROVE OnItsWay(Params!PictureAndRate(c, p))
<1> DEFINE slower == c.m.fps = 120 /\ p.fps < 120
           fps == Params!Set(c, "fps", p.fps)
           n == [fps EXCEPT !.restart = fps.restart \/ slower]
<1>1. Params!PictureAndRate(c, p) \in {Params!Refuse(c), n}
  BY DEF Params!PictureAndRate
<1>2. OnItsWay(fps)
  BY SetKeeps, ParameterNames
<1>3. slower \in BOOLEAN
  OBVIOUS
<1> HIDE DEF fps, slower
<1>4. OnItsWay(n)
  <2> DEFINE more == fps.restart \/ slower
  <2>1. more \in BOOLEAN /\ (~more => ~fps.restart)
    OBVIOUS
  <2>2. n = [fps EXCEPT !.restart = more]
    OBVIOUS
  <2> HIDE DEF n, more
  <2>3. DOMAIN n = CallFields /\ n.m = fps.m /\ n.backup = fps.backup /\ n.refused = fps.refused /\ n.restart = more
    BY <1>2, <2>2 DEF OnItsWay, CallShape, CallFields
  <2> QED
    BY <1>2, <2>1, <2>3 DEF OnItsWay, CallShape, RestartsOrKeeps
<1> QED
  BY <1>1, <1>4, RefuseKeeps

LEMMA ExposureKeeps == ASSUME NEW c, OnItsWay(c), NEW p PROVE OnItsWay(Params!Exposure(c, p))
BY RefuseKeeps, SetKeeps, ParameterNames DEF Params!Exposure

LEMMA TonesKeeps == ASSUME NEW c, OnItsWay(c), NEW p PROVE OnItsWay(Params!Tones(c, p))
BY RefuseKeeps, SetKeeps, ParameterNames DEF Params!Tones

LEMMA SceneKeeps == ASSUME NEW c, OnItsWay(c), NEW p PROVE OnItsWay(Params!Scene(c, p))
<1> DEFINE n == Params!DoesNeedUpdate(c, "scene", p.scene)
<1>1. Written(n, c, "scene", p.scene)
  BY UpdateWrites, ParameterNames DEF OnItsWay
<1>2. Params!Scene(c, p) \in {n, Params!Refuse(c)}
  BY DEF Params!Scene
<1> HIDE DEF n
<1>3. OnItsWay(n)
  BY <1>1, ParameterNames DEF Written, OnItsWay, RestartsOrKeeps
<1> QED
  BY <1>2, <1>3, RefuseKeeps

LEMMA UncheckedKeeps == ASSUME NEW c, OnItsWay(c), NEW p PROVE OnItsWay(Params!Unchecked(c, p))
BY SetKeeps, ParameterNames DEF Params!Unchecked

LEMMA ZoomLevelKeeps == ASSUME NEW c, OnItsWay(c), NEW p PROVE OnItsWay(Params!ZoomLevel(c, p))
BY RefuseKeeps DEF Params!ZoomLevel

(* A fresh call asks for nothing yet.                                      *)
FreshCall == [m |-> mParameters, backup |-> mCapModeBackup, restart |-> FALSE, update |-> FALSE, refused |-> FALSE]

LEMMA FreshCallKeeps == ASSUME ParameterRecord(mParameters), mCapModeBackup \in Backups PROVE OnItsWay(FreshCall)
<1>1. /\ DOMAIN FreshCall = CallFields /\ FreshCall.m = mParameters /\ FreshCall.backup = mCapModeBackup
      /\ FreshCall.restart = FALSE /\ FreshCall.refused = FALSE
  BY DEF FreshCall, CallFields
<1> QED
  BY <1>1 DEF OnItsWay, CallShape, RestartsOrKeeps

LEMMA CheckedKeeps ==
  ASSUME ParameterRecord(mParameters), mCapModeBackup \in Backups, NEW p, p.mode \in Params!Supported.mode \cup {Params!Absent}
  PROVE  OnItsWay(Params!Checked(p))
<1> DEFINE b == Params!BeforePreview(FreshCall, p)
           c1 == Params!RecordingHint(b, p)
           z == Params!PreviewSize(c1, p)
           c2 == Params!FocusMode(z, p)
           r == Params!PictureAndRate(c2, p)
           e == Params!Exposure(r, p)
           c3 == Params!Tones(e, p)
           s == Params!Scene(c3, p)
           u == Params!Unchecked(s, p)
<1>1. Params!Checked(p) = Params!ZoomLevel(u, p)
  BY DEF Params!Checked, FreshCall
<1>2. OnItsWay(b)
  BY FreshCallKeeps, BeforePreviewKeeps
<1> HIDE DEF b
<1>3. OnItsWay(c1)
  BY <1>2, RecordingHintKeeps
<1> HIDE DEF c1
<1>4. OnItsWay(z)
  BY <1>3, PreviewSizeKeeps
<1> HIDE DEF z
<1>5. OnItsWay(c2)
  BY <1>4, FocusModeKeeps
<1> HIDE DEF c2
<1>6. OnItsWay(r)
  BY <1>5, PictureAndRateKeeps
<1> HIDE DEF r
<1>7. OnItsWay(e)
  BY <1>6, ExposureKeeps
<1> HIDE DEF e
<1>8. OnItsWay(c3)
  BY <1>7, TonesKeeps
<1> HIDE DEF c3
<1>9. OnItsWay(s)
  BY <1>8, SceneKeeps
<1> HIDE DEF s
<1>10. OnItsWay(u)
  BY <1>9, UncheckedKeeps
<1> HIDE DEF u
<1> QED
  BY <1>1, <1>10, ZoomLevelKeeps

(* The invariant: a preview that has not been stopped, a paused one too,   *)
(* has the size and the mode of mParameters, and the adapter all of a      *)
(* running one, as long as nothing of it is known not to be applied.       *)
ParamsTypes ==
  /\ ParameterRecord(mParameters) /\ mCapModeBackup \in Backups /\ previewIs \in {"off", "on", "paused"}
  /\ isRecording \in BOOLEAN /\ (isRecording => previewIs = "on")
PortAsTold == port["size"] = mParameters["size"] /\ port["mode"] = mParameters["mode"]
ParamsInv ==
  /\ ParamsTypes
  /\ (previewIs # "off" /\ unapplied = {}) => PortAsTold
  /\ (previewIs = "on" /\ unapplied = {}) => adapterParams = mParameters

LEMMA ParamsInvInit == ASSUME Params!Init PROVE ParamsInv
<1>1. ParameterRecord(mParameters)
  BY ParameterNames DEF Params!Init, Params!Defaults, ParameterRecord
<1> QED
  BY <1>1 DEF Params!Init, ParamsInv, ParamsTypes, Backups

(* Start() leaves the preview as the adapter is told, or off.              *)
LEMMA StartApplies ==
  ASSUME NEW m, ParameterRecord(m), NEW from, Params!Start(m, from), from = "paused" /\ unapplied = {} => PortAsTold /\ m = mParameters
  PROVE  /\ ParameterRecord(mParameters)' /\ previewIs' \in {"on", "off"}
         /\ (previewIs' # "off" /\ unapplied' = {}) => PortAsTold' /\ adapterParams' = mParameters'
<1>1. mParameters' = m /\ adapterParams' = m
  BY DEF Params!Start
<1>2. CASE previewIs' = "on" /\ from = "paused" /\ UNCHANGED <<port, unapplied>>
  BY <1>1, <1>2 DEF PortAsTold
<1>3. CASE previewIs' = "on" /\ port' = m
  BY <1>1, <1>3 DEF PortAsTold
<1>4. CASE previewIs' = "off"
  BY <1>1, <1>4
<1> QED
  BY <1>2, <1>3, <1>4 DEF Params!Start

LEMMA RequestModes == ASSUME ParamsInv, NEW p \in Params!Requests PROVE p.mode \in Params!Supported.mode \cup {Params!Absent}
<1>1. p.mode \in Params!Values("mode")
  BY DEF Params!Requests
<1> QED
  BY <1>1 DEF Params!Values

LEMMA BackupWritten == ASSUME NEW c, CallShape(c) PROVE ParameterRecord([c.m EXCEPT !.mode = c.backup])
BY ParameterNames DEF CallShape, ParameterRecord

LEMMA ApplyStep ==
  ASSUME ParamsInv, NEW c, OnItsWay(c), ~c.refused, Params!Apply(c), mCapModeBackup' = c.backup, UNCHANGED isRecording PROVE ParamsInv'
<1>1. CASE c.restart /\ previewIs = "on" /\ ~isRecording
  <2>1. Params!Start([c.m EXCEPT !.mode = c.backup], "off")
    BY <1>1 DEF Params!Apply, Params!RestartPreview
  <2>2. ParameterRecord([c.m EXCEPT !.mode = c.backup])
    BY BackupWritten DEF OnItsWay
  <2> QED
    BY <1>1, <2>1, <2>2, StartApplies DEF ParamsInv, ParamsTypes, OnItsWay, CallShape
<1>2. CASE ~(c.restart /\ previewIs = "on" /\ ~isRecording)
  <2>1. /\ Params!TellAdapter(c) /\ UNCHANGED port
        /\ previewIs' = IF c.restart /\ previewIs = "paused" /\ ~isRecording THEN "off" ELSE previewIs
        /\ unapplied' = IF c.restart /\ isRecording THEN unapplied \cup {"recording"}
                        ELSE IF previewIs = "paused" /\ c.m.mode # port.mode THEN unapplied \cup {"paused"} ELSE unapplied
    BY <1>2 DEF Params!Apply
  <2>2. mParameters' \in {c.m, mParameters}
    BY <2>1 DEF Params!TellAdapter
  <2>3. ParamsTypes'
    BY <2>1, <2>2 DEF ParamsInv, ParamsTypes, OnItsWay, CallShape
  <2>4. ASSUME previewIs' # "off", unapplied' = {} PROVE PortAsTold'
    <3>1. previewIs' = previewIs /\ unapplied = {} /\ ~(c.restart /\ isRecording) /\ (previewIs = "paused" => c.m["mode"] = port["mode"])
      BY <2>1, <2>4
    <3>2. ~c.restart
      BY <1>2, <2>1, <2>4, <3>1 DEF ParamsInv, ParamsTypes, OnItsWay, CallShape
    <3>3. c.m["size"] = mParameters["size"] /\ (previewIs = "on" => c.m["mode"] = mParameters["mode"])
      BY <3>2 DEF OnItsWay, RestartsOrKeeps
    <3>4. PortAsTold
      BY <2>4, <3>1 DEF ParamsInv
    <3> QED
      BY <2>1, <2>2, <2>4, <3>1, <3>3, <3>4 DEF PortAsTold, ParamsInv, ParamsTypes
  <2>5. ASSUME previewIs' = "on", unapplied' = {} PROVE adapterParams' = mParameters'
    <3>1. previewIs = "on" /\ unapplied = {} /\ ~c.restart
      BY <1>2, <2>1, <2>5 DEF ParamsInv, ParamsTypes, OnItsWay, CallShape
    <3>2. adapterParams = mParameters
      BY <3>1 DEF ParamsInv
    <3>3. \/ adapterParams' = c.m /\ mParameters' = c.m
          \/ UNCHANGED <<adapterParams, mParameters>>
      BY <2>1, <3>1 DEF Params!TellAdapter
    <3> QED
      BY <3>2, <3>3
  <2> QED
    BY <2>3, <2>4, <2>5 DEF ParamsInv
<1> QED
  BY <1>1, <1>2

LEMMA ParametersCallStep == ASSUME ParamsInv, Params!SetParameters PROVE ParamsInv'
<1>1. PICK p \in Params!Requests :
        LET c == Params!Checked(p)
        IN /\ mCapModeBackup' = c.backup
           /\ IF c.refused
                THEN /\ mParameters' = c.m
                     /\ unapplied' = IF c.m = mParameters THEN unapplied ELSE unapplied \cup {"refused"}
                     /\ UNCHANGED <<adapterParams, port, previewIs, parameterFaults>>
                ELSE Params!Apply(c)
  BY DEF Params!SetParameters
<1> DEFINE c == Params!Checked(p)
<1>2. OnItsWay(c)
  BY CheckedKeeps, RequestModes DEF ParamsInv, ParamsTypes
<1>3. /\ mCapModeBackup' = c.backup /\ UNCHANGED isRecording
      /\ IF c.refused
           THEN /\ mParameters' = c.m
                /\ unapplied' = IF c.m = mParameters THEN unapplied ELSE unapplied \cup {"refused"}
                /\ UNCHANGED <<adapterParams, port, previewIs, parameterFaults>>
           ELSE Params!Apply(c)
  BY <1>1 DEF Params!SetParameters
<1> HIDE DEF c
<1>4. CASE c.refused
  <2>1. ParamsTypes'
    BY <1>2, <1>3, <1>4 DEF ParamsInv, ParamsTypes, OnItsWay, CallShape
  <2>2. unapplied' = {} => UNCHANGED <<mParameters, unapplied>>
    BY <1>3, <1>4
  <2> QED
    BY <1>3, <1>4, <2>1, <2>2 DEF ParamsInv, PortAsTold
<1>5. CASE ~c.refused
  BY <1>2, <1>3, <1>5, ApplyStep
<1> QED
  BY <1>2, <1>4, <1>5 DEF OnItsWay, CallShape

LEMMA ParametersStartStep == ASSUME ParamsInv, Params!StartPreview PROVE ParamsInv'
<1>1. Params!Start(mParameters, previewIs) /\ UNCHANGED <<mCapModeBackup, isRecording>> /\ previewIs # "on"
  BY DEF Params!StartPreview, Params!service
<1>2. previewIs = "paused" /\ unapplied = {} => PortAsTold
  BY DEF ParamsInv
<1> QED
  BY <1>1, <1>2, StartApplies DEF ParamsInv, ParamsTypes

LEMMA ParametersStopStep == ASSUME ParamsInv, Params!StopPreview PROVE ParamsInv'
BY ParameterNames DEF ParamsInv, ParamsTypes, ParameterRecord, Params!StopPreview, Params!service

LEMMA ParametersPictureStep == ASSUME ParamsInv, Params!TakePicture PROVE ParamsInv'
BY DEF ParamsInv, ParamsTypes, PortAsTold, Params!TakePicture, Params!service

LEMMA ParametersRecordedStep == ASSUME ParamsInv, Params!StopRecording PROVE ParamsInv'
BY DEF ParamsInv, ParamsTypes, PortAsTold, Params!StopRecording, Params!service

(* A recording that starts without a restart has changed no parameter.     *)
LEMMA RestartAsked ==
  ASSUME NEW c, OnItsWay(c), NEW k \in Params!AllParameters, NEW v, ~Params!NeedsRestart(c, k, v).restart PROVE ~c.restart /\ c.m[k] = v
<1>1. Params!NeedsRestart(c, k, v).restart = (c.restart \/ c.m[k] # v)
  BY NeedsRestartKeeps
<1> QED
  BY <1>1

LEMMA NoRestartNoChange ==
  ASSUME ParameterRecord(mParameters), NEW c, OnItsWay(c), c.m = mParameters,
         ~Params!SetVideoModeParameters(c, mParameters).restart
  PROVE  Params!SetVideoModeParameters(c, mParameters).m = mParameters
<1> DEFINE p == mParameters
           mode == IF c.m.mode \in Params!VideoModes THEN c ELSE Params!NeedsRestart(c, "mode", "video")
           vstab == IF mode.m.vstab = Params!Absent THEN Params!Set(mode, "vstab", p.vstab)
                    ELSE Params!NeedsRestart(mode, "vstab", p.vstab)
           vnf == IF p.vnf = Params!Absent THEN [Params!Set(vstab, "vnf", Params!On) EXCEPT !.restart = TRUE]
                  ELSE Params!NeedsRestart(vstab, "vnf", p.vnf)
           size == IF vnf.m.vstab = Params!On /\ p.size = "1080p"
                   THEN [Params!Set(vnf, "vnf", Params!On) EXCEPT !.restart = TRUE] ELSE vnf
<1>0. Params!SetVideoModeParameters(c, p) = size
  BY DEF Params!SetVideoModeParameters, size, vnf, vstab, mode
<1>1. OnItsWay(mode) /\ (~mode.restart => mode.m = mParameters)
  <2>1. CASE c.m["mode"] \in Params!VideoModes
    BY <2>1
  <2>2. CASE c.m["mode"] \notin Params!VideoModes
    <3>1. c.m["mode"] # "video" /\ mode = Params!NeedsRestart(c, "mode", "video")
      BY <2>2 DEF Params!VideoModes
    <3> HIDE DEF mode
    <3>2. OnItsWay(mode)
      BY <3>1, NeedsRestartKeeps, ParameterNames
    <3>3. mode.restart
      BY <3>1, RestartAsked, ParameterNames
    <3> QED
      BY <3>2, <3>3
  <2> QED
    BY <2>1, <2>2
<1> HIDE DEF mode
<1>a. ASSUME NEW d, OnItsWay(d), NEW k \in Params!AllParameters, d.m = mParameters PROVE Params!Set(d, k, mParameters[k]).m = mParameters
  <2>1. Written(Params!Set(d, k, mParameters[k]), d, k, mParameters[k])
    BY <1>a, SetWrites DEF OnItsWay
  <2>2. \A j \in Params!AllParameters : Params!Set(d, k, mParameters[k]).m[j] = mParameters[j]
    BY <1>a, <2>1 DEF Written
  <2> HIDE DEF p
  <2> QED
    BY <2>1, <2>2 DEF Written, CallShape, ParameterRecord
<1>2. OnItsWay(vstab) /\ (~vstab.restart => vstab.m = mParameters)
  <2>1. OnItsWay(Params!Set(mode, "vstab", p.vstab)) /\ OnItsWay(Params!NeedsRestart(mode, "vstab", p.vstab))
    BY <1>1, NeedsRestartKeeps, SetKeeps, ParameterNames
  <2>2. /\ Params!Set(mode, "vstab", p.vstab).restart = mode.restart
        /\ ~Params!NeedsRestart(mode, "vstab", p.vstab).restart => ~mode.restart
        /\ Params!NeedsRestart(mode, "vstab", p.vstab).m = Params!Set(mode, "vstab", p.vstab).m
    <3>1. Params!Set(mode, "vstab", p.vstab).restart = mode.restart
      BY <1>1, SetWrites, ParameterNames DEF Written, OnItsWay
    <3>2. ~Params!NeedsRestart(mode, "vstab", p.vstab).restart => ~mode.restart
      BY <1>1, RestartAsked, ParameterNames
    <3>3. Params!NeedsRestart(mode, "vstab", p.vstab).m = Params!Set(mode, "vstab", p.vstab).m
      BY <1>1, NeedsRestartKeeps, ParameterNames
    <3> QED
      BY <3>1, <3>2, <3>3
  <2>3. ~mode.restart => Params!Set(mode, "vstab", p.vstab).m = mParameters
    BY <1>1, <1>a, ParameterNames
  <2> QED
    BY <2>1, <2>2, <2>3
<1> HIDE DEF vstab
<1>3. OnItsWay(vnf) /\ (~vnf.restart => vnf.m = mParameters)
  <2>1. OnItsWay(Params!Set(vstab, "vnf", Params!On)) /\ OnItsWay(Params!NeedsRestart(vstab, "vnf", p.vnf))
    BY <1>2, NeedsRestartKeeps, SetKeeps, ParameterNames
  <2>2. /\ ~Params!NeedsRestart(vstab, "vnf", p.vnf).restart => ~vstab.restart
        /\ Params!NeedsRestart(vstab, "vnf", p.vnf).m = Params!Set(vstab, "vnf", p.vnf).m
    <3>1. ~Params!NeedsRestart(vstab, "vnf", p.vnf).restart => ~vstab.restart
      BY <1>2, RestartAsked, ParameterNames
    <3>2. Params!NeedsRestart(vstab, "vnf", p.vnf).m = Params!Set(vstab, "vnf", p.vnf).m
      BY <1>2, NeedsRestartKeeps, ParameterNames
    <3> QED
      BY <3>1, <3>2
  <2>3. ~vstab.restart => Params!Set(vstab, "vnf", p.vnf).m = mParameters
    BY <1>2, <1>a, ParameterNames
  <2>4. [Params!Set(vstab, "vnf", Params!On) EXCEPT !.restart = TRUE].restart = TRUE
    BY <2>1 DEF OnItsWay, CallShape, CallFields
  <2> QED
    BY <2>1, <2>2, <2>3, <2>4, RestartKeeps
<1> HIDE DEF vnf
<1>4. ~size.restart => size.m = mParameters
  <2>1. OnItsWay(Params!Set(vnf, "vnf", Params!On))
    BY <1>3, SetKeeps, ParameterNames
  <2>2. [Params!Set(vnf, "vnf", Params!On) EXCEPT !.restart = TRUE].restart = TRUE
    BY <2>1 DEF OnItsWay, CallShape, CallFields
  <2> QED
    BY <1>3, <2>2
<1> QED
  BY <1>0, <1>4

LEMMA ParametersRecordStep == ASSUME ParamsInv, Params!StartRecording PROVE ParamsInv'
<1> DEFINE photo == IF mParameters.focus = "picture" THEN Params!ResetVideoModeParameters(FreshCall) ELSE FreshCall
           video == IF ~photo.restart /\ mParameters.hint # Params!On THEN Params!SetVideoModeParameters(photo, mParameters) ELSE photo
<1>0. /\ previewIs = "on" /\ ~isRecording /\ UNCHANGED mCapModeBackup
      /\ IF video.restart
           THEN Params!RestartPreview(video) /\ isRecording' = (previewIs' = "on")
           ELSE mParameters' = video.m /\ isRecording' = TRUE /\ UNCHANGED <<previewIs, adapterParams, port, unapplied, parameterFaults>>
  BY DEF Params!StartRecording, photo, video, FreshCall
<1>1. OnItsWay(FreshCall) /\ FreshCall.m = mParameters
  BY FreshCallKeeps DEF ParamsInv, ParamsTypes, FreshCall
<1>2. OnItsWay(photo) /\ (~photo.restart => photo.m = mParameters)
  <2>1. Params!ResetVideoModeParameters(FreshCall) \in {FreshCall, Params!NeedsRestart(FreshCall, "mode", Params!Default)}
    BY DEF Params!ResetVideoModeParameters
  <2>2. ~isRecording /\ FreshCall.m["mode"] = "video" => Params!NeedsRestart(FreshCall, "mode", Params!Default).restart
    BY <1>1, NeedsRestartKeeps, ParameterNames DEF Params!Default
  <2>3. Params!ResetVideoModeParameters(FreshCall) = FreshCall \/ Params!ResetVideoModeParameters(FreshCall).restart
    BY <2>2 DEF Params!ResetVideoModeParameters
  <2>4. OnItsWay(Params!ResetVideoModeParameters(FreshCall))
    BY <1>1, ResetModeKeeps
  <2> QED
    BY <1>1, <2>3, <2>4
<1> HIDE DEF photo
<1>3. OnItsWay(video) /\ (~video.restart => video.m = mParameters)
  <2>1. OnItsWay(Params!SetVideoModeParameters(photo, mParameters))
    BY <1>2, VideoModeKeeps
  <2>2. ~photo.restart /\ ~Params!SetVideoModeParameters(photo, mParameters).restart
          => Params!SetVideoModeParameters(photo, mParameters).m = mParameters
    BY <1>2, NoRestartNoChange DEF ParamsInv, ParamsTypes
  <2> QED
    BY <1>2, <2>1, <2>2
<1> HIDE DEF video
<1>4. CASE video.restart
  <2>1. Params!Start([video.m EXCEPT !.mode = video.backup], "off") /\ isRecording' = (previewIs' = "on") /\ UNCHANGED mCapModeBackup
    BY <1>0, <1>4 DEF Params!RestartPreview
  <2>2. ParameterRecord([video.m EXCEPT !.mode = video.backup])
    BY <1>3, BackupWritten DEF OnItsWay
  <2>3. /\ ParameterRecord(mParameters)' /\ previewIs' \in {"on", "off"}
        /\ (previewIs' # "off" /\ unapplied' = {}) => PortAsTold' /\ adapterParams' = mParameters'
    BY <2>1, <2>2, StartApplies
  <2>4. isRecording' \in BOOLEAN /\ (isRecording' => previewIs' = "on")
    BY <2>1
  <2> QED
    BY <2>1, <2>3, <2>4 DEF ParamsInv, ParamsTypes
<1>5. CASE ~video.restart
  BY <1>0, <1>3, <1>5 DEF ParamsInv, ParamsTypes, PortAsTold
<1> QED
  BY <1>4, <1>5

LEMMA ParamsInvStep == ASSUME ParamsInv, Params!Next \/ UNCHANGED Params!parameterVars PROVE ParamsInv'
<1>1. CASE Params!Next
  BY <1>1, ParametersCallStep, ParametersStartStep, ParametersStopStep, ParametersPictureStep, ParametersRecordStep,
     ParametersRecordedStep DEF Params!Next
<1>2. CASE UNCHANGED Params!parameterVars
  BY <1>2 DEF Params!parameterVars, ParamsInv, ParamsTypes, ParameterRecord, PortAsTold
<1> QED
  BY <1>1, <1>2

LEMMA ParamsInvImplies == ASSUME ParamsInv PROVE Params!TypeOK /\ Params!PreviewRunsAsTold /\ Params!AdapterIsTold
BY DEF ParamsInv, ParamsTypes, ParameterRecord, PortAsTold, Backups, Params!TypeOK, Params!PreviewRunsAsTold,
   Params!AdapterIsTold

(* CameraHal::setParameters(): a running preview has the size and the mode *)
(* the application reads back, and the adapter knows every parameter,      *)
(* unless a call was refused or the change could not be applied; for all   *)
(* calls, parameters and failures of the adapter.                          *)
THEOREM ParametersApplied == Params!Spec => [](Params!TypeOK /\ Params!PreviewRunsAsTold /\ Params!AdapterIsTold)
<1>1. Params!Init => ParamsInv
  BY ParamsInvInit
<1>2. ParamsInv /\ [Params!Next]_Params!parameterVars => ParamsInv'
  BY ParamsInvStep
<1>3. ParamsInv => Params!TypeOK /\ Params!PreviewRunsAsTold /\ Params!AdapterIsTold
  BY ParamsInvImplies
<1> QED
  BY <1>1, <1>2, <1>3, PTL DEF Params!Spec

-----------------------------------------------------------------------------
(* The features together: each keeps its own invariant, in its own steps   *)
(* and in those of the others.                                             *)

PicturesConstants == UsedCapture \subseteq Pictures!AllCapture

FeaturesConstants ==
  /\ S3AConstants /\ FocusConstants /\ ZoomConstants /\ FaceConstants /\ PreviewConstants /\ RingConstants
  /\ PicturesConstants /\ CapConstants /\ V4LConstants

FeaturesInv ==
  /\ S3AInv /\ FocusInv /\ ZoomInv /\ FacesInv /\ PreviewInv /\ RingInv /\ PicturesInv /\ ReprocessInv /\ CapInv
  /\ ParamsInv /\ V4LInv

(* A step of the whole is one of each component, or leaves it alone.       *)
StepOrNot ==
  /\ S3A!Next \/ UNCHANGED S3A!settingVars
  /\ AF!Next \/ UNCHANGED AF!focusVars
  /\ Zooming!Next \/ UNCHANGED Zooming!zoomVars
  /\ FD!Next \/ UNCHANGED FD!faceVars
  /\ Previews!Next \/ UNCHANGED Previews!previewVars
  /\ Ring!Next \/ UNCHANGED Ring!ringVars
  /\ Pictures!Next \/ UNCHANGED Pictures!captureVars
  /\ Video!Next \/ UNCHANGED Video!reprocessVars
  /\ Caps!Next \/ UNCHANGED Caps!capabilityVars
  /\ Params!Next \/ UNCHANGED Params!parameterVars
  /\ V4L!Next \/ UNCHANGED V4L!v4lVars

OthersRest(me) ==
  /\ me # "3a" => UNCHANGED S3A!settingVars
  /\ me # "focus" => UNCHANGED AF!focusVars
  /\ me # "zoom" => UNCHANGED Zooming!zoomVars
  /\ me # "faces" => UNCHANGED FD!faceVars
  /\ me # "preview" => UNCHANGED Previews!previewVars
  /\ me # "ring" => UNCHANGED Ring!ringVars
  /\ me # "pictures" => UNCHANGED Pictures!captureVars
  /\ me # "reprocess" => UNCHANGED Video!reprocessVars
  /\ me # "capabilities" => UNCHANGED Caps!capabilityVars
  /\ me # "parameters" => UNCHANGED Params!parameterVars
  /\ me # "v4l" => UNCHANGED V4L!v4lVars

(* The variables of a component are the same here and in its module.       *)
LEMMA SameVariables ==
  /\ UNCHANGED settingVars => UNCHANGED S3A!settingVars
  /\ UNCHANGED focusVars => UNCHANGED AF!focusVars
  /\ UNCHANGED zoomVars => UNCHANGED Zooming!zoomVars
  /\ UNCHANGED faceVars => UNCHANGED FD!faceVars
  /\ UNCHANGED previewVars => UNCHANGED Previews!previewVars
  /\ UNCHANGED ringVars => UNCHANGED Ring!ringVars
  /\ UNCHANGED captureVars => UNCHANGED Pictures!captureVars
  /\ UNCHANGED reprocessVars => UNCHANGED Video!reprocessVars
  /\ UNCHANGED capabilityVars => UNCHANGED Caps!capabilityVars
  /\ UNCHANGED parameterVars => UNCHANGED Params!parameterVars
  /\ UNCHANGED v4lVars => UNCHANGED V4L!v4lVars
<1>1. UNCHANGED settingVars => UNCHANGED S3A!settingVars
  BY DEF settingVars, S3A!settingVars
<1>2. UNCHANGED focusVars => UNCHANGED AF!focusVars
  BY DEF focusVars, AF!focusVars
<1>3. UNCHANGED zoomVars => UNCHANGED Zooming!zoomVars
  BY DEF zoomVars, Zooming!zoomVars
<1>4. UNCHANGED faceVars => UNCHANGED FD!faceVars
  BY DEF faceVars, FD!faceVars
<1>5. UNCHANGED previewVars => UNCHANGED Previews!previewVars
  BY DEF previewVars, Previews!previewVars
<1>6. UNCHANGED ringVars => UNCHANGED Ring!ringVars
  BY DEF ringVars, Ring!ringVars
<1>7. UNCHANGED captureVars => UNCHANGED Pictures!captureVars
  BY DEF captureVars, Pictures!captureVars
<1>8. UNCHANGED reprocessVars => UNCHANGED Video!reprocessVars
  BY DEF reprocessVars, Video!reprocessVars
<1>9. UNCHANGED capabilityVars => UNCHANGED Caps!capabilityVars
  BY DEF capabilityVars, Caps!capabilityVars
<1>10. UNCHANGED parameterVars => UNCHANGED Params!parameterVars
  BY DEF parameterVars, Params!parameterVars
<1>11. UNCHANGED v4lVars => UNCHANGED V4L!v4lVars
  BY DEF v4lVars, V4L!v4lVars
<1> QED
  BY <1>1, <1>2, <1>3, <1>4, <1>5, <1>6, <1>7, <1>8, <1>9, <1>10, <1>11

LEMMA AloneRests == ASSUME NEW me, Alone(me) PROVE OthersRest(me)
<1>1. /\ me # "3a" => UNCHANGED settingVars
      /\ me # "focus" => UNCHANGED focusVars
      /\ me # "zoom" => UNCHANGED zoomVars
      /\ me # "faces" => UNCHANGED faceVars
      /\ me # "preview" => UNCHANGED previewVars
      /\ me # "ring" => UNCHANGED ringVars
      /\ me # "pictures" => UNCHANGED captureVars
      /\ me # "reprocess" => UNCHANGED reprocessVars
      /\ me # "capabilities" => UNCHANGED capabilityVars
      /\ me # "parameters" => UNCHANGED parameterVars
      /\ me # "v4l" => UNCHANGED v4lVars
  BY DEF Alone
<1> QED
  BY <1>1, SameVariables DEF OthersRest

LEMMA EachSteps == ASSUME Next \/ UNCHANGED vars PROVE StepOrNot
<1>1. CASE Alone("3a") /\ S3A!Next
  BY <1>1, AloneRests DEF OthersRest, StepOrNot
<1>2. CASE Alone("focus") /\ AF!Next
  BY <1>2, AloneRests DEF OthersRest, StepOrNot
<1>3. CASE Alone("zoom") /\ Zooming!Next
  BY <1>3, AloneRests DEF OthersRest, StepOrNot
<1>4. CASE Alone("faces") /\ FD!Next
  BY <1>4, AloneRests DEF OthersRest, StepOrNot
<1>5. CASE Alone("preview") /\ Previews!Next
  BY <1>5, AloneRests DEF OthersRest, StepOrNot
<1>6. CASE Alone("ring") /\ Ring!Next
  BY <1>6, AloneRests DEF OthersRest, StepOrNot
<1>7. CASE Alone("pictures") /\ Pictures!Next
  BY <1>7, AloneRests DEF OthersRest, StepOrNot
<1>8. CASE Alone("reprocess") /\ Video!Next
  BY <1>8, AloneRests DEF OthersRest, StepOrNot
<1>9. CASE Alone("capabilities") /\ Caps!Next
  BY <1>9, AloneRests DEF OthersRest, StepOrNot
<1>10. CASE Alone("parameters") /\ Params!Next
  BY <1>10, AloneRests DEF OthersRest, StepOrNot
<1>11. CASE Alone("v4l") /\ V4L!Next
  BY <1>11, AloneRests DEF OthersRest, StepOrNot
<1>12. CASE UNCHANGED vars
  <2>1. /\ UNCHANGED settingVars /\ UNCHANGED focusVars /\ UNCHANGED zoomVars /\ UNCHANGED faceVars
        /\ UNCHANGED previewVars /\ UNCHANGED ringVars /\ UNCHANGED captureVars /\ UNCHANGED reprocessVars
        /\ UNCHANGED capabilityVars /\ UNCHANGED parameterVars /\ UNCHANGED v4lVars
    BY <1>12 DEF vars
  <2> QED
    BY <2>1, SameVariables DEF StepOrNot
<1> QED
  BY <1>1, <1>2, <1>3, <1>4, <1>5, <1>6, <1>7, <1>8, <1>9, <1>10, <1>11, <1>12 DEF Next

LEMMA FeaturesInvInit == ASSUME FeaturesConstants, Init PROVE FeaturesInv
<1>1. FacesInv /\ RingInv /\ PreviewInv /\ CapInv /\ V4LInv
  BY FacesInvInit, RingInvInit, PreviewInvInit, CapInvInit, V4LInvInit DEF Init, FeaturesConstants
<1>2. S3AInv /\ FocusInv /\ ZoomInv /\ PicturesInv
  BY S3AInvInit, FocusInvInit, ZoomInvInit, PicturesInvInit DEF Init, FeaturesConstants, PicturesConstants
<1>3. ReprocessInv /\ ParamsInv
  BY ReprocessInvInit, ParamsInvInit DEF Init
<1> QED
  BY <1>1, <1>2, <1>3 DEF FeaturesInv

LEMMA FeaturesInvStep == ASSUME FeaturesConstants, FeaturesInv, Next \/ UNCHANGED vars PROVE FeaturesInv'
<1>1. S3AInv'
  BY EachSteps, S3AInvStep DEF StepOrNot, FeaturesConstants, FeaturesInv
<1>2. FocusInv'
  BY EachSteps, FocusInvStep DEF StepOrNot, FeaturesConstants, FeaturesInv
<1>3. ZoomInv'
  BY EachSteps, ZoomInvStep DEF StepOrNot, FeaturesConstants, FeaturesInv
<1>4. FacesInv'
  BY EachSteps, FacesInvStep DEF StepOrNot, FeaturesConstants, FeaturesInv
<1>5. PreviewInv'
  BY EachSteps, PreviewInvStep DEF StepOrNot, FeaturesConstants, FeaturesInv
<1>6. RingInv'
  BY EachSteps, RingInvStep DEF StepOrNot, FeaturesConstants, FeaturesInv
<1>7. PicturesInv'
  BY EachSteps, PicturesInvStep DEF StepOrNot, FeaturesInv
<1>8. ReprocessInv'
  BY EachSteps, ReprocessInvStep DEF StepOrNot, FeaturesInv
<1>9. CapInv'
  BY EachSteps, CapInvStep DEF StepOrNot, FeaturesConstants, FeaturesInv
<1>10. ParamsInv'
  BY EachSteps, ParamsInvStep DEF StepOrNot, FeaturesInv
<1>11. V4LInv'
  BY EachSteps, V4LInvStep DEF StepOrNot, FeaturesConstants, FeaturesInv
<1> QED
  BY <1>1, <1>2, <1>3, <1>4, <1>5, <1>6, <1>7, <1>8, <1>9, <1>10, <1>11 DEF FeaturesInv

LEMMA FeaturesInvImplies == ASSUME FeaturesConstants, FeaturesInv PROVE RequestsTakeEffect
<1>1. S3A!TypeOK /\ S3A!SettingsReachComponent
  BY DEF FeaturesInv, S3AInv
<1>2. AF!TypeOK /\ AF!NoFocusForgotten
  BY FocusInvImplies DEF FeaturesInv
<1>3. Zooming!TypeOK /\ Zooming!ZoomReachesComponent /\ FD!TypeOK
  BY DEF FeaturesInv, ZoomInv, FacesInv
<1>4. Previews!TypeOK /\ Previews!NothingUnapplied /\ Previews!RunsAsAsked
  BY PreviewInvImplies DEF FeaturesInv
<1>5. Ring!TypeOK /\ Ring!RingTurns /\ Ring!SentInOrder
  BY RingInvImplies DEF FeaturesInv, FeaturesConstants
<1>6. Pictures!TypeOK /\ Pictures!NoSettingLost /\ Pictures!BuffersOfFormat
  BY DEF FeaturesInv, PicturesInv, PicturesTypes
<1>7. Video!TypeOK /\ Video!PortAsConfigured /\ Video!SemaphoresDrained
  BY ReprocessInvImplies DEF FeaturesInv
<1>8. V4L!TypeOK /\ V4L!EachBufferOnce
  BY V4LInvImplies DEF FeaturesInv, FeaturesConstants
<1>9. Caps!TypeOK /\ Caps!CamerasAreComplete
  BY CapInvImplies DEF FeaturesInv
<1>10. Params!TypeOK /\ Params!PreviewRunsAsTold /\ Params!AdapterIsTold
  BY ParamsInvImplies DEF FeaturesInv
<1> QED
  BY <1>1, <1>2, <1>3, <1>4, <1>5, <1>6, <1>7, <1>8, <1>9, <1>10 DEF RequestsTakeEffect

(* Whatever the application asks for reaches the component, and what the   *)
(* adapters believe of it is so; in every feature, whichever runs.         *)
THEOREM RequestsReach == ASSUME FeaturesConstants PROVE Spec => []RequestsTakeEffect
<1>1. Init => FeaturesInv
  BY FeaturesInvInit
<1>2. FeaturesInv /\ [Next]_vars => FeaturesInv'
  BY FeaturesInvStep
<1>3. FeaturesInv => RequestsTakeEffect
  BY FeaturesInvImplies
<1> QED
  BY <1>1, <1>2, <1>3, PTL DEF Spec
=============================================================================
