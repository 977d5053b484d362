----------------------------- MODULE Settings3A -----------------------------
(* The 3A settings of the OMX camera adapter (OMX3A.cpp): setParameters()     *)
(* notes what the application wants and marks it in mPending3Asettings, and   *)
(* apply3Asettings() hands it to the component, on the callback thread with   *)
(* every preview frame or when a picture is taken.  The values are abstracted *)
(* to two; the setters differ in nothing else but the focus mode's.           *)
EXTENDS Naturals, FiniteSets

CONSTANTS
  UsedSettings,   \* the settings the application changes, some of AllSettings
  SettingFaults   \* OMX_SetConfig() and OMX_GetConfig() calls that may fail

VARIABLES
  scene, wanted,           \* mParameters3A: the scene mode, the other settings
  pending,                 \* mPending3Asettings
  mFirstTimeInit,
  configured,              \* what the component has
  configuredScene,
  previewing,              \* adapter state: PREVIEW_ACTIVE
  focusing,                \* and AF_ACTIVE
  lostMarks,               \* marks that a write without the lock has undone, and not set since
  missed,                  \* settings cleared without being configured or read back, not marked since
  settingFaults

settingVars == <<scene, wanted, pending, mFirstTimeInit, configured, configuredScene, previewing,
                 focusing, lostMarks, missed, settingFaults>>

Values == {0, 1}
Scenes == {"Manual", "Preset"}

(* The settings by what sets them.                                            *)
ExposureModes == {"ExpMode", "ManualExposure"}
FlashModes == {"Flash"}
FocusModes == {"Focus"}
WhitePoint == {"EVCompensation", "WhiteBallance"}
Tones == {"Flicker", "Brightness", "Contrast", "Sharpness"}
Colours == {"Saturation", "ISO"}
Effects == {"Effect"}
Locks == {"WBLock", "ExpLock"}
Areas == {"MeteringAreas"}
Algos == {"AlgoFixedGamma", "AlgoNSF1", "AlgoNSF2", "AlgoSharpening", "AlgoThreeLinColorMap", "AlgoGIC"}
AllSettings == ExposureModes \cup FlashModes \cup FocusModes \cup WhitePoint \cup Tones \cup Colours
                 \cup Effects \cup Locks \cup Areas \cup Algos

(* Those that mFirstTimeInit marks although they are equal.                   *)
Forced == FlashModes \cup FocusModes \cup WhitePoint \cup Tones \cup Colours \cup Effects

Init ==
  /\ scene = "Manual" /\ wanted = [s \in UsedSettings |-> 0] /\ pending = {} /\ mFirstTimeInit = TRUE
  /\ configured = wanted /\ configuredScene = "Manual" /\ previewing = FALSE /\ focusing = FALSE
  /\ lostMarks = {} /\ missed = {} /\ settingFaults = 0

(* setScene() reads back the modes of focus, flash and white balance that a  *)
(* preset has chosen.  Its caller sets an exposure compensation other than    *)
(* zero again, as the component may have reset it.  The calls that fail, or   *)
(* are not made in an invalid state, are not tried again: no mark is left.    *)
ReadBack == {"Focus", "Flash", "WhiteBallance"}
Resets == {"EVCompensation"}
SetScene(to) ==
  \E failed \in SUBSET ({"Scene"} \cup (UsedSettings \cap (ReadBack \cup Resets))), reset \in SUBSET (UsedSettings \cap Resets) :
    LET preset == {s \in UsedSettings \cap ReadBack : to # "Manual" /\ "Scene" \notin failed}
        again == {s \in UsedSettings \cap Resets : wanted[s] # 0}
        done == ({"Scene"} \cup preset \cup again) \ failed
    IN /\ failed \subseteq {"Scene"} \cup preset \cup again /\ ("Scene" \in failed => reset = {})
       /\ settingFaults' = settingFaults + Cardinality(failed) /\ settingFaults' <= SettingFaults
       /\ configuredScene' = IF "Scene" \in failed THEN configuredScene ELSE to
       /\ missed' = (missed \ done) \cup failed /\ lostMarks' = lostMarks \ done
       /\ \E chosen \in [preset -> Values] :
            /\ wanted' = [s \in UsedSettings |-> IF s \in preset \cap done THEN chosen[s] ELSE wanted[s]]
            /\ configured' = [s \in UsedSettings |-> IF s \in preset THEN chosen[s]
                                ELSE IF s \in again \cap done THEN wanted[s]
                                ELSE IF s \in reset THEN 0 ELSE configured[s]]

(* setParameters3A(), all under m3ASettingsUpdateLock.  A scene mode set      *)
(* while previewing is applied at once, and the rest of the call skipped.     *)
SetSceneAtOnce(to) ==
  /\ previewing /\ to # "Manual" /\ (mFirstTimeInit \/ scene # to)
  /\ scene' = to /\ SetScene(to) /\ mFirstTimeInit' = FALSE
  /\ UNCHANGED <<pending, previewing, focusing>>

(* The other threads mark the focus mode without the lock: the write of one   *)
(* of them undoes any changes of mPending3Asettings since it has read it.     *)
Undone(changes) == IF previewing /\ "Focus" \in UsedSettings THEN SUBSET (changes \ FocusModes) ELSE {{}}
Marker(undone) == IF undone = {} THEN {} ELSE FocusModes

Marked(values, init) == {s \in UsedSettings : values[s] # wanted[s] \/ (init /\ s \in Forced)}

SetParameters3A(to, values) ==
  /\ ~(previewing /\ to # "Manual" /\ (mFirstTimeInit \/ scene # to))
  /\ LET marked == Marked(values, mFirstTimeInit \/ (scene # to /\ to = "Manual"))
         all == marked \cup IF mFirstTimeInit \/ scene # to THEN {"Scene"} ELSE {}
     IN \E lost \in Undone(all \ pending) :
          /\ pending' = pending \cup (all \ lost) \cup Marker(lost)
          /\ lostMarks' = (lostMarks \ all) \cup lost
          /\ missed' = missed \ all
  /\ scene' = to /\ wanted' = values /\ mFirstTimeInit' = FALSE
  /\ UNCHANGED <<configured, configuredScene, previewing, focusing, settingFaults>>

(* apply3Asettings(), under the same lock, removes the mark before the call.  *)
ApplyScene ==
  /\ "Scene" \in pending /\ \E back \in Undone({"Scene"}) : pending' = (pending \ {"Scene"}) \cup back \cup Marker(back)
  /\ SetScene(scene) /\ UNCHANGED <<scene, mFirstTimeInit, previewing, focusing>>

InScene == {"EVCompensation", "Focus", "WBLock", "ExpLock", "WhiteBallance", "Flash"}
Allowed == IF scene = "Manual" THEN pending ELSE pending \cap InScene

(* A setting that the component refuses is not marked any more either, nor a  *)
(* focus mode, which setFocusMode() does not set while the adapter focuses.   *)
ApplySettings(refused) ==
  /\ pending # {} /\ "Scene" \notin pending /\ refused \subseteq Allowed \cap UsedSettings
  /\ settingFaults' = settingFaults + Cardinality(refused) /\ settingFaults' <= SettingFaults
  /\ LET set == Allowed \ (refused \cup IF focusing THEN FocusModes ELSE {})
     IN /\ configured' = [s \in UsedSettings |-> IF s \in set THEN wanted[s] ELSE configured[s]]
        /\ missed' = (missed \cup ((pending \cap UsedSettings) \ set)) \ set
        /\ lostMarks' = lostMarks \ set
  /\ \E back \in Undone(pending) : pending' = back \cup Marker(back)
  /\ UNCHANGED <<scene, wanted, mFirstTimeInit, configuredScene, previewing, focusing>>

(* Continuous focus after an autofocus, the snapshot and the end of a capture *)
(* mark the focus mode.                                                       *)
MarkFocus ==
  /\ previewing /\ "Focus" \in UsedSettings \ pending /\ pending' = pending \cup {"Focus"}
  /\ UNCHANGED <<scene, wanted, mFirstTimeInit, configured, configuredScene, previewing, focusing,
                 lostMarks, missed, settingFaults>>

(* Preview starts with the parameters set before, and a start after a stop    *)
(* marks everything again.  An autofocus runs during preview only.            *)
StartPreview ==
  /\ ~previewing /\ ~mFirstTimeInit /\ previewing' = TRUE
  /\ UNCHANGED <<scene, wanted, pending, mFirstTimeInit, configured, configuredScene, focusing, lostMarks, missed,
                 settingFaults>>

StopPreview ==
  /\ previewing /\ ~focusing /\ previewing' = FALSE /\ mFirstTimeInit' = TRUE
  /\ UNCHANGED <<scene, wanted, pending, configured, configuredScene, focusing, lostMarks, missed, settingFaults>>

AutoFocus ==
  /\ previewing /\ "Focus" \in UsedSettings /\ focusing' = ~focusing
  /\ UNCHANGED <<scene, wanted, pending, mFirstTimeInit, configured, configuredScene, previewing, lostMarks, missed,
                 settingFaults>>

Apply == previewing /\ (ApplyScene \/ \E refused \in SUBSET UsedSettings : ApplySettings(refused))

Next ==
  \/ \E to \in Scenes :
       SetSceneAtOnce(to) \/ \E values \in [UsedSettings -> Values] : SetParameters3A(to, values)
  \/ Apply \/ MarkFocus \/ StartPreview \/ StopPreview \/ AutoFocus

Spec == Init /\ [][Next]_settingVars
-----------------------------------------------------------------------------
TypeOK ==
  /\ UsedSettings \subseteq AllSettings
  /\ scene \in Scenes /\ configuredScene \in Scenes
  /\ wanted \in [UsedSettings -> Values] /\ configured \in [UsedSettings -> Values]
  /\ pending \subseteq UsedSettings \cup {"Scene"}
  /\ missed \subseteq UsedSettings \cup {"Scene"} /\ lostMarks \subseteq UsedSettings \cup {"Scene"}
  /\ settingFaults \in 0 .. SettingFaults

(* What is neither marked nor missed, and whose mark was not lost, is what    *)
(* the component has.  Without faults, once the scene is manual nothing that  *)
(* a first call forces stays missed, but a focus mode set during an autofocus.*)
SettingsReachComponent ==
  /\ "Scene" \notin pending \cup lostMarks \cup missed => configuredScene = scene
  /\ \A s \in UsedSettings \ (pending \cup missed \cup lostMarks) : configured[s] = wanted[s]
  /\ scene = "Manual" /\ settingFaults = 0 => missed \cap (Forced \cup {"Scene"}) \subseteq FocusModes
=============================================================================
