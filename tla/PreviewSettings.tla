---------------------------- MODULE PreviewSettings ----------------------------
(* The settings of the algorithms that the OMX camera component takes in      *)
(* Loaded only (OMXAlgo.cpp): setParametersAlgo() marks what has changed in   *)
(* mPendingPreviewSettings, and the start of a preview applies the marked     *)
(* ones, in getFrameSize() and once more in UseBuffersPreview().  Brightness  *)
(* control is set at once.                                                    *)
EXTENDS Naturals

CONSTANTS
  SettingCalls,      \* calls of setParameters()
  PreviewFaults      \* calls of the component that may fail

VARIABLES
  wantedMode,          \* mCapMode: "photo", "video", "fast" (high speed)
  wantedOn,            \* mIPP (for LDC and NSF), mVnfEnabled, mVstabEnabled, mGBCE
  pendingPreview,      \* mPendingPreviewSettings
  stateSwitch,         \* mOMXStateSwitch
  componentMode, componentOn,   \* what the component has
  previewPc,           \* the start of the preview: the next step
  inFunction,          \* "frameSize" or "useBuffers"
  componentLoaded,
  shrunk,              \* setSensorOrientation() has left 640x480 behind
  marked,              \* settings marked since the preview was started
  failedSetters,       \* settings whose setter has failed since they were marked
  settingCalls, previewFaults

previewVars == <<wantedMode, wantedOn, pendingPreview, stateSwitch, componentMode, componentOn, previewPc,
                 inFunction, componentLoaded, shrunk, marked, failedSetters, settingCalls, previewFaults>>
wanted == <<wantedMode, wantedOn>>
inComponent == <<componentMode, componentOn>>

Switches == {"LDC", "NSF", "VNF", "VSTAB", "GBCE"}
VideoOnly == {"VNF", "VSTAB"}
Loadable == {"LDC", "NSF", "CapMode", "VNF", "VSTAB"}

Init ==
  /\ wantedMode = "photo" /\ wantedOn = [s \in Switches |-> FALSE] /\ pendingPreview = {} /\ stateSwitch = FALSE
  /\ componentMode = "photo" /\ componentOn = [s \in Switches |-> FALSE]
  /\ previewPc = "off" /\ inFunction = "frameSize" /\ componentLoaded = TRUE /\ shrunk = FALSE
  /\ marked = {} /\ failedSetters = {} /\ settingCalls = 0 /\ previewFaults = 0

Fault == previewFaults < PreviewFaults /\ previewFaults' = previewFaults + 1
-----------------------------------------------------------------------------
(* setGBCE(), setGLBCE(): the wish is kept although the call may fail.        *)
SetGBCE(on) ==
  IF on = wantedOn["GBCE"] THEN UNCHANGED <<componentOn, failedSetters, previewFaults>>
  ELSE \/ /\ componentOn' = [componentOn EXCEPT !["GBCE"] = on]
          /\ failedSetters' = failedSetters \ {"GBCE"} /\ UNCHANGED previewFaults
       \/ Fault /\ failedSetters' = failedSetters \cup {"GBCE"} /\ UNCHANGED componentOn

(* setParametersAlgo(): LDC, NSF and brightness are off the table at high     *)
(* speed; with stabilization on, every call asks for the Loaded state, in any *)
(* mode: the test of the mode (OMXAlgo.cpp:220) assigns it.                   *)
SetParametersAlgo(mode, ipp, vnf, vstab, gbce) ==
  LET slow == mode # "fast"
      on == [s \in Switches |-> CASE s \in {"LDC", "NSF"} -> slow /\ ipp
                                  [] s = "VNF" -> vnf [] s = "VSTAB" -> vstab
                                  [] s = "GBCE" -> IF slow THEN gbce ELSE wantedOn["GBCE"]]
      changed == {s \in Switches \ {"GBCE"} : on[s] # wantedOn[s]} \cup (IF mode # wantedMode THEN {"CapMode"} ELSE {})
  IN /\ wantedMode' = mode /\ wantedOn' = on
     /\ pendingPreview' = pendingPreview \cup changed /\ marked' = marked \cup changed
     /\ stateSwitch' = (stateSwitch \/ changed # {} \/ vstab)
     /\ SetGBCE(on["GBCE"])

SetParameters ==
  /\ previewPc \in {"off", "running"} /\ settingCalls < SettingCalls /\ settingCalls' = settingCalls + 1
  /\ \E mode \in {"photo", "video", "fast"}, ipp, vnf, vstab, gbce \in BOOLEAN :
       SetParametersAlgo(mode, ipp, vnf, vstab, gbce)
  /\ shrunk' = FALSE    \* the preview port gets the size asked for
  /\ UNCHANGED <<componentMode, previewPc, inFunction, componentLoaded>>
-----------------------------------------------------------------------------
(* The start of a preview.  An ok setter takes the wish to the component; one *)
(* of several calls of the component may fail after an earlier one was taken. *)

StartPreview ==
  /\ previewPc = "off" /\ previewPc' = "LDC" /\ inFunction' = "frameSize" /\ marked' = {}
  /\ stateSwitch' = FALSE     \* switchToLoaded(true): the component is Loaded already
  /\ UNCHANGED <<wanted, pendingPreview, inComponent, componentLoaded, shrunk, failedSetters, settingCalls,
                 previewFaults>>

Take(s) == IF s = "CapMode" THEN componentMode' = wantedMode /\ UNCHANGED componentOn
           ELSE componentOn' = [componentOn EXCEPT ![s] = wantedOn[s]] /\ UNCHANGED componentMode

Following(s) == CASE s = "LDC" -> "NSF" [] s = "NSF" -> "CapMode" [] s = "CapMode" -> "VNF"
                  [] s = "VNF" -> "VSTAB" [] s = "VSTAB" -> "orientation"

(* The mark is removed first.  Only LDC and NSF, and only in getFrameSize(),  *)
(* end the start when they fail.                                              *)
Setter(s, calls) ==
  /\ previewPc = s
  /\ IF s \in pendingPreview /\ componentLoaded /\ (s \in VideoOnly => wantedMode = "video")
       THEN /\ pendingPreview' = pendingPreview \ {s}
            /\ \/ /\ Take(s) /\ failedSetters' = failedSetters \ {s} /\ previewPc' = Following(s)
                  /\ UNCHANGED previewFaults
               \/ /\ Fault /\ failedSetters' = failedSetters \cup {s}
                  /\ \/ calls = 2 /\ Take(s)
                     \/ UNCHANGED inComponent
                  /\ previewPc' = IF inFunction = "frameSize" /\ s \in {"LDC", "NSF"} THEN "off" ELSE Following(s)
       ELSE previewPc' = Following(s) /\ UNCHANGED <<pendingPreview, inComponent, failedSetters, previewFaults>>
  /\ UNCHANGED <<wanted, stateSwitch, inFunction, componentLoaded, shrunk, marked, settingCalls>>

SetLDC == Setter("LDC", 1)
SetNSF == Setter("NSF", 1)
SetCaptureMode == Setter("CapMode", 2)
EnableVideoNoiseFilter == Setter("VNF", 1)
EnableVideoStabilization == Setter("VSTAB", 2)

(* A port of 720 lines and more is set to 640x480 and back; the first failure *)
(* leaves it there, and ends the start in getFrameSize() only.                *)
SetSensorOrientation ==
  /\ previewPc = "orientation"
  /\ \/ /\ shrunk' = shrunk /\ UNCHANGED previewFaults
        /\ IF inFunction = "frameSize" THEN previewPc' = "LDC" /\ inFunction' = "useBuffers"
           ELSE previewPc' = "execute" /\ UNCHANGED inFunction
     \/ /\ Fault /\ shrunk' \in {shrunk, TRUE} /\ UNCHANGED inFunction
        /\ previewPc' = IF inFunction = "frameSize" THEN "off" ELSE "execute"
  /\ UNCHANGED <<wanted, pendingPreview, stateSwitch, inComponent, componentLoaded, marked, failedSetters,
                 settingCalls>>

Execute ==
  /\ previewPc = "execute" /\ previewPc' = "running" /\ componentLoaded' = FALSE
  /\ UNCHANGED <<wanted, pendingPreview, stateSwitch, inComponent, inFunction, shrunk, marked, failedSetters,
                 settingCalls, previewFaults>>

StopPreview ==
  /\ previewPc = "running" /\ previewPc' = "off" /\ componentLoaded' = TRUE
  /\ UNCHANGED <<wanted, pendingPreview, stateSwitch, inComponent, inFunction, shrunk, marked, failedSetters,
                 settingCalls, previewFaults>>
-----------------------------------------------------------------------------
Next ==
  \/ SetParameters \/ StartPreview \/ SetLDC \/ SetNSF \/ SetCaptureMode \/ EnableVideoNoiseFilter
  \/ EnableVideoStabilization \/ SetSensorOrientation \/ Execute \/ StopPreview

Spec == Init /\ [][Next]_previewVars
-----------------------------------------------------------------------------
TypeOK ==
  /\ wantedMode \in {"photo", "video", "fast"} /\ componentMode \in {"photo", "video", "fast"}
  /\ wantedOn \in [Switches -> BOOLEAN] /\ componentOn \in [Switches -> BOOLEAN]
  /\ pendingPreview \subseteq Loadable /\ marked \subseteq Loadable /\ failedSetters \subseteq Loadable \cup {"GBCE"}
  /\ (previewPc = "running") = ~componentLoaded

(* The component has what the application asked for, unless it is marked for  *)
(* the next start or the component refused it.                                *)
Has(s) == IF s = "CapMode" THEN componentMode = wantedMode ELSE componentOn[s] = wantedOn[s]
NothingUnapplied == \A s \in Loadable \cup {"GBCE"} : Has(s) \/ s \in pendingPreview \cup failedSetters

(* A preview runs with everything that was asked for before it started; what  *)
(* belongs to video may wait for a video mode.                                *)
RunsAsAsked ==
  previewPc = "running" =>
    \A s \in Loadable : Has(s) \/ s \in marked \cup failedSetters \/ (s \in VideoOnly /\ (wantedMode # "video" \/ "CapMode" \in marked))
=============================================================================
