---------------------------- MODULE HalParameters ----------------------------
(* CameraHal::setParameters(): what the application asks for is checked one   *)
(* parameter after the other and written into mParameters on the way; then    *)
(* the camera adapter is told, or the preview restarted.  Parameters that are *)
(* treated alike are one here.  The calls of the service do not overlap.      *)
(* S3D layouts, VTC, measurement and the sizes of the MMS mode are left out.  *)
EXTENDS Naturals, FiniteSets

CONSTANTS
  AskedParameters,   \* the parameters the application changes, some of AllParameters
  ParameterCalls,    \* calls of setParameters()
  ParameterFaults    \* calls of the adapter or startPreview() that fail

VARIABLES
  mParameters,
  mCapModeBackup,    \* a mode, or Default if empty
  previewIs,         \* "off", "on", or "paused" after a picture
  isRecording,       \* mRecordingEnabled
  adapterParams,     \* what the camera adapter was told last
  port,              \* what its preview was started with
  unapplied,         \* why the preview may differ: "refused", "recording", "paused", "failed"
  parameterCalls, parameterFaults

parameterVars == <<mParameters, mCapModeBackup, previewIs, isRecording, adapterParams, port, unapplied,
                   parameterCalls, parameterFaults>>

Absent == "absent"
Default == ""
VideoModes == {"video", "videohq"}
On == "true"
Off == "false"

(* The values insertSupportedParams() tells the application of.               *)
Supported ==
  [mode |-> {"hq", "video"}, vnf |-> {On, Off}, vstab |-> {On, Off}, hint |-> {On, Off, Absent},
   size |-> {"vga", "1080p"}, focus |-> {"auto", "picture", "video"}, fps |-> {30, 120},
   manual |-> {0, 1}, tone |-> {1, 2}, scene |-> {1, 2}, gps |-> {"here"}]
AllParameters == DOMAIN Supported

(* initDefaultParameters().                                                   *)
Defaults ==
  [mode |-> Default, vnf |-> Off, vstab |-> Off, hint |-> Absent, size |-> "vga", focus |-> "auto",
   fps |-> 30, manual |-> 0, tone |-> 1, scene |-> 1, gps |-> Absent]

(* The application sends every parameter, those it does not change as they    *)
(* are; it may leave some out, or get one wrong.                              *)
Optional == {"mode", "vnf", "vstab", "gps"}
Values(k) ==
  IF k \in AskedParameters THEN Supported[k] \cup (IF k \in Optional THEN {Absent} ELSE {})
  ELSE {IF k = "mode" THEN Absent ELSE mParameters[k]}
Wrongs == {"format", "ipp", "orientation", "hint", "size", "focus", "picture", "fps", "exposure", "manual", "tone",
           "scene", "zoom"}
Requests ==
  {[mode |-> mo, vnf |-> n, vstab |-> s, hint |-> h, size |-> z, focus |-> f, fps |-> r, manual |-> e, tone |-> t,
    scene |-> c, gps |-> g, wrong |-> w] :
     mo \in Values("mode"), n \in Values("vnf"), s \in Values("vstab"), h \in Values("hint"), z \in Values("size"),
     f \in Values("focus"), r \in Values("fps"), e \in Values("manual"), t \in Values("tone"), c \in Values("scene"),
     g \in Values("gps"), w \in Wrongs \cup {"nothing"}}

Init ==
  /\ mParameters = Defaults /\ mCapModeBackup = Default /\ previewIs = "off" /\ isRecording = FALSE
  /\ adapterParams = Defaults /\ port = Defaults /\ unapplied = {} /\ parameterCalls = 0 /\ parameterFaults = 0
-----------------------------------------------------------------------------
(* A call on its way: the parameters so far, whether the preview must be      *)
(* restarted, the adapter be told, and whether it has returned BAD_VALUE.     *)
Refuse(c) == [c EXCEPT !.refused = TRUE]
IsValid(c, p, what) == ~c.refused /\ p.wrong # what       \* isParameterValid() and the like

(* Returns the call with parameter k set, that restarts the preview, or makes *)
(* the adapter be told, when it changes.                                      *)
Set(c, k, v) == [c EXCEPT !.m[k] = v]
NeedsRestart(c, k, v) == [Set(c, k, v) EXCEPT !.restart = @ \/ c.m[k] # v]
DoesNeedUpdate(c, k, v) == [Set(c, k, v) EXCEPT !.update = @ \/ c.m[k] # v]

(* setVideoModeParameters().  A stabilised 1080p preview needs VNF.           *)
SetVideoModeParameters(c, p) ==
  LET mode == IF c.m.mode \in VideoModes THEN c ELSE NeedsRestart(c, "mode", "video")
      vstab == IF mode.m.vstab = Absent THEN Set(mode, "vstab", p.vstab)
               ELSE NeedsRestart(mode, "vstab", p.vstab)  \* absent: it is removed
      vnf == IF p.vnf = Absent THEN [Set(vstab, "vnf", On) EXCEPT !.restart = TRUE] ELSE NeedsRestart(vstab, "vnf", p.vnf)
  IN IF vnf.m.vstab = On /\ p.size = "1080p" THEN [Set(vnf, "vnf", On) EXCEPT !.restart = TRUE] ELSE vnf

ResetVideoModeParameters(c) == IF ~isRecording /\ c.m.mode = "video" THEN NeedsRestart(c, "mode", Default) ELSE c

(* Looked at only while no preview runs.  The mode the application has chosen *)
(* comes back once it leaves the choice open.                                 *)
CaptureMode(c, p) ==
  LET backup == IF p.mode \in {Absent, "video"} THEN c.backup ELSE p.mode
      mode == IF p.mode # Absent THEN p.mode ELSE backup
  IN IF p.mode = Absent /\ c.backup = Default THEN c
     ELSE [DoesNeedUpdate(c, "mode", mode) EXCEPT !.backup = backup, !.update = @ \/ p.mode = Absent]
BeforePreview(c, p) ==
  LET vnf == IF p.vnf = Absent THEN c ELSE Set(c, "vnf", p.vnf)
      vstab == IF p.vstab = Absent THEN vnf ELSE Set(vnf, "vstab", p.vstab)
      mode == CaptureMode(vstab, p)
  IN IF previewIs = "on" THEN c
     ELSE IF ~IsValid(c, p, "format") THEN Refuse(c)
     ELSE IF ~IsValid(c, p, "ipp") THEN Refuse(mode) ELSE mode

(* KEY_RECORDING_HINT.                                                        *)
RecordingHint(c, p) ==
  IF ~IsValid(c, p, "orientation") \/ ~IsValid(c, p, "hint") THEN Refuse(c)
  ELSE LET hint == Set(c, "hint", p.hint) IN IF p.hint = On THEN SetVideoModeParameters(hint, p) ELSE ResetVideoModeParameters(hint)

PreviewSize(c, p) == IF IsValid(c, p, "size") THEN NeedsRestart(c, "size", p.size) ELSE Refuse(c)

(* Continuous focus for pictures or for a video chooses the capture mode.     *)
FocusMode(c, p) ==
  LET mode == CASE p.focus = "picture" -> ResetVideoModeParameters(c)
                [] p.focus = "video" -> SetVideoModeParameters(c, p)
                [] OTHER -> c
  IN IF IsValid(c, p, "focus") THEN Set(mode, "focus", p.focus) ELSE Refuse(c)

PictureAndRate(c, p) ==
  LET slower == c.m.fps = 120 /\ p.fps < 120
  IN IF IsValid(c, p, "picture") /\ IsValid(c, p, "fps") THEN [Set(c, "fps", p.fps) EXCEPT !.restart = @ \/ slower] ELSE Refuse(c)

(* A manual exposure or gain out of range becomes the least possible.         *)
Exposure(c, p) ==
  IF ~IsValid(c, p, "exposure") THEN Refuse(c) ELSE Set(c, "manual", IF IsValid(c, p, "manual") THEN p.manual ELSE 0)

(* White balance, contrast, ISO and all the others that the adapter is told   *)
(* of only with the preview running.                                          *)
Tones(c, p) == IF IsValid(c, p, "tone") THEN Set(c, "tone", p.tone) ELSE Refuse(c)

(* Scene mode and effect, the parameters nobody checks, zoom and locks.  What *)
(* a picture is to be told of the place is removed when it is left out.       *)
Scene(c, p) == IF IsValid(c, p, "scene") THEN DoesNeedUpdate(c, "scene", p.scene) ELSE Refuse(c)
Unchecked(c, p) == IF c.refused THEN c ELSE Set(c, "gps", p.gps)
ZoomLevel(c, p) == IF IsValid(c, p, "zoom") THEN c ELSE Refuse(c)

Checked(p) ==
  LET c0 == [m |-> mParameters, backup |-> mCapModeBackup, restart |-> FALSE, update |-> FALSE, refused |-> FALSE]
      c1 == RecordingHint(BeforePreview(c0, p), p)
      c2 == FocusMode(PreviewSize(c1, p), p)
      c3 == Tones(Exposure(PictureAndRate(c2, p), p), p)
  IN ZoomLevel(Unchecked(Scene(c3, p), p), p)
-----------------------------------------------------------------------------
Fault == parameterFaults < ParameterFaults /\ parameterFaults' = parameterFaults + 1

(* cameraPreviewInitialization() and startPreview(): the adapter is told; a   *)
(* preview that is only paused goes on as it was.                             *)
Start(m, from) ==
  /\ mParameters' = m
  /\ \/ /\ adapterParams' = m /\ previewIs' = "on" /\ UNCHANGED parameterFaults
        /\ IF from = "paused" THEN UNCHANGED <<port, unapplied>> ELSE port' = m /\ unapplied' = {}
     \/ Fault /\ previewIs' = "off" /\ adapterParams' = m /\ UNCHANGED <<port, unapplied>>

(* restartPreview(): the mode goes back to the application's choice.          *)
RestartPreview(c) == Start([c.m EXCEPT !.mode = c.backup], "off")

(* The end of setParameters().                                                *)
TellAdapter(c) ==
  IF (previewIs = "on" \/ c.update) /\ ~(previewIs = "on" /\ c.restart)
    THEN \/ adapterParams' = c.m /\ mParameters' = c.m /\ UNCHANGED parameterFaults
         \/ Fault /\ UNCHANGED <<adapterParams, mParameters>>      \* the old parameters are restored
    ELSE mParameters' = c.m /\ UNCHANGED <<adapterParams, parameterFaults>>

Apply(c) ==
  IF c.restart /\ previewIs = "on" /\ ~isRecording THEN RestartPreview(c)
  ELSE /\ TellAdapter(c) /\ UNCHANGED port
       /\ previewIs' = IF c.restart /\ previewIs = "paused" /\ ~isRecording THEN "off" ELSE previewIs   \* forceStopPreview()
       /\ unapplied' = IF c.restart /\ isRecording THEN unapplied \cup {"recording"}
                       ELSE IF previewIs = "paused" /\ c.m.mode # port.mode THEN unapplied \cup {"paused"} ELSE unapplied

SetParameters ==
  /\ parameterCalls < ParameterCalls /\ parameterCalls' = parameterCalls + 1
  /\ \E p \in Requests : LET c == Checked(p)
       IN /\ mCapModeBackup' = c.backup
          /\ IF c.refused
               THEN /\ mParameters' = c.m
                    /\ unapplied' = IF c.m = mParameters THEN unapplied ELSE unapplied \cup {"refused"}
                    /\ UNCHANGED <<adapterParams, port, previewIs, parameterFaults>>
               ELSE Apply(c)
  /\ UNCHANGED isRecording
-----------------------------------------------------------------------------
service == <<mCapModeBackup, isRecording, parameterCalls>>

StartPreview == previewIs # "on" /\ Start(mParameters, previewIs) /\ UNCHANGED service

(* stopPreview() resets the capture mode, but not when paused.                *)
StopPreview ==
  /\ previewIs = "on" /\ ~isRecording /\ previewIs' = "off" /\ mParameters' = [mParameters EXCEPT !.mode = Default]
  /\ UNCHANGED <<service, adapterParams, port, unapplied, parameterFaults>>

TakePicture ==
  /\ previewIs = "on" /\ ~isRecording /\ previewIs' = "paused"
  /\ UNCHANGED <<service, mParameters, adapterParams, port, unapplied, parameterFaults>>

(* startRecording() without a hint, or with continuous focus for pictures.    *)
StartRecording ==
  /\ previewIs = "on" /\ ~isRecording
  /\ LET c0 == [m |-> mParameters, backup |-> mCapModeBackup, restart |-> FALSE, update |-> FALSE, refused |-> FALSE]
         photo == IF mParameters.focus = "picture" THEN ResetVideoModeParameters(c0) ELSE c0
         video == IF ~photo.restart /\ mParameters.hint # On THEN SetVideoModeParameters(photo, mParameters) ELSE photo
     IN IF video.restart
          THEN RestartPreview(video) /\ isRecording' = (previewIs' = "on")
          ELSE mParameters' = video.m /\ isRecording' = TRUE /\ UNCHANGED <<previewIs, adapterParams, port, unapplied, parameterFaults>>
  /\ UNCHANGED <<mCapModeBackup, parameterCalls>>

StopRecording ==
  /\ isRecording /\ isRecording' = FALSE
  /\ UNCHANGED <<mParameters, mCapModeBackup, previewIs, adapterParams, port, unapplied, parameterCalls, parameterFaults>>

Next == SetParameters \/ StartPreview \/ StopPreview \/ TakePicture \/ StartRecording \/ StopRecording

Spec == Init /\ [][Next]_parameterVars
-----------------------------------------------------------------------------
TypeOK ==
  /\ DOMAIN mParameters = AllParameters /\ previewIs \in {"off", "on", "paused"} /\ isRecording \in BOOLEAN
  /\ mCapModeBackup \in Supported.mode \cup {Default} /\ (isRecording => previewIs = "on")

(* A running preview has the size and the mode that the application is told,  *)
(* unless a refused call has left its part in mParameters, a change came      *)
(* while recording or with the preview paused.                                *)
PreviewRunsAsTold ==
  (previewIs = "on" /\ unapplied = {}) => port.size = mParameters.size /\ port.mode = mParameters.mode

(* And the adapter has been told every parameter of it.                       *)
AdapterIsTold == (previewIs = "on" /\ unapplied = {}) => adapterParams = mParameters

(* "Video Recording needs CAPTURE_MODE to be VIDEO_MODE" (CameraHal.cpp:2322):*)
(* a preview with the recording hint runs in it.                              *)
HintedIsVideo ==
  (previewIs = "on" /\ unapplied = {} /\ mParameters.hint = On /\ mParameters.focus # "picture") => port.mode \in VideoModes
=============================================================================
