------------------------- MODULE AdapterTransitions -------------------------
(***************************************************************************)
(* The transition table of the camera adapter: which CameraCommands each   *)
(* AdapterState accepts and the state the command leads to.  The table is  *)
(* the switch of BaseCameraAdapter::setState(); the states are those of    *)
(* CameraAdapter::AdapterState in inc/CameraHal.h.                         *)
(*                                                                         *)
(* CpCam says whether the build defines OMAP_ENHANCEMENT_CPCAM, which adds *)
(* the reprocessing states.                                                *)
(***************************************************************************)

CONSTANT CpCam

ASSUME CpCamIsBoolean == CpCam \in BOOLEAN

VideoStates ==
  {"VIDEO", "VIDEO_AF", "VIDEO_ZOOM", "VIDEO_LOADED_CAPTURE", "VIDEO_CAPTURE"}

StillStates ==
  {"INITIALIZED", "LOADED_PREVIEW", "PREVIEW", "LOADED_CAPTURE", "CAPTURE",
   "BRACKETING", "AF", "ZOOM", "AF_ZOOM", "BRACKETING_ZOOM",
   "LOADED_REPROCESS", "LOADED_REPROCESS_CAPTURE", "REPROCESS"}

States == VideoStates \cup StillStates

(* The four CAMERA_USE_BUFFERS_* commands that call useBuffers() without    *)
(* looking at what setState() returned.                                     *)
BlindUseBuffers ==
  {"USE_BUFFERS_PREVIEW", "USE_BUFFERS_PREVIEW_DATA",
   "USE_BUFFERS_IMAGE_CAPTURE", "USE_BUFFERS_VIDEO_CAPTURE"}

(* The commands that go through setState(); sendCommand() runs the others  *)
(* (face detection, tunnels, CAMERA_SWITCH_TO_EXECUTING ...) directly.     *)
Commands ==
  BlindUseBuffers \cup
  {"USE_BUFFERS_REPROCESS", "START_SMOOTH_ZOOM", "STOP_SMOOTH_ZOOM",
   "START_PREVIEW", "STOP_PREVIEW", "START_VIDEO", "STOP_VIDEO",
   "START_IMAGE_CAPTURE", "STOP_IMAGE_CAPTURE",
   "START_BRACKET_CAPTURE", "STOP_BRACKET_CAPTURE",
   "PERFORM_AUTOFOCUS", "CANCEL_AUTOFOCUS",
   "QUERY_RESOLUTION_PREVIEW", "QUERY_BUFFER_SIZE_IMAGE_CAPTURE",
   "QUERY_BUFFER_SIZE_PREVIEW_DATA"}

-----------------------------------------------------------------------------
(* Every edge is a triple <<state, command, next state>>.                   *)

InitializedEdges ==
  {<<"INITIALIZED", "USE_BUFFERS_PREVIEW",             "LOADED_PREVIEW">>,
   <<"INITIALIZED", "QUERY_RESOLUTION_PREVIEW",        "INITIALIZED">>,
   <<"INITIALIZED", "QUERY_BUFFER_SIZE_IMAGE_CAPTURE", "INITIALIZED">>,
   <<"INITIALIZED", "QUERY_BUFFER_SIZE_PREVIEW_DATA",  "INITIALIZED">>}

LoadedPreviewEdges ==
  {<<"LOADED_PREVIEW", "START_PREVIEW",                   "PREVIEW">>,
   <<"LOADED_PREVIEW", "QUERY_BUFFER_SIZE_IMAGE_CAPTURE", "LOADED_PREVIEW">>,
   <<"LOADED_PREVIEW", "QUERY_BUFFER_SIZE_PREVIEW_DATA",  "LOADED_PREVIEW">>,
   <<"LOADED_PREVIEW", "USE_BUFFERS_PREVIEW_DATA",        "LOADED_PREVIEW">>}

PreviewEdges ==
  {<<"PREVIEW", "STOP_PREVIEW",                    "INITIALIZED">>,
   <<"PREVIEW", "PERFORM_AUTOFOCUS",               "AF">>,
   <<"PREVIEW", "START_SMOOTH_ZOOM",               "ZOOM">>,
   <<"PREVIEW", "USE_BUFFERS_IMAGE_CAPTURE",       "LOADED_CAPTURE">>,
   <<"PREVIEW", "START_VIDEO",                     "VIDEO">>,
   <<"PREVIEW", "CANCEL_AUTOFOCUS",                "PREVIEW">>,
   <<"PREVIEW", "QUERY_BUFFER_SIZE_IMAGE_CAPTURE", "PREVIEW">>,
   <<"PREVIEW", "STOP_SMOOTH_ZOOM",                "PREVIEW">>}
  \cup (IF CpCam
        THEN {<<"PREVIEW", "USE_BUFFERS_REPROCESS", "LOADED_REPROCESS">>}
        ELSE {})

LoadedReprocessEdges ==
  {<<"LOADED_REPROCESS", "USE_BUFFERS_IMAGE_CAPTURE",
                                                 "LOADED_REPROCESS_CAPTURE">>,
   <<"LOADED_REPROCESS", "QUERY_BUFFER_SIZE_IMAGE_CAPTURE",
                                                 "LOADED_REPROCESS">>,
   <<"LOADED_REPROCESS_CAPTURE", "START_IMAGE_CAPTURE", "REPROCESS">>}

ReprocessEdges ==
  {<<"REPROCESS", "STOP_IMAGE_CAPTURE",    "PREVIEW">>,
   <<"REPROCESS", "START_IMAGE_CAPTURE",   "REPROCESS">>,
   <<"REPROCESS", "USE_BUFFERS_REPROCESS", "REPROCESS">>}

CaptureEdges ==
  {<<"LOADED_CAPTURE", "START_IMAGE_CAPTURE",   "CAPTURE">>,
   <<"LOADED_CAPTURE", "START_BRACKET_CAPTURE", "BRACKETING">>,
   <<"CAPTURE", "STOP_IMAGE_CAPTURE",           "PREVIEW">>,
   <<"CAPTURE", "STOP_BRACKET_CAPTURE",         "PREVIEW">>,
   <<"CAPTURE", "START_IMAGE_CAPTURE",          "CAPTURE">>}
  \cup (IF CpCam
        THEN {<<"CAPTURE", "USE_BUFFERS_REPROCESS", "LOADED_REPROCESS">>}
        ELSE {})

BracketingEdges ==
  {<<"BRACKETING", "STOP_IMAGE_CAPTURE",    "PREVIEW">>,
   <<"BRACKETING", "STOP_BRACKET_CAPTURE",  "PREVIEW">>,
   <<"BRACKETING", "START_IMAGE_CAPTURE",   "CAPTURE">>,
   <<"BRACKETING_ZOOM", "STOP_SMOOTH_ZOOM", "BRACKETING">>}

FocusZoomEdges ==
  {<<"AF",      "CANCEL_AUTOFOCUS",  "PREVIEW">>,
   <<"AF",      "START_SMOOTH_ZOOM", "AF_ZOOM">>,
   <<"ZOOM",    "CANCEL_AUTOFOCUS",  "ZOOM">>,
   <<"ZOOM",    "STOP_SMOOTH_ZOOM",  "PREVIEW">>,
   <<"ZOOM",    "PERFORM_AUTOFOCUS", "AF_ZOOM">>,
   <<"ZOOM",    "START_VIDEO",       "VIDEO_ZOOM">>,
   <<"AF_ZOOM", "STOP_SMOOTH_ZOOM",  "AF">>,
   <<"AF_ZOOM", "CANCEL_AUTOFOCUS",  "ZOOM">>}

(* Mutant: CAMERA_STOP_VIDEO while zooming stops the zoom instead.          *)
VideoEdgesZoomStaysVideo ==
  {<<"VIDEO", "STOP_VIDEO",             "PREVIEW">>,
   <<"VIDEO", "START_SMOOTH_ZOOM",      "VIDEO_ZOOM">>,
   <<"VIDEO_ZOOM", "STOP_VIDEO",        "VIDEO">>}

VideoEdges ==
  {<<"VIDEO", "STOP_VIDEO",                         "PREVIEW">>,
   <<"VIDEO", "PERFORM_AUTOFOCUS",                  "VIDEO_AF">>,
   <<"VIDEO", "START_SMOOTH_ZOOM",                  "VIDEO_ZOOM">>,
   <<"VIDEO", "USE_BUFFERS_IMAGE_CAPTURE",          "VIDEO_LOADED_CAPTURE">>,
   <<"VIDEO", "QUERY_BUFFER_SIZE_IMAGE_CAPTURE",    "VIDEO">>,
   <<"VIDEO_AF", "CANCEL_AUTOFOCUS",                "VIDEO">>,
   <<"VIDEO_LOADED_CAPTURE", "START_IMAGE_CAPTURE", "VIDEO_CAPTURE">>,
   <<"VIDEO_CAPTURE", "STOP_IMAGE_CAPTURE",         "VIDEO">>,
   <<"VIDEO_ZOOM", "STOP_SMOOTH_ZOOM",              "VIDEO">>,
   <<"VIDEO_ZOOM", "STOP_VIDEO",                    "ZOOM">>}

Edges ==
  InitializedEdges \cup LoadedPreviewEdges \cup PreviewEdges
    \cup CaptureEdges \cup BracketingEdges \cup FocusZoomEdges \cup VideoEdges
    \cup (IF CpCam THEN LoadedReprocessEdges \cup ReprocessEdges ELSE {})

Accepts(s, c) == \E d \in States : <<s, c, d>> \in Edges

-----------------------------------------------------------------------------
(* The command rollbackToPreviousState() sends from each state, as pairs   *)
(* <<state, command>>; a state without a pair is its "Invalid Adapter      *)
(* state!" default.                                                        *)
RollbackCommands ==
  {<<"PREVIEW",         "STOP_PREVIEW">>,
   <<"CAPTURE",         "STOP_IMAGE_CAPTURE">>,
   <<"BRACKETING",      "STOP_BRACKET_CAPTURE">>,
   <<"AF",              "CANCEL_AUTOFOCUS">>,
   <<"ZOOM",            "STOP_SMOOTH_ZOOM">>,
   <<"VIDEO",           "STOP_VIDEO">>,
   <<"VIDEO_AF",        "CANCEL_AUTOFOCUS">>,
   <<"VIDEO_CAPTURE",   "STOP_IMAGE_CAPTURE">>,
   <<"AF_ZOOM",         "STOP_SMOOTH_ZOOM">>,
   <<"VIDEO_ZOOM",      "STOP_SMOOTH_ZOOM">>,
   <<"BRACKETING_ZOOM", "STOP_SMOOTH_ZOOM">>}
  \cup (IF CpCam THEN {<<"REPROCESS", "STOP_IMAGE_CAPTURE">>} ELSE {})
=============================================================================
