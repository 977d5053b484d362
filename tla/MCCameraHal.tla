---------------------------- MODULE MCCameraHal ----------------------------
(* CameraHal under a camera service that makes every call, in any order.     *)
EXTENDS CameraHal

AllServices ==
  {"startPreview", "stopPreview", "setPreviewWindow NULL", "setPreviewWindow",
   "setParameters", "setParameters restart", "takePicture", "cancelPicture", "autoFocus",
   "cancelAutoFocus", "startRecording", "stopRecording", "setBufferSource", "reprocess",
   "sendCommand",
   "release"}
=============================================================================
