--------------------------- MODULE MCLocalUpload ---------------------------
(* Instances of LocalUpload for TLC: one channel, in each of its modes.    *)
EXTENDS LocalUpload

UploadModes  == {{}, {"live"}, {"session"}}
IntervalMode == {{}}
=============================================================================
