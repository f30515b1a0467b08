------------------------- MODULE MCCaptureRecorder -------------------------
(***************************************************************************)
(* CaptureRecorder for TLC.  The .cfg files name the bounds.               *)
(***************************************************************************)
EXTENDS CaptureRecorder

=============================================================================
