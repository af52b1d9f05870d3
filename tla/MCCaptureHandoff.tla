-------------------------- MODULE MCCaptureHandoff --------------------------
(* Small instances of CaptureHandoff for TLC. *)
EXTENDS CaptureHandoff

=============================================================================
