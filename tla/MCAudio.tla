------------------------------- MODULE MCAudio -------------------------------
(* Two takes of a few samples; on macOS two samples come out for three.     *)
EXTENDS AudioCapture
=============================================================================
