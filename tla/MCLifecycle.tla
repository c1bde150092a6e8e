---------------------------- MODULE MCLifecycle -----------------------------
(* Two transcriptions may overlap, beside a background load.               *)
EXTENDS TranscribeLifecycle
=============================================================================
