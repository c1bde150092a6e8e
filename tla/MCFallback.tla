----------------------------- MODULE MCFallback -----------------------------
(* Two transcriptions that overlap, beside a background load.              *)
EXTENDS FallbackTranscriber
=============================================================================
