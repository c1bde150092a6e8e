------------------------------ MODULE MCPaste -------------------------------
(* Two pastes, so that the second may overlap the first one's restore.     *)
EXTENDS PastePipeline
=============================================================================
