--------------------------- MODULE MCEventPipeline ---------------------------
(* EventPipeline for TLC. *)
EXTENDS EventPipeline
==============================================================================
