--------------------------- MODULE MCNalPipeline ---------------------------
(* Model-checking instance of NalPipeline. *)
EXTENDS NalPipeline

=============================================================================
