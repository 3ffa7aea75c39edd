------------------------- MODULE MCMediaProcessing -------------------------
(* Small instances of MediaProcessing for TLC. *)
EXTENDS MediaProcessing, TLC
============================================================================
