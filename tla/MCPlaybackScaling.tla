------------------------- MODULE MCPlaybackScaling -------------------------
(* PlaybackScaling, for the model checker. *)
EXTENDS PlaybackScaling
=============================================================================
