----------------------------- MODULE MCPlayback -----------------------------
(* The instance of Playback for TLC: its constants are numbers. *)
EXTENDS Playback
=============================================================================
