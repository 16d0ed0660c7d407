-------------------------- MODULE MCRtspConnection --------------------------
(* The instance of RtspConnection for TLC: its constants are numbers. *)
EXTENDS RtspConnection
=============================================================================
