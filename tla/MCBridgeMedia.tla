--------------------------- MODULE MCBridgeMedia ---------------------------
(* A bounded instance of BridgeMedia.tla. *)
EXTENDS BridgeMedia, TLC
CONSTANTS f1, f2, f3, video, audio
Incoming == Permutations({f2, f3})
MCJumps == {3, -1}
=============================================================================
