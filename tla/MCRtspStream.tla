---------------------------- MODULE MCRtspStream ----------------------------
(* Instances of RtspStream for TLC. *)
EXTENDS RtspStream, TLC, FiniteSets

(* CSeq numbers are only compared for equality. *)
RequestSymmetry == Permutations(Requests)

(* One packet of an unmapped channel among the mapped ones. *)
ForeignPackets == {2}

(* The runs about callers leave the media queue out of the way. *)
NoForeign == {}
=============================================================================
