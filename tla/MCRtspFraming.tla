---------------------------- MODULE MCRtspFraming ----------------------------
(* Instances of RtspFraming for TLC. *)
EXTENDS RtspFraming

Messages ==
  {Message("frame", n) : n \in 0..2} \cup {Message("response", n) : n \in {0, 2}}
    \cup {Message("junk", 0)}

(* Every wire of up to three messages. *)
ShortWires == UNION {[1..n -> Messages] : n \in 1..3}

(* Wires without junk, for the statements about well-formed data. *)
CleanWires ==
  UNION {[1..n -> {m \in Messages : m.kind # "junk"}] : n \in 1..2}
=============================================================================
