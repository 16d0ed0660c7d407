------------------------------ MODULE CallTable ------------------------------
(***************************************************************************)
(* What the RTSP stream promises the threads that call it: a request is    *)
(* opened at most once and only on a stream that has not failed; an open   *)
(* request is answered, given up by its caller, or failed; a failure       *)
(* settles every open request in one step, and nothing is answered or      *)
(* opened after it.                                                        *)
(***************************************************************************)
CONSTANT Requests

VARIABLES status, failed

Statuses == {"idle", "open", "answered", "abandoned", "failed", "refused"}

Init ==
  /\ status = [c \in Requests |-> "idle"]
  /\ failed = FALSE

Become(c, s) == status' = [status EXCEPT ![c] = s]

Open(c) ==
  /\ status[c] = "idle" /\ ~failed
  /\ Become(c, "open")
  /\ UNCHANGED failed

Refuse(c) ==
  /\ status[c] = "idle" /\ failed
  /\ Become(c, "refused")
  /\ UNCHANGED failed

Answer(c) ==
  /\ status[c] = "open" /\ ~failed
  /\ Become(c, "answered")
  /\ UNCHANGED failed

GiveUp(c) ==
  /\ status[c] = "open"
  /\ Become(c, "abandoned")
  /\ UNCHANGED failed

Fail ==
  /\ ~failed
  /\ failed' = TRUE
  /\ status' = [c \in Requests |-> IF status[c] = "open" THEN "failed" ELSE status[c]]

Next ==
  \/ \E c \in Requests : Open(c) \/ Refuse(c) \/ Answer(c) \/ GiveUp(c)
  \/ Fail

Spec == Init /\ [][Next]_<<status, failed>>
=============================================================================
