--------------------------- MODULE MCRpcConnection ---------------------------
(* An instance of RpcConnection for TLC. *)
EXTENDS RpcConnection

CONSTANTS a, b

Upto(n, S) == UNION {[1..m -> S] : m \in 0..n}

(* One client alone, with every sequence of up to three operations, or two *)
(* clients one of which ends the session.                                  *)
TwoClients == {a, b}
Alone == Upto(3, {"call", "login", "get", "logout", "close"})
Ending == {<<"call", "logout">>, <<"login", "close">>, <<"call", "stop", "close">>}
Beside == {<<"call">>, <<"get", "call">>, <<"logout", "call">>}

Both ==
  {[c \in TwoClients |-> IF c = a THEN p ELSE <<>>] : p \in Alone}
  \cup {[c \in TwoClients |-> IF c = a THEN p ELSE q] : p \in Ending, q \in Beside}
=============================================================================
