----------------------------- MODULE MCConnList -----------------------------
(***************************************************************************)
(* ConnList with three connections, any of which epoll may refuse.         *)
(***************************************************************************)
EXTENDS ConnList, TLC

CONSTANTS c1, c2, c3

MCConns == {c1, c2, c3}

=============================================================================
