------------------------------ MODULE MCServer ------------------------------
(***************************************************************************)
(* Server with three clients for two slots.                                *)
(***************************************************************************)
EXTENDS Server

CONSTANTS c1, c2, c3

MCConns == {c1, c2, c3}

=============================================================================
