------------------------------- MODULE MCOrm -------------------------------
(***************************************************************************)
(* Orm with two sessions that may get at each other's rows.                *)
(***************************************************************************)
EXTENDS Orm

CONSTANTS s1, s2

MCSessions == {s1, s2}

=============================================================================
