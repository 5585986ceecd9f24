---------------------------- MODULE MCTaskGroup ----------------------------
(* A task that awaits another, and a third.  Each root may be spawned in   *)
(* the group or elsewhere.                                                 *)
EXTENDS TaskGroup
Family == <<0, 1, 0>>
=============================================================================
