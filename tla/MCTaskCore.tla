----------------------------- MODULE MCTaskCore -----------------------------
(* A coroutine that waits for a predicate, runs a callable on a pool, awaits *)
(* a handle, waits for a timer and switches its scheduler.                  *)
EXTENDS TaskCore, TLC
AllKinds == <<"probe", "work", "result", "event", "post">>
Waits == <<"probe", "result", "work">>
Symmetry == Permutations(Threads)
=============================================================================
