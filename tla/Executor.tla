------------------------------ MODULE Executor ------------------------------
(***************************************************************************)
(* What a thread pool promises, whatever its threads do: tasks accepted by *)
(* a generation begin in the order of acceptance, each once, no more than  *)
(* Width at a time; a generation accepts only while it is open and all     *)
(* earlier ones are closed; and a closed one never reopens.  How a worker  *)
(* sleeps and wakes, and how a pool is stopped, are not visible here.      *)
(***************************************************************************)
EXTENDS Naturals, Sequences, FiniteSets

CONSTANTS Tasks,    \* the callables
          Gens,     \* the generations
          Width     \* how many tasks of a generation run at a time

VARIABLES
    issued,     \* the tasks handed to the pool
    pending,    \* [Gens -> Seq(Tasks)], accepted and not begun
    running,    \* [Gens -> SUBSET Tasks], begun and not finished
    finished,   \* the tasks that ended
    closed      \* [Gens -> BOOLEAN], accepts nothing more

evars == <<issued, pending, running, finished, closed>>

Init ==
    /\ issued = {}
    /\ pending = [g \in Gens |-> <<>>]
    /\ running = [g \in Gens |-> {}]
    /\ finished = {}
    /\ closed = [g \in Gens |-> FALSE]

Begun == finished \cup UNION {running[g] : g \in Gens}
Queued == UNION {{pending[g][i] : i \in 1 .. Len(pending[g])} : g \in Gens}

Issue(t) ==
    /\ t \notin issued
    /\ issued' = issued \cup {t}
    /\ UNCHANGED <<pending, running, finished, closed>>

Accept(g, t) ==
    /\ ~closed[g]
    /\ \A h \in Gens : h < g => closed[h]
    /\ t \in issued \ (Begun \cup Queued)
    /\ pending' = [pending EXCEPT ![g] = Append(@, t)]
    /\ UNCHANGED <<issued, running, finished, closed>>

Begin(g) ==
    /\ pending[g] # <<>>
    /\ Cardinality(running[g]) < Width
    /\ Head(pending[g]) \notin Begun
    /\ pending' = [pending EXCEPT ![g] = Tail(@)]
    /\ running' = [running EXCEPT ![g] = @ \cup {Head(pending[g])}]
    /\ UNCHANGED <<issued, finished, closed>>

Finish(g, t) ==
    /\ t \in running[g]
    /\ running' = [running EXCEPT ![g] = @ \ {t}]
    /\ finished' = finished \cup {t}
    /\ UNCHANGED <<issued, pending, closed>>

Close(g) ==
    /\ ~closed[g]
    /\ closed' = [closed EXCEPT ![g] = TRUE]
    /\ UNCHANGED <<issued, pending, running, finished>>

Next ==
    \/ \E t \in Tasks : Issue(t)
    \/ \E g \in Gens, t \in Tasks : Accept(g, t) \/ Finish(g, t)
    \/ \E g \in Gens : Begin(g) \/ Close(g)

Spec == Init /\ [][Next]_evars
=============================================================================
