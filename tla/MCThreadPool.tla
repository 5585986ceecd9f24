---------------------------- MODULE MCThreadPool ----------------------------
(* ThreadPool on a small instance, and the executor it implements.          *)
EXTENDS ThreadPool

\* The tasks that the workers of generation g hold.
Running(g) == {task[w] : w \in {v \in Of(g) : task[v] # NoTask}}

Pool == INSTANCE Executor WITH
    Width <- NumWorkers,
    pending <- queue,
    running <- [g \in Gens |-> Running(g)],
    closed <- shut

\* The pool implements the executor: each task accepted begins once, in order,
\* in the generation that accepted it, on at most NumWorkers threads, and no
\* generation accepts a task unless all the earlier ones were shut.
ImplementsExecutor == Pool!Spec
=============================================================================
