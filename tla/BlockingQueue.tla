--------------------------- MODULE BlockingQueue ---------------------------
(***************************************************************************)
(* vutil.h's blocking_queue: push, pop with a stop token, shutdown, reset. *)
(* The mutex is held from evaluating the predicate of wait to falling      *)
(* asleep; the callback of the stop token notifies without it.             *)
(***************************************************************************)
EXTENDS Naturals, Sequences, FiniteSets

CONSTANTS Poppers,     \* threads that pop, each with a stop token
          MaxPushes, MaxShutdowns, MaxThrows   \* bounds: calls, and copies of a T that throw

ASSUME QueueAssumption ==
    /\ IsFiniteSet(Poppers) /\ {MaxPushes, MaxShutdowns, MaxThrows} \subseteq Nat

VARIABLES
    d_queue, d_shutdown,
    pc,         \* "out" of pop, "blocking": about to sleep, with the mutex, "waiting", or "woken"
    token,      \* of each popper's source: "on", "stopping": set, its callbacks to be run, or "off"
    pushes, shutdowns, throws   \* history

queue == <<d_queue, d_shutdown>>
history == <<pushes, shutdowns, throws>>
vars == <<queue, pc, token, history>>

Init ==
    /\ d_queue = <<>> /\ d_shutdown = FALSE
    /\ pc = [p \in Poppers |-> "out"] /\ token = [p \in Poppers |-> "on"]
    /\ pushes = 0 /\ shutdowns = 0 /\ throws = 0

At(at) == {p \in Poppers : pc[p] = at}
LockFree == At("blocking") = {}
WakeAll == [p \in Poppers |-> IF pc[p] = "waiting" THEN "woken" ELSE pc[p]]

\* Mutant: push notifies only if the queue was empty.
WakesIfEmpty == IF d_queue = <<>> /\ At("waiting") # {}
                THEN {[pc EXCEPT ![p] = "woken"] : p \in At("waiting")} ELSE {pc}

WakeOne == IF At("waiting") = {} THEN {pc} ELSE {[pc EXCEPT ![p] = "woken"] : p \in At("waiting")}

\* A queue that was shut drops what is pushed.
Push ==
    /\ LockFree /\ pushes < MaxPushes
    /\ pushes' = pushes + 1
    /\ \/ d_shutdown /\ UNCHANGED <<d_queue, pc>>
       \/ ~d_shutdown /\ d_queue' = Append(d_queue, pushes + 1) /\ pc' \in WakeOne
    /\ UNCHANGED <<d_shutdown, token, shutdowns, throws>>

\* Mutant: the predicate of wait does not look at the shutdown.
WaitsForItem(p) == d_queue # <<>> \/ token[p] # "on"

Ready(p) == d_queue # <<>> \/ d_shutdown \/ token[p] # "on"

\* A stop_callback that is made when the stop was requested runs at once.
Told(p) == IF pc[p] = "out" /\ token[p] # "on" THEN WakeAll ELSE pc

\* pop begins, or comes back from the wait, and takes the mutex.  An item that is
\* there is taken, stopped or not; copying it may throw, before it is removed.
Pop(p) ==
    /\ pc[p] \in {"out", "woken"} /\ LockFree
    /\ \/ ~Ready(p) /\ pc' = [pc EXCEPT ![p] = "blocking"] /\ UNCHANGED <<d_queue, throws>>
       \/ /\ Ready(p)
          /\ pc' = [Told(p) EXCEPT ![p] = "out"]
          /\ \/ d_queue = <<>> /\ UNCHANGED <<d_queue, throws>>
             \/ d_queue # <<>> /\ d_queue' = Tail(d_queue) /\ UNCHANGED throws
             \/ d_queue # <<>> /\ throws < MaxThrows /\ throws' = throws + 1 /\ UNCHANGED d_queue
    /\ UNCHANGED <<d_shutdown, token, pushes, shutdowns>>

Sleep(p) == pc[p] = "blocking" /\ pc' = [pc EXCEPT ![p] = "waiting"] /\ UNCHANGED <<queue, token, history>>
WakesSpuriously(p) == pc[p] = "waiting" /\ pc' = [pc EXCEPT ![p] = "woken"] /\ UNCHANGED <<queue, token, history>>

Shutdown ==
    /\ LockFree /\ shutdowns < MaxShutdowns
    /\ shutdowns' = shutdowns + 1
    /\ d_shutdown' = TRUE /\ pc' = WakeAll
    /\ UNCHANGED <<d_queue, token, pushes, throws>>

Reset ==
    /\ LockFree /\ d_shutdown
    /\ d_shutdown' = FALSE
    /\ UNCHANGED <<d_queue, pc, token, history>>

\* request_stop of a popper's source, and then its callback, if pop has one
\* registered: neither takes the queue's mutex.
RequestStop(p) ==
    /\ token[p] = "on"
    /\ token' = [token EXCEPT ![p] = "stopping"]
    /\ UNCHANGED <<queue, pc, history>>

RunCallback(p) ==
    /\ token[p] = "stopping"
    /\ token' = [token EXCEPT ![p] = "off"]
    /\ pc' = IF pc[p] = "out" THEN pc ELSE WakeAll
    /\ UNCHANGED <<queue, history>>

Next ==
    \/ Push \/ Shutdown \/ Reset
    \/ \E p \in Poppers : Pop(p) \/ Sleep(p) \/ WakesSpuriously(p) \/ RequestStop(p) \/ RunCallback(p)

\* The mutex is taken in the end although others take it again and again, and who is
\* about to sleep does.  Spurious wake-ups are never needed.
Fairness == \A p \in Poppers :
    /\ SF_vars(pc[p] = "woken" /\ Pop(p)) /\ WF_vars(Sleep(p)) /\ WF_vars(RunCallback(p))

Spec == Init /\ [][Next]_vars /\ Fairness

-----------------------------------------------------------------------------
\* One notify_one per push is enough although poppers come and go, wake spuriously, are
\* stopped and go back to sleep: while one sleeps, as many are awake as there are items.
\* Each copy that throws may waste a wake-up: its item stays, and nobody is told again.
WakeupsSuffice == At("waiting") # {} => Len(d_queue) <= Cardinality(At("woken")) + throws

\* Who is inside pop when the queue is shut leaves it, unless it is reset before that:
\* then it may go back to sleep, as a queue in use has nothing for it.
ShutdownReleases == \A p \in Poppers : (d_shutdown /\ pc[p] # "out") ~> (pc[p] = "out" \/ ~d_shutdown)
=============================================================================
