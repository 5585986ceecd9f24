----------------------------- MODULE ThreadPool -----------------------------
(***************************************************************************)
(* vthreadpool.h: a pool whose restarts create independent generations of  *)
(* workers, each with its own queue.  An agent is a thread that calls the  *)
(* pool: an external caller, or a worker from inside the task it runs.     *)
(*                                                                         *)
(* _worker_lock is held across short sections, each one atomic step here,  *)
(* and by a start that fails from its first thread to its shutdown.        *)
(* A queue's _lock is held between evaluating the predicate of             *)
(* condition_variable::wait and going to sleep: that worker is "blocking", *)
(* and every operation that takes _lock needs LockFree.  jthread's         *)
(* request_stop notifies WITHOUT that lock, so it may miss such a worker.  *)
(***************************************************************************)
EXTENDS Naturals, Sequences, FiniteSets

CONSTANTS Callers,      \* external threads that use the pool
          Tasks,        \* the callables, each submitted at most once
          NumWorkers,   \* the template parameter _worker_count
          MaxGen,       \* bound: how many generations a behaviour starts
          NoTask        \* a worker between two tasks

Gens == 1 .. MaxGen
Workers == Gens \X (1 .. NumWorkers)
Agents == Callers \cup Workers

ASSUME ThreadPoolAssumption ==
    /\ NumWorkers \in Nat
    /\ MaxGen \in Nat \ {0}
    /\ Callers \cap Workers = {}
    /\ NoTask \notin Tasks
    /\ IsFiniteSet(Tasks)

VARIABLES
    generation,   \* which queue _queue points to
    hasStarted,   \* _hasStarted
    started,      \* _started
    workers,      \* _workers: the threads the pool owns
    queue,        \* [Gens -> Seq(Tasks)], ThreadPoolQueue::_queue
    shut,         \* [Gens -> BOOLEAN], ThreadPoolQueue::_shutdown
    pc,           \* [Workers -> where the thread is in its loop]
    task,         \* [Workers -> the task it runs]
    stopReq,      \* [Workers -> BOOLEAN], the worker's stop token
    call,         \* [Agents -> the pool call it is inside of]
    issued,       \* history: the tasks passed to submit or execute
    accepted,     \* history: [Gens -> the tasks push_task returned true for]
    finished      \* history: the tasks that ran to their end

poolVars == <<generation, hasStarted, started, workers>>
workerVars == <<pc, task>>
history == <<issued, accepted, finished>>
vars == <<poolVars, queue, shut, workerVars, stopReq, call, history>>

WorkerStates == {"none", "popping", "blocking", "waiting", "running", "done"}
Idle == [op |-> "idle"]
Starting == [op |-> "start"]
Pushing(g, t) == [op |-> "push", gen |-> g, task |-> t]
Stopping(g, W, L) == [op |-> "stop", gen |-> g, owned |-> W, left |-> L]

Of(g) == {w \in Workers : w[1] = g}
In(g, state) == {w \in Of(g) : pc[w] = state}
LockFree(g) == In(g, "blocking") = {}

\* Mutant: shutdown and the stop callback do not notify.
WakesNobody(g, p) == p

\* What notify_all does to the sleeping workers of generation g.
WakeAll(g, p) == [w \in Workers |->
    IF w[1] = g /\ p[w] = "waiting" THEN "popping" ELSE p[w]]

\* Mutant: push notifies only when the queue was empty.
WakesIfEmpty(g) ==
    \/ /\ In(g, "waiting") = {} \/ queue[g] # <<>>
       /\ UNCHANGED pc
    \/ \E w \in In(g, "waiting") : queue[g] = <<>> /\ pc' = [pc EXCEPT ![w] = "popping"]

\* What notify_one does: it wakes one sleeping worker, if there is one.
WakeOne(g) ==
    \/ /\ In(g, "waiting") = {}
       /\ UNCHANGED pc
    \/ \E w \in In(g, "waiting") : pc' = [pc EXCEPT ![w] = "popping"]

Init ==
    /\ generation = 1
    /\ hasStarted = FALSE
    /\ started = FALSE
    /\ workers = {}
    /\ queue = [g \in Gens |-> <<>>]
    /\ shut = [g \in Gens |-> FALSE]
    /\ pc = [w \in Workers |-> "none"]
    /\ task = [w \in Workers |-> NoTask]
    /\ stopReq = [w \in Workers |-> FALSE]
    /\ call = [a \in Agents |-> Idle]
    /\ issued = {}
    /\ accepted = [g \in Gens |-> {}]
    /\ finished = {}

\* A worker calls the pool only from inside the task it runs.
CanCall(a) == call[a] = Idle /\ (a \in Workers => pc[a] = "running")

\* Nobody is in the middle of a start that fails.
WorkerLockFree == \A a \in Agents : call[a] # Starting

-----------------------------------------------------------------------------
(* submit and execute: read _queue under _worker_lock, then push to it.    *)
(* execute drops push_task's result, which changes no state here.          *)

Submit(a, t) ==
    /\ CanCall(a) /\ WorkerLockFree
    /\ t \notin issued
    /\ issued' = issued \cup {t}
    /\ call' = [call EXCEPT ![a] = Pushing(generation, t)]
    /\ UNCHANGED <<poolVars, queue, shut, workerVars, stopReq, accepted, finished>>

\* Mutant: push_task does not look at _shutdown.
AcceptsAlways(g) == TRUE

MayAccept(g) == ~shut[g]

Accept(a) ==
    /\ call[a].op = "push"
    /\ LET g == call[a].gen
           t == call[a].task
       IN /\ LockFree(g)
          /\ MayAccept(g)
          /\ queue' = [queue EXCEPT ![g] = Append(@, t)]
          /\ accepted' = [accepted EXCEPT ![g] = @ \cup {t}]
          /\ WakeOne(g)
    /\ call' = [call EXCEPT ![a] = Idle]
    /\ UNCHANGED <<poolVars, shut, task, stopReq, issued, finished>>

Refuse(a) ==
    /\ call[a].op = "push"
    /\ LockFree(call[a].gen)
    /\ ~MayAccept(call[a].gen)
    /\ call' = [call EXCEPT ![a] = Idle]
    /\ UNCHANGED <<poolVars, queue, shut, workerVars, stopReq, history>>

-----------------------------------------------------------------------------
(* start: a running pool returns at once (a stuttering step).  A restart   *)
(* replaces the queue; the threads begin at the top of pop_task.           *)

NextGeneration == IF hasStarted THEN generation + 1 ELSE generation

MayStart(a) == CanCall(a) /\ WorkerLockFree /\ ~started /\ NextGeneration \in Gens

Spawned(k) == {w \in Of(NextGeneration) : w[2] <= k}

Creates(a, k) ==
    /\ MayStart(a)
    /\ generation' = NextGeneration
    /\ hasStarted' = TRUE
    /\ started' = TRUE
    /\ workers' = workers \cup Spawned(k)
    /\ pc' = [w \in Workers |-> IF w \in Spawned(k) THEN "popping" ELSE pc[w]]
    /\ UNCHANGED <<queue, shut, task, stopReq, history>>

Start(a) == Creates(a, NumWorkers) /\ UNCHANGED call

\* Creating a thread throws after k of them, which run while the caller, still
\* under _worker_lock, is on its way to the handler.
StartFails(a, k) == Creates(a, k) /\ call' = [call EXCEPT ![a] = Starting]

-----------------------------------------------------------------------------
(* stop: shuts the queue and takes the threads in one section, then asks   *)
(* each thread to stop, then joins them, or detaches them when the caller  *)
(* is a worker of any generation of this pool.  A start that failed does   *)
(* the same with the threads it has.                                       *)

Shuts(a) ==
    /\ LockFree(generation)
    /\ started' = FALSE
    /\ shut' = [shut EXCEPT ![generation] = TRUE]
    /\ pc' = WakeAll(generation, pc)
    /\ workers' = {}
    /\ call' = [call EXCEPT ![a] = Stopping(generation, workers, workers)]
    /\ UNCHANGED <<generation, hasStarted, queue, task, stopReq, history>>

Stop(a) == CanCall(a) /\ WorkerLockFree /\ started /\ Shuts(a)

\* The handler of start's exception.
StartCatches(a) == call[a].op = "start" /\ Shuts(a)

\* request_stop runs the worker's stop_callback, if the worker is inside wait.
RequestStop(a) ==
    /\ call[a].op = "stop"
    /\ \E w \in call[a].left :
          /\ \A v \in call[a].left : w[2] <= v[2]
          /\ stopReq' = [stopReq EXCEPT ![w] = TRUE]
          /\ pc' = IF pc[w] \in {"blocking", "waiting"} THEN WakeAll(w[1], pc) ELSE pc
          /\ call' = [call EXCEPT ![a] = Stopping(@.gen, @.owned, @.left \ {w})]
    /\ UNCHANGED <<poolVars, queue, shut, task, history>>

\* Mutants: stop returns without joining; every caller joins.
JoinsNone(a) == TRUE
NeverDetaches(a) == FALSE

Joined(a) == \A w \in call[a].owned : pc[w] = "done"
Detaches(a) == a \in Workers

StopReturns(a) ==
    /\ call[a].op = "stop"
    /\ call[a].left = {}
    /\ Detaches(a) \/ Joined(a)
    /\ call' = [call EXCEPT ![a] = Idle]
    /\ UNCHANGED <<poolVars, queue, shut, workerVars, stopReq, history>>

-----------------------------------------------------------------------------
(* The worker loop: pop_task, run the task, drop it.                       *)

\* Mutant: the predicate of wait relies on the stop token alone.
WaitsForToken(w) == ~stopReq[w]

\* What pop_task waits on when the queue is empty.
MustWait(w) == ~shut[w[1]] /\ ~stopReq[w]

\* Mutant: pop_task gives up as soon as it is told to, with tasks still queued.
LeavesTasks(w) == ~MustWait(w)

MayExit(w) == queue[w[1]] = <<>> /\ ~MustWait(w)

\* Mutant: the loop keeps the finished task until it pops another.
KeepsTask(w) == task

Dropped(w) == [task EXCEPT ![w] = NoTask]

Take(w) ==
    /\ pc[w] = "popping"
    /\ LockFree(w[1])
    /\ queue[w[1]] # <<>>
    /\ task' = [task EXCEPT ![w] = Head(queue[w[1]])]
    /\ queue' = [queue EXCEPT ![w[1]] = Tail(@)]
    /\ pc' = [pc EXCEPT ![w] = "running"]
    /\ UNCHANGED <<poolVars, shut, stopReq, call, history>>

Block(w) ==
    /\ pc[w] = "popping"
    /\ LockFree(w[1])
    /\ queue[w[1]] = <<>>
    /\ MustWait(w)
    /\ pc' = [pc EXCEPT ![w] = "blocking"]
    /\ UNCHANGED <<poolVars, queue, shut, task, stopReq, call, history>>

Exit(w) ==
    /\ pc[w] = "popping"
    /\ LockFree(w[1])
    /\ MayExit(w)
    /\ pc' = [pc EXCEPT ![w] = "done"]
    /\ UNCHANGED <<poolVars, queue, shut, task, stopReq, call, history>>

Sleep(w) ==
    /\ pc[w] = "blocking"
    /\ pc' = [pc EXCEPT ![w] = "waiting"]
    /\ UNCHANGED <<poolVars, queue, shut, task, stopReq, call, history>>

SpuriousWake(w) ==
    /\ pc[w] = "waiting"
    /\ pc' = [pc EXCEPT ![w] = "popping"]
    /\ UNCHANGED <<poolVars, queue, shut, task, stopReq, call, history>>

\* The task returned or threw (the loop swallows it); its captures are dropped.
Finish(w) ==
    /\ pc[w] = "running"
    /\ call[w] = Idle
    /\ finished' = finished \cup {task[w]}
    /\ task' = Dropped(w)
    /\ pc' = [pc EXCEPT ![w] = "popping"]
    /\ UNCHANGED <<poolVars, queue, shut, stopReq, call, issued, accepted>>

-----------------------------------------------------------------------------
Pushes(a) == Accept(a) \/ Refuse(a)
Pops(w) == Take(w) \/ Block(w) \/ Exit(w)

CallerNext(a) ==
    \/ \E t \in Tasks : Submit(a, t)
    \/ Pushes(a)
    \/ Start(a)
    \/ \E k \in 0 .. NumWorkers - 1 : StartFails(a, k)
    \/ Stop(a) \/ StartCatches(a)
    \/ RequestStop(a)
    \/ StopReturns(a)

WorkerNext(w) == Pops(w) \/ Sleep(w) \/ SpuriousWake(w) \/ Finish(w)

Next == (\E a \in Agents : CallerNext(a)) \/ (\E w \in Workers : WorkerNext(w))

\* Threads that can run do; a thread waiting for _lock gets it (strong, since
\* spurious wake-ups of its peers may take the lock over and over); a task ends.
\* Nobody has to call the pool, and no wake-up comes without a notification.
Fairness ==
    /\ \A a \in Agents : SF_vars(Pushes(a) \/ StartCatches(a)) /\ WF_vars(RequestStop(a)) /\ WF_vars(StopReturns(a))
    /\ \A w \in Workers : SF_vars(Pops(w)) /\ WF_vars(Sleep(w)) /\ WF_vars(Finish(w))

Safe == Init /\ [][Next]_vars
Spec == Safe /\ Fairness

-----------------------------------------------------------------------------
(* Properties.                                                             *)

CallTypeOK == \A a \in Agents :
    \/ call[a] = Idle \/ call[a] = Starting
    \/ \E g \in Gens, t \in Tasks : call[a] = Pushing(g, t)
    \/ \E g \in Gens, W \in SUBSET Workers : \E L \in SUBSET W : call[a] = Stopping(g, W, L)

\* Every variable keeps the type of the member it stands for; a worker holds a
\* task, and what the task captured, only while it runs it (line 120).
TypeOK ==
    /\ generation \in Gens
    /\ hasStarted \in BOOLEAN /\ started \in BOOLEAN
    /\ workers \in SUBSET Workers
    /\ queue \in [Gens -> Seq(Tasks)]
    /\ shut \in [Gens -> BOOLEAN]
    /\ pc \in [Workers -> WorkerStates]
    /\ task \in [Workers -> Tasks \cup {NoTask}]
    /\ \A w \in Workers : task[w] \in Tasks <=> pc[w] = "running"
    /\ stopReq \in [Workers -> BOOLEAN]
    /\ DOMAIN call = Agents /\ CallTypeOK
    /\ issued \in SUBSET Tasks
    /\ accepted \in [Gens -> SUBSET Tasks]
    /\ finished \in SUBSET Tasks

\* No worker sleeps, or is about to, in a generation that was shut: although
\* request_stop notifies without the lock, the shutdown that precedes it does
\* not, so no worker misses the end of its generation (lines 75-95).
NoStrandedWaiter == \A w \in Workers :
    pc[w] \in {"blocking", "waiting"} => ~shut[w[1]]

\* One notify_one per push is enough: while a worker of a generation sleeps,
\* at least as many of its peers are on their way to the queue as there are
\* tasks in it, whatever the order of pushes, pops and spurious wake-ups.
NoLostWakeup == \A g \in Gens :
    In(g, "waiting") # {} => Len(queue[g]) <= Cardinality(In(g, "popping"))

\* A worker leaves only a generation that accepts nothing more and has nothing
\* queued: no task accepted before the shutdown is left behind (lines 81-84).
DrainedBeforeExit == \A w \in Workers :
    pc[w] = "done" => shut[w[1]] /\ queue[w[1]] = <<>>

\* README: "An external thread_pool::stop() waits for the currently active
\* generation's queued work and workers to finish": when it returns, every task
\* that generation ever accepted has finished and it accepts no other.
StopDrains == [][\A c \in Callers :
    (call[c].op = "stop" /\ call[c].owned # {} /\ call'[c] = Idle) =>
        /\ accepted[call[c].gen] \subseteq finished
        /\ shut[call[c].gen]]_vars

\* The next three say that what a behaviour owes is paid in the end.  An accepted
\* task stays accepted and a shut generation shut, and the calls are bounded, so
\* "eventually always" says the same as a leads-to for each task and generation.

\* A task accepted by a generation that has a worker is run to its end, across
\* stops, restarts and calls from inside tasks.
AcceptedTasksFinish == <>[](\A g \in Gens :
    (\E w \in Of(g) : pc[w] # "none") => accepted[g] \subseteq finished)

\* The workers of a generation that was shut all end, even when a worker of it
\* stopped the pool and was detached.
GenerationRetires == <>[](\A w \in Workers :
    shut[w[1]] => pc[w] \in {"none", "done"})

\* A stop returns, and a start that failed: no worker joins itself or a peer that
\* waits for it.
StopsReturn == <>[](\A a \in Agents : call[a].op \notin {"start", "stop"})
=============================================================================
