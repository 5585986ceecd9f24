----------------------------- MODULE TaskGroup -----------------------------
(***************************************************************************)
(* vtask.h: a task_group, the tasks it owns, tasks they await (which have  *)
(* a parent) and tasks spawned elsewhere.  Execution nests on a thread: a  *)
(* task that spawns runs the new one inline, and a stop may resume one     *)
(* inline.  Each thread has a stack of the calls it is inside of, the      *)
(* innermost first.  How one coroutine suspends and is resumed once is     *)
(* TaskCore's matter: here a suspended task is resumed by an event, by a   *)
(* stop, or by the end of the task it awaits.                              *)
(***************************************************************************)
EXTENDS Naturals, Sequences, FiniteSets

CONSTANTS Callers,    \* threads that use the group and may block
          Loops,      \* threads of event loops and pools, which resume tasks
          Parent,     \* the task that awaits each task, or 0 for one that is spawned
          MaxStops,   \* bound: calls of requestStop
          MaxJoins    \* bound: calls of join

Threads == Callers \cup Loops
Tasks == DOMAIN Parent
Roots == {x \in Tasks : Parent[x] = 0}

ASSUME TaskGroupAssumption ==
    /\ Callers \cap Loops = {}
    /\ \A x \in Tasks : x \in Nat \ {0} /\ Parent[x] \in {0} \cup {y \in Tasks : y < x}
    /\ {MaxStops, MaxJoins} \subseteq Nat

VARIABLES
    stopping, tasks,   \* of the group
    phase,      \* [Tasks -> how far it is]
    told,       \* [Tasks -> BOOLEAN], cancellationRequested, and settled as cancelled
    tokenStop,  \* [Tasks -> BOOLEAN], its stop token
    child,      \* [Tasks -> the task it awaits, or 0]
    pending,    \* tasks resumed while they were still in await_suspend
    hook,       \* [Tasks -> the stop_callback while it awaits: "off", "on", or who runs it]
    owned,      \* history: tasks that were in the group
    stops, joins,
    stack

group == <<stopping, tasks, owned>>
execution == <<phase, child, pending, hook>>
cancellation == <<told, tokenStop>>
counts == <<stops, joins>>
vars == <<group, execution, cancellation, counts, stack>>

Call(op, x, left) == [op |-> op, task |-> x, left |-> left]
At(op, x) == Call(op, x, {})
Idle(t) == stack[t] = <<>>
In(t, op) == stack[t] # <<>> /\ Head(stack[t]).op = op
Task(t) == Head(stack[t]).task
Left(t) == Head(stack[t]).left
Enter(t, call) == stack' = [stack EXCEPT ![t] = <<call>> \o @]
Become(t, calls) == stack' = [stack EXCEPT ![t] = calls \o Tail(@)]
Return(t) == Become(t, <<>>)

Completed(x) == phase[x] = "completed"
Moves(x, to) == phase' = [phase EXCEPT ![x] = to]

\* The calls with an execution_scope of their task.
Scoped == {"body", "start", "leave", "wake", "destroy", "callable"}

\* The task and what awaits it: state_base::parentTask, followed to the root.
line[x \in Tasks] == {x} \cup (IF Parent[x] = 0 THEN {} ELSE line[Parent[x]])

\* Mutant: only the innermost execution counts.
OwnsTop(t, x) == stack[t] # <<>> /\ Head(stack[t]).op \in Scoped /\ x \in line[Head(stack[t]).task]

OwnsCurrentExecution(t, x) ==
    \E d \in DOMAIN stack[t] : stack[t][d].op \in Scoped /\ x \in line[stack[t][d].task]

Init ==
    /\ stopping = FALSE /\ tasks = {} /\ owned = {}
    /\ phase = [x \in Tasks |-> "lazy"]
    /\ told = [x \in Tasks |-> FALSE] /\ tokenStop = [x \in Tasks |-> FALSE]
    /\ child = [x \in Tasks |-> 0] /\ pending = {}
    /\ hook = [x \in Tasks |-> "off"]
    /\ stops = 0 /\ joins = 0
    /\ stack = [t \in Threads |-> <<>>]

\* Where the application calls the group: its threads, bodies and callables.
UserCode(t) == (Idle(t) /\ t \in Callers) \/ In(t, "body") \/ In(t, "callable")

-----------------------------------------------------------------------------
(* The group.                                                              *)

\* Mutant: what is cancelled is taken for finished.
ErasesCancelled == {x \in tasks : ~told[x]}

Kept == {x \in tasks : ~Completed(x)}

\* spawn registers the task under the lock, and then runs it up to its first
\* suspension; a group that is stopping throws and the task goes with its frame.  The
\* application may also spawn it in another group, which is not modelled.
Spawn(t, x) ==
    /\ UserCode(t) /\ x \in Roots /\ phase[x] = "lazy"
    /\ \/ /\ Moves(x, "spawned") /\ Enter(t, At("resume", x))
          /\ UNCHANGED group
       \/ /\ ~stopping
          /\ tasks' = Kept \cup {x} /\ owned' = owned \cup {x}
          /\ Moves(x, "spawned") /\ Enter(t, At("resume", x))
          /\ UNCHANGED stopping
       \/ /\ stopping
          /\ Moves(x, "discarded")
          /\ UNCHANGED <<group, stack>>
    /\ UNCHANGED <<child, pending, hook, cancellation, counts>>

\* requestStop, and the group's destructor: a snapshot, and then each of it.
RequestStop(t) ==
    /\ UserCode(t) /\ stops < MaxStops
    /\ stops' = stops + 1
    /\ stopping' = TRUE
    /\ Enter(t, Call("stopEach", 0, tasks))
    /\ UNCHANGED <<tasks, owned, execution, cancellation, joins>>

StopEach(t) ==
    /\ In(t, "stopEach")
    /\ \/ /\ Left(t) = {}
          /\ Return(t)
       \/ \E x \in Left(t) :
            /\ \A y \in Left(t) : x <= y
            /\ LET rest == Call("stopEach", 0, Left(t) \ {x}) IN
               Become(t, IF Completed(x) THEN <<rest>> ELSE <<At("cancel", x), rest>>)
    /\ UNCHANGED <<group, execution, cancellation, counts>>

\* join refuses to wait inside an execution of a task of its snapshot.  The
\* guidelines forbid to block a loop's thread; inside a task of the group join
\* may be called on any thread.
Inside(t) == \E d \in DOMAIN stack[t], x \in owned : stack[t][d].op \in Scoped /\ x \in line[stack[t][d].task]

Join(t) ==
    /\ UserCode(t) /\ joins < MaxJoins /\ (t \in Loops => Inside(t))
    /\ joins' = joins + 1
    /\ IF \E x \in tasks : OwnsCurrentExecution(t, x)
       THEN UNCHANGED stack
       ELSE Enter(t, Call("joining", 0, tasks))
    /\ UNCHANGED <<group, execution, cancellation, stops>>

JoinReturns(t) ==
    /\ In(t, "joining") /\ \A x \in Left(t) : Completed(x)
    /\ Return(t)
    /\ UNCHANGED <<group, execution, cancellation, counts>>

-----------------------------------------------------------------------------
(* One task: resumed, suspended, done.                                     *)

\* The frame is destroyed inside the scope, and only then is the task complete.
Finish(x) == <<At("destroy", x), At("complete", x)>>

\* The first resume; a task that was stopped before skips its body.
Resume(t) ==
    /\ In(t, "resume")
    /\ Moves(Task(t), "running")
    /\ Become(t, IF told[Task(t)] THEN Finish(Task(t)) ELSE <<At("body", Task(t))>>)
    /\ UNCHANGED <<group, child, pending, hook, cancellation, counts>>

\* A token that is stopped already cancels the suspension as it begins: the task
\* goes on here, which is no step, or through a queue.
Suspend(t) ==
    /\ In(t, "body")
    /\ Moves(Task(t), IF tokenStop[Task(t)] THEN "queued" ELSE "suspended")
    /\ Return(t)
    /\ UNCHANGED <<group, child, pending, hook, cancellation, counts>>

\* Where a task goes on: after a plain await, or after the task it awaits.
GoOn(x) == At(IF child[x] = 0 THEN "body" ELSE "wake", x)

\* An event resumes a suspended task; a callable runs for it on a worker, with an
\* execution_scope of the task.
Wake(t, x) ==
    /\ t \in Loops /\ Idle(t) /\ phase[x] = "suspended"
    /\ Moves(x, "running") /\ Enter(t, GoOn(x))
    /\ UNCHANGED <<group, child, pending, hook, cancellation, counts>>

Work(t, x) ==
    /\ t \in Loops /\ Idle(t) /\ phase[x] = "suspended" /\ ~told[x]
    /\ Moves(x, "working") /\ Enter(t, At("callable", x))
    /\ UNCHANGED <<group, child, pending, hook, cancellation, counts>>

\* A ticket resumes its task here, or waits in a queue.
Dispatched(t, x) ==
    \/ Moves(x, "running") /\ Become(t, <<GoOn(x)>>)
    \/ Moves(x, "queued") /\ Return(t)

CallableEnds(t) ==
    /\ In(t, "callable")
    /\ Dispatched(t, Task(t))
    /\ UNCHANGED <<group, child, pending, hook, cancellation, counts>>

Deliver(t, x) ==
    /\ t \in Loops /\ Idle(t) /\ phase[x] = "queued"
    /\ Moves(x, "running") /\ Enter(t, GoOn(x))
    /\ UNCHANGED <<group, child, pending, hook, cancellation, counts>>

End(t) ==
    /\ In(t, "body")
    /\ Become(t, Finish(Task(t)))
    /\ UNCHANGED <<group, execution, cancellation, counts>>

Destroy(t) ==
    /\ In(t, "destroy")
    /\ Return(t)
    /\ UNCHANGED <<group, execution, cancellation, counts>>

Complete(t) ==
    /\ In(t, "complete")
    /\ Moves(Task(t), "completed")
    /\ Become(t, IF Parent[Task(t)] = 0 THEN <<>> ELSE <<At("notify", Parent[Task(t)])>>)
    /\ UNCHANGED <<group, child, pending, hook, cancellation, counts>>

-----------------------------------------------------------------------------
(* Awaiting a task: task::awaiter.                                         *)

\* The stop_callback, which stops the child at once if the token is stopped.
AwaitChild(t, y) ==
    /\ In(t, "body") /\ Parent[y] = Task(t) /\ phase[y] = "lazy"
    /\ LET x == Task(t) IN
       /\ child' = [child EXCEPT ![x] = y]
       /\ Moves(y, "spawned")
       /\ IF tokenStop[x]
          THEN Become(t, <<At("cancel", y), At("start", x)>>) /\ UNCHANGED hook
          ELSE Become(t, <<At("start", x)>>) /\ hook' = [hook EXCEPT ![x] = "on"]
    /\ UNCHANGED <<group, pending, cancellation, counts>>

Start(t) ==
    /\ In(t, "start")
    /\ Become(t, <<At("resume", child[Task(t)]), At("leave", Task(t))>>)
    /\ UNCHANGED <<group, execution, cancellation, counts>>

\* await_suspend returned; the child may have ended meanwhile.
Leave(t) ==
    /\ In(t, "leave")
    /\ LET x == Task(t) IN
       /\ pending' = pending \ {x}
       /\ IF x \in pending
          THEN Become(t, <<At("wake", x)>>) /\ UNCHANGED phase
          ELSE Return(t) /\ Moves(x, "awaiting")
    /\ UNCHANGED <<group, child, hook, cancellation, counts>>

\* The end of the child resumes its parent, which no stop can resume before.
Notify(t) ==
    /\ In(t, "notify")
    /\ LET x == Task(t) IN
       \/ /\ phase[x] = "running"
          /\ pending' = pending \cup {x}
          /\ Return(t)
          /\ UNCHANGED phase
       \/ /\ phase[x] = "awaiting"
          /\ Dispatched(t, x)
          /\ UNCHANGED pending
    /\ UNCHANGED <<group, child, hook, cancellation, counts>>

\* Leaving the co_await: ~stop_callback waits for another thread that runs it.
Unhook(t) ==
    /\ In(t, "wake")
    /\ LET x == Task(t) IN
       /\ hook[x] \in {"off", "on", t}
       /\ hook' = [hook EXCEPT ![x] = "off"]
       /\ child' = [child EXCEPT ![x] = 0]
       /\ Become(t, <<At("body", x)>>)
    /\ UNCHANGED <<group, phase, pending, cancellation, counts>>

-----------------------------------------------------------------------------
(* requestStop of one task, called by the group, a handle, or a parent.    *)

StopTask(t, x) ==
    /\ UserCode(t) /\ stops < MaxStops /\ x \in Roots /\ phase[x] \notin {"lazy", "discarded"}
    /\ stops' = stops + 1
    /\ Enter(t, At("cancel", x))
    /\ UNCHANGED <<group, execution, cancellation, joins>>

Cancel(t) ==
    /\ In(t, "cancel")
    /\ told' = [told EXCEPT ![Task(t)] = TRUE]
    /\ Become(t, <<At("token", Task(t))>>)
    /\ UNCHANGED <<group, execution, tokenStop, counts>>

\* operation::cancel completes an operation unless it executes.
Interruptible(x) == phase[x] = "suspended"

\* The token ends a plain suspension, here or through a queue; a task that awaits
\* another stops that one.  Anything else sees the token later.
StopToken(t) ==
    /\ In(t, "token")
    /\ LET x == Task(t) IN
       /\ tokenStop' = [tokenStop EXCEPT ![x] = TRUE]
       /\ \/ /\ ~tokenStop[x] /\ hook[x] = "on"
             /\ hook' = [hook EXCEPT ![x] = t]
             /\ Become(t, <<At("cancel", child[x]), At("called", x)>>)
             /\ UNCHANGED phase
          \/ /\ ~tokenStop[x] /\ Interruptible(x)
             /\ Dispatched(t, x)
             /\ UNCHANGED hook
          \/ /\ tokenStop[x] \/ (hook[x] # "on" /\ ~Interruptible(x))
             /\ Return(t)
             /\ UNCHANGED <<hook, phase>>
    /\ UNCHANGED <<group, child, pending, told, counts>>

Called(t) ==
    /\ In(t, "called")
    /\ hook' = [hook EXCEPT ![Task(t)] = "off"]
    /\ Return(t)
    /\ UNCHANGED <<group, phase, child, pending, cancellation, counts>>

-----------------------------------------------------------------------------
\* A thread goes on with the call it is in.
Continue(t) ==
    \/ StopEach(t) \/ JoinReturns(t) \/ Resume(t) \/ Suspend(t) \/ CallableEnds(t)
    \/ End(t) \/ Destroy(t) \/ Complete(t) \/ Start(t) \/ Leave(t) \/ Notify(t) \/ Unhook(t)
    \/ Cancel(t) \/ StopToken(t) \/ Called(t)

Delivered(x) == \E t \in Loops : Deliver(t, x)

\* A body whose token is stopped ends.
EndsStopped == \E t \in Threads : End(t) /\ tokenStop[Task(t)]

Next ==
    \/ \E t \in Threads : Continue(t) \/ RequestStop(t) \/ Join(t)
    \/ \E t \in Threads, x \in Tasks :
         Spawn(t, x) \/ AwaitChild(t, x) \/ StopTask(t, x) \/ Wake(t, x) \/ Work(t, x)
    \/ \E x \in Tasks : Delivered(x)

\* User code ends or suspends, and a ticket in a queue has its turn although other
\* tasks are resumed over and over.  A body that is stopped may catch the cancellation
\* and suspend again, but not for ever.  No event has to come and nobody has to stop.
Fairness ==
    /\ \A x \in Tasks : SF_vars(Delivered(x))
    /\ SF_vars(EndsStopped)
    /\ \A t \in Threads : WF_vars(Continue(t))

Safe == Init /\ [][Next]_vars
Spec == Safe /\ Fairness

-----------------------------------------------------------------------------
(* Properties.                                                             *)

Phases == {"lazy", "spawned", "running", "suspended", "queued", "working", "awaiting", "completed", "discarded"}
Ops == Scoped \cup {"resume", "complete", "notify", "cancel", "token", "called", "stopEach", "joining"}

\* The executions of x on all threads.
Executions(x) == UNION {{<<t, d>> : d \in {d \in DOMAIN stack[t] : stack[t][d].op \in Scoped /\ stack[t][d].task = x}} : t \in Threads}

\* Every variable keeps the type of the member it stands for; a task that runs has
\* one execution_scope, on one thread, and one that does not has none.
TypeOK ==
    /\ stopping \in BOOLEAN /\ tasks \subseteq owned /\ owned \subseteq Roots
    /\ phase \in [Tasks -> Phases] /\ told \in [Tasks -> BOOLEAN] /\ tokenStop \in [Tasks -> BOOLEAN]
    /\ child \in [Tasks -> Tasks \cup {0}] /\ pending \subseteq {x \in Tasks : child[x] # 0}
    /\ hook \in [Tasks -> {"off", "on"} \cup Threads]
    /\ stops \in 0 .. MaxStops /\ joins \in 0 .. MaxJoins
    /\ \A t \in Threads : \A d \in DOMAIN stack[t] : stack[t][d].op \in Ops
    /\ \A x \in Tasks : Cardinality(Executions(x)) <= 1
         /\ (Executions(x) # {} => phase[x] \in {"running", "working"})

\* docs/cpp-guidelines.md: an owner shall "retain the resources used by tasks until
\* `finished()` is true": while the group is finished, no task that it ever owned, nor
\* one that such a task awaited, runs, destroys its frame, or will be resumed.
\* (The types come with it.)
FinishedIsQuiet ==
    /\ TypeOK
    /\ (\A x \in tasks : Completed(x)) =>
        \A x \in Tasks : line[x] \cap owned # {} =>
            phase[x] \in {"lazy", "completed"} /\ Executions(x) = {}

\* After requestStop all that the group owns ends, and every join returns, whoever
\* called it: a join inside the group's own tasks, however nested, does not wait
\* for itself.
ShutdownEnds == <>[](stopping =>
    /\ \A x \in owned : Completed(x)
    /\ \A t \in Threads : \A d \in DOMAIN stack[t] : stack[t][d].op # "joining")
=============================================================================
