------------------------------ MODULE TaskCore ------------------------------
(***************************************************************************)
(* vtask.h: one coroutine and the machinery that suspends, resumes and     *)
(* cancels it: state_base, operation, resume_ticket, work_ticket and the   *)
(* awaiters built on suspension.  Every thread may run any part of it, and *)
(* calls nest (a stop callback cancels an operation, whose scheduler       *)
(* resumes the coroutine inline, which suspends again...), so each thread  *)
(* has a stack of the calls it is inside of.  A step is one critical       *)
(* section, or one stretch of code without shared state.                   *)
(***************************************************************************)
EXTENDS Naturals, Sequences, FiniteSets

CONSTANTS Threads,      \* threads that spawn, run a loop or a pool, or cancel
          Kinds,        \* the co_awaits of the coroutine, in order
          Schedulers,   \* what a dispatch may do: subset of {"inline", "queue", "reject"}
          MaxStops      \* bound: how often requestStop is called

Ops == 1 .. Len(Kinds)

\* post(scheduler); sleepFor or nextFrame; until; work(pool, callable); another task's handle.
ASSUME TaskCoreAssumption ==
    /\ Kinds \in Seq({"post", "event", "probe", "work", "result"})
    /\ Schedulers \subseteq {"inline", "queue", "reject"}
    /\ MaxStops \in Nat
    /\ IsFiniteSet(Threads)

VARIABLES
    running, resumePending, executionFinished, started,   \* under resumeMutex
    settled,        \* "no", or the result: "value", "error", "cancelled"
    completed,      \* execution completed (under resultMutex)
    cancelRequested,\* cancellationRequested
    tokenStop,      \* stopSource's state
    spawned,        \* resume was called for the first time
    frame,          \* the coroutine frame exists
    next,           \* how many co_awaits the body has reached
    awaiting,       \* the operation it is suspended on, 0 if none
    claimed, executing, failure,   \* [Ops -> ...], the members of operation
    hook,           \* [Ops -> "off", "on", or the thread running the stop_callback]
    source,         \* [Ops -> BOOLEAN], registered with the loop or a handle, or queued in the pool
    target,         \* [Ops -> the result of the task that is awaited, "no" before it is settled]
    queued,         \* operations whose resume_ticket sits in a scheduler's queue
    stops,          \* history: calls of requestStop
    stack           \* [Threads -> Seq(calls)], the innermost first

coroutine == <<running, resumePending, executionFinished, started, frame, next, awaiting>>
result == <<settled, completed>>
cancellation == <<cancelRequested, tokenStop, stops>>
operation == <<claimed, executing, failure>>
others == <<spawned, target>>
vars == <<coroutine, result, cancellation, operation, others, hook, source, queued, stack>>

\* A call in progress: where it is, the operation and the failure it is about.
Call(step, i, e) == [step |-> step, op |-> i, err |-> e]
At(step) == Call(step, 0, "none")

Idle(t) == stack[t] = <<>>
In(t, step) == stack[t] # <<>> /\ Head(stack[t]).step = step
Op(t) == Head(stack[t]).op
Enter(t, c) == stack' = [stack EXCEPT ![t] = <<c>> \o @]
Become(t, calls) == stack' = [stack EXCEPT ![t] = calls \o Tail(@)]
Return(t) == Become(t, <<>>)

Init ==
    /\ running = FALSE /\ resumePending = FALSE
    /\ executionFinished = FALSE /\ started = FALSE
    /\ settled = "no" /\ completed = FALSE
    /\ cancelRequested = FALSE /\ tokenStop = FALSE /\ stops = 0
    /\ spawned = FALSE /\ frame = TRUE /\ next = 0 /\ awaiting = 0
    /\ claimed = [i \in Ops |-> FALSE]
    /\ executing = [i \in Ops |-> FALSE]
    /\ failure = [i \in Ops |-> "none"]
    /\ hook = [i \in Ops |-> "off"]
    /\ source = [i \in Ops |-> FALSE]
    /\ target = [i \in Ops |-> "no"]
    /\ queued = {}
    /\ stack = [t \in Threads |-> <<>>]

\* operation::stopping: the task's flag is raised before its token is stopped.
Stopping == tokenStop \/ cancelRequested

-----------------------------------------------------------------------------
(* scheduler::dispatch of a resume_ticket: the ticket runs here, or waits  *)
(* in a queue, or is rejected, and then its destructor marks the operation *)
(* and resumes all the same.                                               *)

Claim(i) == [claimed EXCEPT ![i] = TRUE]

Dispatch(t, i, e) ==
    /\ claimed' = Claim(i)
    /\ \/ /\ "inline" \in Schedulers
          /\ failure' = [failure EXCEPT ![i] = e]
          /\ Become(t, <<Call("resume", i, "none")>>)
          /\ UNCHANGED queued
       \/ /\ "queue" \in Schedulers
          /\ failure' = [failure EXCEPT ![i] = e]
          /\ queued' = queued \cup {i}
          /\ Return(t)
       \/ /\ "reject" \in Schedulers
          /\ failure' = [failure EXCEPT ![i] = "rejected"]
          /\ Become(t, <<Call("resume", i, "none")>>)
          /\ UNCHANGED queued

\* Mutant: complete does not look at claimed.
CompletesTwice(i) == TRUE

CanComplete(i) == ~claimed[i]

\* Mutant: cancel does not wait for the callable that runs.
CancelsRunning(i) == ~claimed[i]

CanCancel(i) == ~claimed[i] /\ ~executing[i]

Complete(t) ==
    /\ In(t, "complete")
    /\ IF CanComplete(Op(t))
       THEN Dispatch(t, Op(t), Head(stack[t]).err)
       ELSE Return(t) /\ UNCHANGED <<claimed, failure, queued>>
    /\ UNCHANGED <<coroutine, result, cancellation, executing, others, hook, source>>

Cancel(t) ==
    /\ In(t, "cancel")
    /\ IF CanCancel(Op(t))
       THEN Dispatch(t, Op(t), "cancelled")
       ELSE Return(t) /\ UNCHANGED <<claimed, failure, queued>>
    /\ UNCHANGED <<coroutine, result, cancellation, executing, others, hook, source>>

\* A queued ticket runs on some thread, or its queue drops it.
Deliver(t, i) ==
    /\ Idle(t) /\ i \in queued
    /\ queued' = queued \ {i}
    /\ \/ UNCHANGED failure
       \/ failure' = [failure EXCEPT ![i] = "rejected"]
    /\ Enter(t, Call("resume", i, "none"))
    /\ UNCHANGED <<coroutine, result, cancellation, claimed, executing, others, hook, source>>

-----------------------------------------------------------------------------
(* state_base::resume.                                                     *)

Spawn(t) ==
    /\ Idle(t) /\ ~spawned
    /\ spawned' = TRUE
    /\ Enter(t, At("resume"))
    /\ UNCHANGED <<coroutine, result, cancellation, operation, hook, source, target, queued>>

\* Mutant: a resume that meets a running coroutine is forgotten.
ForgetsResume == resumePending

\* Mutant: resume does not look at `running`.
IgnoresRunning == executionFinished

Busy == executionFinished \/ running

PendingIfRunning == resumePending \/ (running /\ ~executionFinished)

Resume(t) ==
    /\ In(t, "resume")
    /\ resumePending' = PendingIfRunning
    /\ IF Busy
       THEN Return(t) /\ UNCHANGED running
       ELSE running' = TRUE /\ Become(t, <<At("run")>>)
    /\ UNCHANGED <<executionFinished, started, frame, next, awaiting, result, cancellation,
                   operation, others, hook, source, queued>>

\* The top of the loop: a task stopped before it started skips its body.
Run(t) ==
    /\ In(t, "run")
    /\ started' = TRUE
    /\ LET skipBody == ~started /\ cancelRequested IN
       Become(t, <<At(IF skipBody THEN "destroy" ELSE IF started THEN "wake" ELSE "body")>>)
    /\ UNCHANGED <<running, resumePending, executionFinished, frame, next, awaiting, result,
                   cancellation, operation, others, hook, source, queued>>

\* frame.resume() returned with the coroutine suspended.
Leave(t) ==
    /\ In(t, "leave")
    /\ resumePending' = FALSE
    /\ running' = resumePending
    /\ IF resumePending THEN Become(t, <<At("run")>>) ELSE Return(t)
    /\ UNCHANGED <<executionFinished, started, frame, next, awaiting, result, cancellation,
                   operation, others, hook, source, queued>>

\* frame.done(), or the body was skipped: the frame goes first, and only then
\* is the execution finished, and only then completed.
Destroy(t) ==
    /\ In(t, "destroy")
    /\ frame' = FALSE
    /\ Become(t, <<At("finish")>>)
    /\ UNCHANGED <<running, resumePending, executionFinished, started, next, awaiting, result,
                   cancellation, operation, others, hook, source, queued>>

Finish(t) ==
    /\ In(t, "finish")
    /\ running' = FALSE
    /\ executionFinished' = TRUE
    /\ Become(t, <<At("completeExecution")>>)
    /\ UNCHANGED <<resumePending, started, frame, next, awaiting, result, cancellation,
                   operation, others, hook, source, queued>>

CompleteExecution(t) ==
    /\ In(t, "completeExecution")
    /\ completed' = TRUE
    /\ Return(t)
    /\ UNCHANGED <<coroutine, settled, cancellation, operation, others, hook, source, queued>>

-----------------------------------------------------------------------------
(* The body: between two co_awaits it may return or throw.                 *)

Body(t) ==
    /\ In(t, "body")
    /\ \E outcome \in {"value", "error"} : Become(t, <<Call("settle", 0, outcome)>>)
    /\ UNCHANGED <<coroutine, result, cancellation, operation, others, hook, source, queued>>

FirstResult(r) == IF settled = "no" THEN r ELSE settled

\* return_value, return_void and unhandled_exception: the first result stays.
Settle(t) ==
    /\ In(t, "settle")
    /\ settled' = FirstResult(Head(stack[t]).err)
    /\ Become(t, <<At("destroy")>>)
    /\ UNCHANGED <<coroutine, completed, cancellation, operation, others, hook, source, queued>>

\* await_ready of a handle whose task has its result: there is no suspension, and
\* the body goes on with what it gets, or ends by it.
AwaitReady(t) ==
    /\ In(t, "body")
    /\ next + 1 \in Ops /\ target[next + 1] # "no"
    /\ next' = next + 1
    /\ \/ Become(t, <<At("body")>>)
       \/ target[next + 1] = "error" /\ Become(t, <<Call("settle", 0, "error")>>)
    /\ UNCHANGED <<running, resumePending, executionFinished, started, frame, awaiting, result,
                   cancellation, operation, others, hook, source, queued>>

\* suspension::prepare: a new operation and its stop_callback, which runs in
\* its constructor when the token is already stopped.
Suspend(t) ==
    /\ In(t, "body")
    /\ next + 1 \in Ops /\ target[next + 1] = "no"
    /\ LET i == next + 1 IN
       /\ next' = i /\ awaiting' = i
       /\ IF tokenStop
          THEN Become(t, <<Call("cancel", i, "none"), Call("arm", i, "none")>>) /\ UNCHANGED hook
          ELSE Become(t, <<Call("arm", i, "none")>>) /\ hook' = [hook EXCEPT ![i] = "on"]
    /\ UNCHANGED <<running, resumePending, executionFinished, started, frame, result,
                   cancellation, operation, others, source, queued>>

\* The rest of await_suspend: post completes at once, the others register with
\* the loop or the handle, or submit to the pool; a refused submit fails the operation,
\* and a result that is there by now completes it.
Arm(t) ==
    /\ In(t, "arm")
    /\ LET i == Op(t) IN
       \/ /\ Kinds[i] # "post" /\ target[i] = "no"
          /\ source' = [source EXCEPT ![i] = TRUE]
          /\ Become(t, <<At("leave")>>)
       \/ /\ Kinds[i] = "post" \/ target[i] # "no"
          /\ Become(t, <<Call("complete", i, "none"), At("leave")>>)
          /\ UNCHANGED source
       \/ /\ Kinds[i] = "work"
          /\ Become(t, <<Call("complete", i, "rejected"), At("leave")>>)
          /\ UNCHANGED source
    /\ UNCHANGED <<coroutine, result, cancellation, operation, others, hook, queued>>

\* Mutant: the awaiter leaves its registration with the loop.
StaysConnected(i) == source

\* A work_ticket, which the pool owns, outlives the co_await, and so does a handle's
\* callback, which knows the operation only weakly.
Outlives(i) == Kinds[i] \in {"work", "result"}
Disconnected(i) == [source EXCEPT ![i] = @ /\ Outlives(i)]

\* await_resume: check throws a failure, or task_cancelled, and get() the target's
\* error.  Leaving the
\* co_await destroys the awaiter: its connection first, then its stop_callback,
\* whose destructor waits for a callback that another thread is running.
Wake(t) ==
    /\ In(t, "wake")
    /\ awaiting' = 0
    /\ source' = Disconnected(next)
    /\ LET threw == failure[next] # "none" \/ Stopping \/ target[next] = "error" IN
       Become(t, <<Call("unhook", next, IF threw THEN "error" ELSE "none")>>)
    /\ UNCHANGED <<running, resumePending, executionFinished, started, frame, next, result,
                   cancellation, operation, others, hook, queued>>

\* The body goes on, having caught the exception if there was one, or ends by it.
Unhook(t) ==
    /\ In(t, "unhook")
    /\ hook[Op(t)] \in {"off", "on", t}
    /\ hook' = [hook EXCEPT ![Op(t)] = "off"]
    /\ \/ Become(t, <<At("body")>>)
       \/ /\ Head(stack[t]).err = "error"
          /\ Become(t, <<Call("settle", 0, "error")>>)
    /\ UNCHANGED <<coroutine, result, cancellation, operation, others, source, queued>>

-----------------------------------------------------------------------------
(* What completes an operation: the loop or the pool.                      *)

\* A due timer or the next frame (later frames find the operation claimed).  The
\* coroutine may be cancelled while the loop already runs the callback.
Fire(t, i) ==
    /\ Idle(t) /\ Kinds[i] = "event" /\ source[i]
    /\ source' = [source EXCEPT ![i] = FALSE]
    /\ Enter(t, Call("complete", i, "none"))
    /\ UNCHANGED <<coroutine, result, cancellation, operation, others, hook, queued>>

\* The awaited task is settled: its callbacks are taken out under its lock, and then run.
TargetSettles(t, i) ==
    /\ Idle(t) /\ Kinds[i] = "result" /\ target[i] = "no"
    /\ \E r \in {"value", "error"} : target' = [target EXCEPT ![i] = r]
    /\ source' = [source EXCEPT ![i] = FALSE]
    /\ IF source[i] THEN Enter(t, Call("complete", i, "none")) ELSE UNCHANGED stack
    /\ UNCHANGED <<coroutine, result, cancellation, operation, spawned, hook, queued>>

CanBegin(i) == ~claimed[i] /\ ~Stopping

\* until: the predicate is not run for an operation that is claimed or being
\* cancelled; the loop takes the condition as met and runs its callback.  The
\* loop evaluates a condition once at a time.
BeginProbe(t, i) ==
    /\ Idle(t) /\ Kinds[i] = "probe" /\ source[i]
    /\ source' = [source EXCEPT ![i] = FALSE]
    /\ IF CanBegin(i)
       THEN /\ executing' = [executing EXCEPT ![i] = TRUE]
            /\ Enter(t, Call("probe", i, "none"))
       ELSE Enter(t, Call("complete", i, "none")) /\ UNCHANGED executing
    /\ UNCHANGED <<coroutine, result, cancellation, claimed, failure, others, hook, queued>>

\* Mutant: the probe does not look whether it was cancelled while it ran.
NeverCancelledProbe == FALSE

ProbeCancelled == Stopping

\* endProbe, then the condition's callback if the predicate held, else the loop
\* keeps the condition; a predicate that throws fails the operation and counts as
\* met.
EndProbe(t) ==
    /\ In(t, "probe")
    /\ LET i == Op(t)
           met == <<Call("complete", i, "none")>>
           late == IF ProbeCancelled THEN <<Call("complete", i, "cancelled")>> ELSE <<>>
       IN \/ /\ executing' = [executing EXCEPT ![i] = FALSE]
             /\ Become(t, late \o met)
             /\ UNCHANGED source
          \/ /\ executing' = [executing EXCEPT ![i] = FALSE]
             /\ Become(t, late)
             /\ source' = [source EXCEPT ![i] = TRUE]
          \/ /\ Become(t, <<Call("complete", i, "error")>> \o met)
             /\ UNCHANGED <<executing, source>>
    /\ UNCHANGED <<coroutine, result, cancellation, claimed, failure, others, hook, queued>>

\* work(pool, callable): a worker takes the work_ticket, or the pool drops it.
BeginWork(t, i) ==
    /\ Idle(t) /\ Kinds[i] = "work" /\ source[i]
    /\ source' = [source EXCEPT ![i] = FALSE]
    /\ \/ /\ CanBegin(i)
          /\ executing' = [executing EXCEPT ![i] = TRUE]
          /\ Enter(t, Call("work", i, "none"))
       \/ /\ ~CanBegin(i)
          /\ UNCHANGED <<executing, stack>>
       \/ /\ Enter(t, Call("complete", i, "rejected"))
          /\ UNCHANGED executing
    /\ UNCHANGED <<coroutine, result, cancellation, claimed, failure, others, hook, queued>>

EndWork(t) ==
    /\ In(t, "work")
    /\ \E e \in {"none", "error"} : Become(t, <<Call("complete", Op(t), e)>>)
    /\ UNCHANGED <<coroutine, result, cancellation, operation, others, hook, source, queued>>

-----------------------------------------------------------------------------
(* state_base::requestStop, called by any thread, also from the body, a    *)
(* predicate or a callable of the task itself.                             *)

UserCode(t) == Idle(t) \/ In(t, "body") \/ In(t, "probe") \/ In(t, "work")

RequestStop(t) ==
    /\ UserCode(t) /\ stops < MaxStops
    /\ stops' = stops + 1
    /\ Enter(t, At("cancelResult"))
    /\ UNCHANGED <<coroutine, result, cancelRequested, tokenStop, operation, others, hook,
                   source, queued>>

CancelResult(t) ==
    /\ In(t, "cancelResult")
    /\ settled' = FirstResult("cancelled")
    /\ cancelRequested' = TRUE
    /\ Become(t, <<At("stopToken")>>)
    /\ UNCHANGED <<coroutine, completed, tokenStop, stops, operation, others, hook, source, queued>>

\* Only the first request_stop runs the registered callbacks, one at a time.
StopToken(t) ==
    /\ In(t, "stopToken")
    /\ tokenStop' = TRUE
    /\ IF tokenStop THEN Return(t) ELSE Become(t, <<At("callbacks")>>)
    /\ UNCHANGED <<coroutine, result, cancelRequested, stops, operation, others, hook, source, queued>>

RunCallback(t) ==
    /\ In(t, "callbacks")
    /\ \/ \E i \in Ops :
             /\ hook[i] = "on"
             /\ hook' = [hook EXCEPT ![i] = t]
             /\ Become(t, <<Call("cancel", i, "none"), Call("called", i, "none"), At("callbacks")>>)
       \/ /\ \A i \in Ops : hook[i] # "on"
          /\ Return(t)
          /\ UNCHANGED hook
    /\ UNCHANGED <<coroutine, result, cancellation, operation, others, source, queued>>

CallbackDone(t) ==
    /\ In(t, "called")
    /\ hook' = [hook EXCEPT ![Op(t)] = "off"]
    /\ Return(t)
    /\ UNCHANGED <<coroutine, result, cancellation, operation, others, source, queued>>

-----------------------------------------------------------------------------
\* A thread goes on with the call it is in.
Continue(t) ==
    \/ Complete(t) \/ Cancel(t) \/ Resume(t) \/ Run(t) \/ Leave(t)
    \/ Destroy(t) \/ Finish(t) \/ CompleteExecution(t)
    \/ Body(t) \/ Settle(t) \/ AwaitReady(t) \/ Suspend(t) \/ Arm(t) \/ Wake(t) \/ Unhook(t)
    \/ EndProbe(t) \/ EndWork(t)
    \/ CancelResult(t) \/ StopToken(t) \/ RunCallback(t) \/ CallbackDone(t)

Delivered == \E t \in Threads, i \in Ops : Deliver(t, i)

Next ==
    \/ \E t \in Threads : Continue(t) \/ Spawn(t) \/ RequestStop(t)
    \/ \E t \in Threads, i \in Ops : Fire(t, i) \/ TargetSettles(t, i) \/ BeginProbe(t, i) \/ BeginWork(t, i)
    \/ Delivered

\* Threads that can run do, user code ends, and a scheduler runs or drops what
\* it accepted.  No event has to come, no condition to hold, no callable to be
\* taken, and nobody has to stop the task.
Fairness == WF_vars(Delivered) /\ \A t \in Threads : WF_vars(Continue(t))

Safe == Init /\ [][Next]_vars
Spec == Safe /\ Fairness

-----------------------------------------------------------------------------
(* Properties.                                                             *)

BodySteps == {"run", "wake", "unhook", "body", "settle", "arm", "leave", "destroy", "finish"}
Steps == BodySteps \cup {"resume", "complete", "cancel", "completeExecution", "probe", "work",
                         "cancelResult", "stopToken", "callbacks", "called"}

\* The calls of thread t, as positions of its stack.
Frames(t, S) == {d \in DOMAIN stack[t] : stack[t][d].step \in S}
\* All calls of all threads that are at one of these steps.
Calls(S) == UNION {{<<t, d>> : d \in Frames(t, S)} : t \in Threads}

\* Every variable keeps the type of the member it stands for, and only a claimed
\* operation has a failure.
Members ==
    /\ {running, resumePending, executionFinished, started} \subseteq BOOLEAN
    /\ {completed, cancelRequested, tokenStop, spawned, frame} \subseteq BOOLEAN
    /\ settled \in {"no", "value", "error", "cancelled"}
    /\ next \in 0 .. Len(Kinds) /\ awaiting \in {0, next}
    /\ claimed \in [Ops -> BOOLEAN] /\ executing \in [Ops -> BOOLEAN]
    /\ failure \in [Ops -> {"none", "error", "cancelled", "rejected"}]
    /\ \A i \in Ops : failure[i] # "none" => claimed[i]
    /\ hook \in [Ops -> {"off", "on"} \cup Threads]
    /\ source \in [Ops -> BOOLEAN] /\ target \in [Ops -> {"no", "value", "error"}]
    /\ queued \subseteq Ops
    /\ stops \in 0 .. MaxStops

TypeOK ==
    /\ Members
    /\ \A t \in Threads : \A d \in DOMAIN stack[t] :
          stack[t][d].step \in Steps /\ stack[t][d].op \in 0 .. Len(Kinds)

\* However resumes race, nest and are deferred, one call at most runs the
\* coroutine, and only while `running` is set and the execution not finished.
\* (The types come with it.)
OneRunner ==
    /\ TypeOK
    /\ Cardinality(Calls(BodySteps)) <= 1
    /\ Calls(BodySteps) # {} => running /\ ~executionFinished

\* The resume_tickets of operation i on their way to the coroutine.
Tickets(i) ==
    Cardinality({c \in Calls({"resume"}) : stack[c[1]][c[2]].op = i})
    + (IF i \in queued THEN 1 ELSE 0)
    + (IF i = awaiting /\ (resumePending \/ Calls({"run", "wake"}) # {}) THEN 1 ELSE 0)

\* Each operation resumes the coroutine once: from being claimed to the end of
\* its co_await there is exactly one ticket, queued, being delivered or
\* deferred, and none before it is claimed or after the co_await.  One that has not
\* failed has what it waited for: get() in a co_await of a handle never blocks.
OneTicketEach == \A i \in Ops :
    /\ Tickets(i) = IF claimed[i] /\ awaiting = i THEN 1 ELSE 0
    /\ claimed[i] /\ Kinds[i] = "result" /\ failure[i] = "none" => target[i] # "no"

\* While a callable or a predicate runs, the coroutine stays suspended on it:
\* what it captured of the frame remains valid, even if it is cancelled.
CallableKeepsFrame == \A c \in Calls({"work", "probe"}) :
    LET i == stack[c[1]][c[2]].op IN frame /\ awaiting = i /\ ~claimed[i]

\* finished() and join() mean teardown: the result is settled, the frame and its
\* registrations are gone and no ticket can still reach the coroutine.
CompletedIsQuiet == completed =>
    /\ settled # "no"
    /\ ~frame /\ ~running
    /\ queued = {} /\ Calls({"resume"} \cup BodySteps) = {}
    /\ \A i \in Ops : hook[i] = "off" /\ (source[i] => Outlives(i) /\ claimed[i])

\* A claimed operation resumes its coroutine, wherever the ticket got to, and so does a
\* result that is settled while the coroutine registers for it.
ClaimedResumes == \A i \in Ops : (claimed[i] \/ target[i] # "no") ~> awaiting # i

\* A stopped task runs to completion although no event ever comes: its
\* suspended operation is cancelled, also when requestStop met a running
\* predicate, a coroutine between two co_awaits or one not yet started.
StopCompletes == (cancelRequested /\ spawned) ~> completed
=============================================================================
