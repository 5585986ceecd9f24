# vstd in TLA+

A verification of the concurrent core of `vstd`, the header-only C++ library in this
repository. The modules are translated from the headers; the statements they are held
against come from `README.md`, `docs/cpp-guidelines.md` and the tests. `PROJECT.json`
lists the runs, the lines each definition models, the hazards and the theorems.

## The system

| Component | State | Operations | What is hard |
|---|---|---|---|
| `thread_pool` (`vthreadpool.h`) | a queue with lock, condition variable and shutdown flag per generation; the threads; started flags | execute, submit, start, stop; the worker loop | lost wake-ups, stops by workers, restarts while a generation drains, threads that cannot be created |
| task state and awaiters (`vtask.h` 28-680, 1000-1234) | result, completion, stop source, `running`/`resumePending`, one `operation` per suspension | resume, requestStop, complete, cancel, beginWork, endProbe; `post`, `work`, `sleepFor`, `until`, `nextFrame`, awaiting a handle | resumes that race, nest or come before the coroutine is suspended; cancellation against running user code; rejected and dropped tickets |
| `whenAll` (`vtask.h` 1236-1320) | first error, weak list of children | join, fail | children that end while the join is stopped or not yet subscribed |
| `task_group` and nested await (`vtask.h` 836-983) | the tasks of a session, stopping; the parent of a task | spawn, requestStop, join; awaiting a task | joins inside what they would wait for, tasks that are erased or finished too early, a stop that ends a child whose end resumes the parent |
| `future` (`vfuture.h`) | state, result or exception, continuations, started | call, setResult, setException, cancel, onSettled, get; then, when_all, join | registration against settlement, joins over parts that fail or are cancelled |
| `event_loop` (`veventloop.h`) | five queues, ids, a wake flag, quit | invoke, await, scheduleWhen, scheduleAfter, connect..., runReady, runFrame, reset of a connection | callbacks that run the loop they are run by; resets from callbacks and from other threads |
| `cache` (`vcache.h`) | values with insertion tick and TTL | get | overflow of ticks, loaders that use the cache |
| `any_registry` (`vany.h`) | converters between types | add, path, convert | search in any order of a hash map, registration while converters run |
| reflection (`vmeta.h`) | a static per class, the index of names, each object's own properties and methods | static_meta, register_type, find, list, invoke, get and set, set_method, set_dynamic_property, copies of objects | classes that are built by several threads or fail, handles of another type than a member needs, copies that throw |
| `chain` (`vchain.h`) | the last future, a recursive lock | invoke_async, invoke_later, terminate | handlers that run the callback while the lock is held, callbacks that invoke |
| `blocking_queue` (`vutil.h` 220-271) | a queue, shutdown | push, pop with a stop token, shutdown, reset | one notification per push, copies that throw, stops without the lock |
| facade, `lazy`, neural network, logger, strings, conversion, compile-time toolkit | | | not modelled, reasons in `PROJECT.json` |

They interact by callbacks. A `task` is resumed through a `scheduler`, which is a function
that hands a ticket to `event_loop::invoke` or `thread_pool::submit`; timers, conditions
and frame callbacks of the loop, and callables in a pool, complete the `operation` on which
a task is suspended; stop tokens cancel it. A `future` runs its body through a handler of
`vthread.h`, which may be a pool or a loop. No lock is held while foreign code runs (the
`chain` is the exception), so every call may come back into its caller: this nesting, more
than parallelism alone, is what the models are about.

What makes each component correct, in a sentence: the pool runs what it accepted, in the
generation that accepted it, and stops; a coroutine is resumed once per suspension, by one
thread, whoever completes, cancels or rejects it; `whenAll` outlives its children and fails
if one does; a future is settled once and everyone who registered is told; a chain's
callbacks run one after the other; a batch of the loop is finite, and after a reset nothing
begins; who finds a class's metadata can convert its handles, and copies of an object share
nothing; while a popper of a queue sleeps, as many are awake as there are items.

## Modules

    Executor        abstract specification of a pool          (refined by ThreadPool)
    ThreadPool      vthreadpool.h        MCThreadPool         ThreadPoolProofs
    TaskCore        vtask.h, one coroutine        MCTaskCore  TaskCoreProofs
    TaskJoin        vtask.h, whenAll                          TaskJoinProofs
    TaskGroup       vtask.h, task_group and nested await  MCTaskGroup  TaskGroupProofs
    Future          vfuture.h                                 FutureProofs
    CallbackChain   vchain.h, on top of Future    MCFuture    FutureProofs
    EventLoop       veventloop.h                  MCEventLoop EventLoopProofs
    Cache           vcache.h                                  UtilityProofs
    AnyRegistry     vany.h                                    MetaProofs
    Meta            vmeta.h, on top of AnyRegistry  MCMeta    MetaProofs
    BlockingQueue   vutil.h, blocking_queue                   UtilityProofs

One idea of how to model code is shared by `TaskCore`, `TaskJoin`, `TaskGroup`, `Future` and `EventLoop`: a thread has a *stack* of the
calls it is inside of, innermost first. A step is one critical section, or a stretch of code
that touches nothing shared; it replaces the top call by what remains of it and pushes the
calls it makes. So a stop callback that cancels an operation whose scheduler resumes the
coroutine inline is five calls deep, with the other threads in between. Code that the
application writes (bodies, predicates, callbacks) is a nondeterministic choice of what
such code may do: return, throw, call back.

**ThreadPool.** An agent is an external caller or a worker inside its task. `_worker_lock`
is held in short sections, each one step, and across a start that fails. The queue's lock is held from evaluating the
predicate of `wait` to falling asleep: such a worker is `"blocking"`, and every operation
that takes the lock needs `LockFree`. `request_stop` does not, and that is the race.
A restart makes a generation (`queue[g]`, `shut[g]`, workers `<<g, rank>>`). `submit` is two
steps: which queue, then the push. A start whose k-th thread cannot be created is two steps:
`StartFails` leaves the threads that exist to run on an open queue, with `_worker_lock` held
(`WorkerLockFree` guards who needs it), and `StartCatches`, the handler, shuts the queue and stops
them as `Stop` does.
`task[w]` is the worker's local callable, dropped at line 120. Not modelled: custom worker
templates, and that a stop called again in the middle of the same caller's stop waits.

**Executor.** What a pool's user sees: accepted tasks begin in order, each once, on at most
`Width` threads at a time; a generation accepts only while open and all earlier ones are
closed; closing is final. `MCThreadPool` states the refinement: `pending <- queue`,
`closed <- shut`, `running` the tasks that the workers of a generation hold.

**TaskCore.** One coroutine with the list `Kinds` of its awaits. `Call("resume", i, ..)` is a
`resume_ticket` on its way, `queued` those inside a scheduler, which may also run a ticket
inline or reject it (its destructor then marks the operation and resumes). `hook[i]` is the
`stop_callback` of operation `i`: `"on"`, or the thread that runs it, which its destructor
waits for unless it is its own. `source[i]` is the registration with the loop or a handle, or
the `work_ticket` in the pool. `target[i]` is the result of the task whose handle is awaited,
which another thread settles: before `await_ready`, between it and `onReady`, or later. A
body goes on after an await that threw, or ends by it.

**TaskJoin.** The join coroutine with its children reduced to what it sees: they settle,
complete, are stopped, and may end inline when they are. The order inside
`state_base::requestStop` is kept: settle and take the callbacks, stop the token, run the
callbacks. `Call("notify", ..)` is such a callback between being taken and being run.

**TaskGroup.** Several tasks; `Parent[x]` is the task that awaits `x`. What `TaskCore` spells
out of one suspension is one state here (`"suspended"`, `"queued"` in a scheduler,
`"working"` while a callable runs for it), so that executions can nest: a task that spawns
runs the new one on its own stack, the end of a child resumes its parent there, and a stop
runs through the awaiter's `stop_callback` (`hook`) into the child. `Scoped` names the calls
that hold an `execution_scope`; `OwnsCurrentExecution` looks for them down the stack, as the
code follows `getPrevious`, and from each up its parents. A suspension whose token is stopped
already is cancelled as it begins: the body goes on, or its ticket is queued. A root is spawned in the group or
elsewhere. A ticket that is dropped resumes its task as one that is run does.

**Future.** A `plan` is a small program: bodies, continuations (`thenX`), `when_all` and
`join`. A future's constructor calls it; a continuation registers with its source. Values
are not told apart, but the one who failed is (`cause`), and copying a value may throw where
the code copies one. The application's handler is external: it runs a body inline, queues
it for a worker, drops it, or throws.

**CallbackChain.** Extends `Future` by programs that begin with `"start"`: a chain, each link
a continuation of the future that was the tail (`tail`, `_future` in the code) when its
invocation had the lock. `InvokeAsync` takes the lock and registers, `Store` is the
assignment that ends it; in between the handler may run the callback on the same thread,
which may invoke the chain again, as the lock is recursive (`nested`).

**EventLoop.** The loop's thread has the stack; `Posters` are other threads, whose
registrations are three steps (an id, the insertion, the wake) and resets two. A batch
carries its snapshot or limit (`list`, `limit`, `now`) and, as history, what was registered
before it. A callback, a predicate, or what runs the loop may register, reset, and pump the
loop. The clock and SDL's queue are external. One counter gives the ids of posted tasks and
of the others: they are compared only with their own kind.

**Cache.** The map is a set of entries; a value is the record of the load that made it, so
that what a hit returns can be compared with when, for what and for how long it was loaded.
`Half` is half the number of integers, 2^31 in the program; `ValidAt` is the comparison in
unsigned arithmetic, word for word. A loader is a call in progress: it may get, and throw.

**AnyRegistry.** `path` is stepwise, with its queue, its visited types and the hash map's
order left open; it holds the shared lock, so nobody adds meanwhile. `convert` then runs
copies (`"found"`), and converters may register. It is checked inside `Meta`, which registers
and asks as reflection does, besides an application that does so itself.

**Meta.** `static_meta` is the initializer of a C++ static: the first thread builds (`stack`,
as a class builds its base first), others wait, and one that throws leaves it to the next.
`BuildOrder` is the order of the macro: conversions, then the name. What an exception leaves
behind stays: conversions of a class whose name was taken. A member is found in the object's
own map or along the bases (`Find`), as `Collect` lists it by its own walk; `Invoke` then
converts the handle (`Convert` of `AnyRegistry`) to the type that the member was registered
for, and the casts on the way are dynamic, so one that leaves the object's line of classes
gives a null handle (`Fits`). An object's descriptors have identity and state (`heap`), so
that copies which share one can be told. An object has two maps, of properties and of methods,
which its defaulted copy constructor and assignment copy one after the other: a step for each
clone, any of which may throw, and a swap at the end of each map (`EndProperties`, `EndCopy`). So
a method that cannot be cloned leaves an object that was assigned to with the new properties and
its old methods; an object that was being made does not come to be. As `docs/vmeta.md` asks, one thread at a time uses an object.

**BlockingQueue.** The mutex is held from evaluating the predicate to falling asleep
(`"blocking"`), and `LockFree` guards who needs it. A stop token's source is set, and then
its callback runs, neither with the mutex.

## Runs

| Run | Bounds | States | Shows |
|---|---|---|---|
| `threadpool` | 1 caller, 2 tasks, 2 workers, 2 generations | 23 000 | `TypeOK`, `NoStrandedWaiter`, `NoLostWakeup`, `DrainedBeforeExit`, `StopDrains`, `ImplementsExecutor`, `AcceptedTasksFinish`, `GenerationRetires`, `StopsReturn` |
| `taskcore` | 3 threads (symmetric), awaits probe, work, result, event, post, 1 stop | 1 308 000 | `OneRunner`, `OneTicketEach`, `CallableKeepsFrame`, `CompletedIsQuiet` |
| `taskcore_live` | 2 threads, probe, result, work, 1 stop | 136 000 | `ClaimedResumes`, `StopCompletes` |
| `taskjoin` | 2 children with values, 2 threads, 2 stops | 148 000 | `JoinOutlivesChildren`, `FailurePropagates`, `FailureDrains` |
| `taskjoin_void` | the same without values | | **violates** `FailurePropagates`, see below |
| `taskgroup` | 3 tasks, one awaited by another, 1 caller, 1 loop, 2 stops, 1 join | 277 000 | `FinishedIsQuiet`, `ShutdownEnds` |
| `future` | 9 programs, 1 caller, 2 workers, 1 cancel | 82 000 | `OutcomeFollows`, `NoneForgotten`, `ChainSerialized`, `AllSettle` |
| `cache` | 2 keys, 2-bit integers, 2 loads, nesting 2 | 128 000 | `CacheContract` |
| `meta` | 5 classes, 9 conversions, 4 scenarios: 2 threads (symmetric) that register, or 1 thread with up to 2 objects, 2 properties, 1 method and 3 changes; values of 2 types (symmetric) | 196 000 | `ConversionsCompose`, `PublishedConverts`, `HandlesConvert`, `FindsWhatItLists`, `CopiesApart`, `AssignsWhole` |
| `blockingqueue` | 3 poppers, 4 pushes, 2 shutdowns, 1 copy that throws | 94 000 | `WakeupsSuffice`, `ShutdownReleases` |
| `eventloop` | 8 programs, 1 other thread, 1 nested run, 2 clock readings, 1 event | 468 000 | `BatchBudget`, `OneShot`, `ResetSilences` |
| `eventloop_live` | 2 programs, 1 other thread, 1 nested run | 53 000 | `TasksRun`, `TimersRun`, `AwaitsEnd` |

The type invariant of `TaskCore`, `TaskJoin`, `TaskGroup`, `Future` and `EventLoop` is the
first conjunct of a safety invariant of the module (`OneRunner`, `JoinOutlivesChildren`,
`FinishedIsQuiet`, `OutcomeFollows`, `BatchBudget`), so the runs check it too.

Deadlock is not checked: a pool, loop or task that nobody uses any more may stop.

### The bounds, and why they are enough

*ThreadPool.* Workers are agents too, so with one external caller up to five threads call
the pool. Two workers and two tasks give a sleeper, one on its way and a backlog of two; two
generations give a restart while the first drains and a worker of the old one that stops
the new. `MaxGen` also bounds how often the pool is started. That the first four properties
do not depend on the bounds is proved.

*TaskCore.* Three threads are the runner, a completer and a canceller; a fourth could only
be a second canceller. Each kind of await occurs once, so each meets the one before it and
after it. `MaxStops` bounds the stops: a second one finds the result settled and the token
stopped, and changes nothing; with `MaxStops = 2` the safety run has four million states,
takes a little more than five minutes and passes as well. The liveness run has the three
awaits that differ most: one that is cancelled only afterwards, one that completes inside
`await_suspend` or stays registered, and one that a pool may drop.

*TaskJoin.* Two children are the one that fails and the one that has to be stopped. Two
threads let a child end on one while the other runs the join, stops it or is inside its stop
callback; a child that ends while a third thread does so too only adds a second ending.

*TaskGroup.* Two tasks that can be spawned are the least that nest on a stack or let one be
erased while the other is stopped; the third gives a parent and a child. `MaxStops = 2` has
the group's stop meet a handle's. The caller is the second thread, on which stops and joins
run. The model also passes with two loops (one stop, two joins) and with a child's child.

*Future.* The programs contain each form once with each kind of source, among them a part
that occurs twice, a null part and no part. The caller and two workers are the threads; no
program has two joins, so one worker is free. The chain has three links: one that runs, one
that waits for it and one that is invoked by either. The safety properties also pass with a second
caller and a second cancel.

*EventLoop.* Programs have two items, the one that is running and the one that it registers,
resets or meets in a nested batch; the three tasks are one that pumps, one of its batch and
one that is posted. `MaxDepth = 1` allows a run of the loop inside a callback inside a run of the loop. A
deeper one repeats this relation. Times go up to `MaxTime`, and a timer is due at any of
them; frames, time and events are enabled only if the program has an item that can tell
(`Uses`). `runUntilIdle` is `runReady` several times in a row.

*Cache.* Four integers are the least for which the deadline and the difference overflow;
two loads let one nest in the other and be found by a third get. Any width is proved.
*Meta.* `A`, `B`, `C` are a line, so a handle of `C` reaches `A` by a path of two; `E` stands
beside `B` under its name, so that one of the two fails; `D` is malformed; the application's
conversion of `C` to `A` is a direct one beside the path. Six registrations are as many as the
classes make; those of the application count among them. A third thread could only add what one of the two
may add. Two objects are a source and a target of copies, and three changes are one member,
another, and a copy or an assignment of both: two properties, so that one throws after the other is
cloned, or a property and a method, so that the method throws after the properties are swapped in.
*BlockingQueue.* Three poppers are a sleeper, one on its way that throws and one that comes
without waiting; two shutdowns have a reset between them.

### Fairness

Threads that can run do (`WF` of each thread's next step): C++ requires it of the
implementation. Nothing is assumed of users: nobody has to call, cancel, start or stop.
The rest is listed with the formula:

- *ThreadPool*: `SF` for taking a queue's lock, as other threads may take it over and over, the
  handler of a failed start among them;
  tasks end. Spurious wake-ups happen but are never needed.
- *TaskCore*, *TaskJoin*: user code ends; a scheduler runs or drops what it accepted. No
  timer has to fire and no predicate to hold. In `TaskJoin` a child that was stopped ends,
  which is what `StopCompletes` shows of `TaskCore`.
- *TaskGroup*: user code ends or suspends; every ticket in a queue has its turn (`SF` of each:
  a loop may resume other tasks over and over). A body whose token is stopped may catch what each
  suspension throws at once and suspend again, but not for ever (`SF` of `EndsStopped`): the code
  cannot end it, and `docs/cpp-guidelines.md` calls cancellation cooperative. A join blocks a loop's thread only inside a
  task of the group: that the guidelines forbid it elsewhere is part of `Join`'s guard.
- *Future*: bodies return, workers run what is queued. A handler may still drop a body.
- *CallbackChain*: as `Future`; nobody has to invoke.
- *BlockingQueue*: `SF` for coming back from the wait, as others may take the mutex over and
  over. Spurious wake-ups are never needed.
- *EventLoop*: the application calls `runReady` again and again from outside callbacks, and
  a callback does not pump the loop for ever (`SF`: from time to time it returns).

## Proofs

Every theorem is about all values of the constants, under the named assumption of its
module. Most of the properties are not inductive; the inductive invariant of each module
(`Inv`) says besides why they hold. The proofs have one lemma per operation, a lemma that
splits a step on the actions, and a temporal step.

| Theorem | States | For all |
|---|---|---|
| `ThreadPoolProofs.TypesHold`, `NoneStranded`, `ExitsDrained`, `NoWakeupLost` | `TypeOK`, `NoStrandedWaiter`, `DrainedBeforeExit`, `NoLostWakeup` | callers, finite sets of tasks, workers, generations |
| `ThreadPoolProofs.StopsDrain`, `Refinement` | `StopDrains`, `ImplementsExecutor` | the same |
| `UtilityProofs.WakeupsEnough` | `WakeupsSuffice` | finite sets of poppers, pushes, shutdowns, throws |
| `TaskCoreProofs.RunsAlone`, `OneTicket`, `CallableSafe`, `Quiescence` | `OneRunner`, `OneTicketEach`, `CallableKeepsFrame`, `CompletedIsQuiet` | finite sets of threads, lists of awaits, schedulers, stops |
| `TaskJoinProofs.OutlivesChildren`, `NoFailureLost`, `NoRefusalLost` | `JoinOutlivesChildren`, `FailurePropagates` with values, what is left of it without | children, threads, schedulers, stops |
| `TaskGroupProofs.FinishedIsQuietAlways` | `FinishedIsQuiet` | threads, trees of tasks, stops, joins |
| `FutureProofs.OutcomesFollow`, `NothingForgotten`, `ChainInOrder` | `OutcomeFollows`, `NoneForgotten`, `ChainSerialized` | programs of futures, threads, handlers, cancels |
| `EventLoopProofs.BatchesEnd`, `RunsOnce`, `ResetsSilence` | `BatchBudget`, `OneShot`, `ResetSilences` | programs of registrations, other threads, depths, clocks, events |
| `UtilityProofs.ContractHolds` | `CacheContract` | keys, widths of an int, loads, nesting |
| `MetaProofs.RegistryComposesAlways`, `ConversionsComposeAlways` | `ConversionsCompose`, of the registry by itself and under reflection | finite sets of types, threads, conversions |
| `MetaProofs.PublishedConvertsAlways` | `PublishedConverts` | lines of classes that share names, threads |
| `MetaProofs.CopiesApartAlways`, `AssignsWholeAlways` | `CopiesApart`, `AssignsWhole` | objects, members, descriptors |
| `MetaProofs.FindsWhatItListsAlways` | `FindsWhatItLists` | lines of classes, declarations, members |
| `MetaProofs.HandlesConvertAlways` | `HandlesConvert`, if `OnLine` | the same, and conversions of the application |

### Assumptions

They describe what the code can be given: a process has finitely many threads, tasks and
poppers. `FutureAssumption` describes a program of futures: a future is made after those it
depends on, a body has no source, a continuation has one, `thenX` and `join` need a future
(`0` is a null one, which only `when_all` accepts). `ChainAssumption` says what a chain makes:
continuations only. `TaskGroupAssumption` numbers the tasks so that a task comes after the one that
awaits it, as the parent's body makes its child. `MetaAssumption` and `InheritanceAssumption` describe classes as the
compiler accepts them: one base at most, and a class is complete before another derives from
it, so any set of classes has one whose base is not in it. `ScenarioAssumption` is about how a
run of `Meta` may begin: what is built has its base built and a name of its own.

`OnLine` is a hypothesis of `HandlesConvertAlways` only, as it is about the application's own
conversions: they stay on the line of an object's classes, or come from types that share no
class with it. Without it the property is false of the code, which casts dynamically at each
converter of a shortest path: a shorter path through a type off the line would be taken, and
give a null handle. `MCMeta` states it of its instance (`ApplicationAssumption`). TLC
evaluates each assumption in the runs.

### The pool

`Inv` of `ThreadPoolProofs`:

- `BlockedOnEmpty`: a worker goes to sleep only after it saw its queue empty, under the lock;
- `TokensFollowShutdown`, `StoppersFollowShutdown`: a stop token is set only in a generation
  already shut, because `stop` shuts the queue before it asks the threads. So the
  notification of `request_stop`, which may be missed, is never the one that is needed;
- `OwnsCurrent`: the threads that a stop takes are of the generation that it shuts;
- `FutureIsFresh`: threads of generations to come do not exist, so no start resets a worker
  that is running; `CallersRun`: a worker inside a pool call holds its task.

`NoLostWakeup` is a counting argument on top of it: a push that finds sleepers moves one of
them to those on their way (`AcceptCovered`), a pop takes one task and one worker
(`TakeCovered`), and blocking or leaving needs an empty queue (`WaitingCovered`).

The second half of the module adds, each inductive over what was proved before:

- `HoldsLock`: while a start fails the pool is started, and nobody else is in a start that fails;
- `GenerationsInOrder`: when a generation is current all before it are shut and all after it
  are untouched, and no call is about a later one;
- `OwnsAll`: `stop` takes *all* threads that exist in its generation;
  `AcceptedIsSomewhere`: an accepted task is queued, held or finished.
  With `ExitsDrained` this is `StopDrains`: joined threads have left, so the queue was empty;
- `OnePlace`: a task is in the hands of one agent, in one position of one queue, or held by
  one worker. Without it a step of the pool could begin a task twice, which no executor does.

The refinement then goes step by step: a submit is `Issue`, a push that finds the
queue open is `Accept`, shutting is `Close`, a take is `Begin`, a task's end is `Finish`, and
anything else stutters.

### The queue

`WakeupsSuffice` is inductive with `BlocksOnEmpty`: who is about to sleep holds the mutex and
saw the queue empty. The argument counts poppers as `NoLostWakeup` counts workers, but a copy
that throws spends a wake-up and leaves its item, which the count carries along.

### One coroutine

All four safety properties of `TaskCore` come out of one invariant, as they need each other: a
second ticket would run the coroutine twice, and two runners could claim twice.

- `OneRuns`: of all calls on all stacks at most one runs the coroutine, and what it may rely on
  at its step (`Runs`): `running` is its mark, `awaiting` is 0 unless it is about to wake;
- `TicketsMatch`: the number of tickets of an operation, counted over stacks, queues and the
  resumption that is put off by `resumePending`, is one if it is claimed and awaited, else none;
- `Registered`, `Unused`: a hook or a registration belongs to the await in progress, or to one
  that outlives it harmlessly (its operation is claimed), and later awaits have nothing;
- `Operate`: a callable that runs is alone, unclaimed, and no other call may complete its
  operation: this is why a stop has to leave it its frame.

The lemmas under "Stacks" are about stacks only: how the calls, and the number of calls of a
kind, change when the innermost one is replaced.

### whenAll

`Good` says what each call on a stack knows: a join that has reached child `k` has seen all
before it complete. `OneTurn` is that one call at most is the join's own, and none while it
rests; `Nested`, that a refusal is reported before the join goes on, on the same thread, and
that a result is set before `finish`; `Values`, that once a value is on its way to be the
result nothing can fail any more. `FailurePropagates` is proved for `~Void` only, as it is
false for `Void` (see the finding); `NoRefusalLost` is the part that holds for both.

### Groups and nested tasks

`GroupInv` of `TaskGroupProofs`:

- `Good`: a call that carries a task on has it in the phase that the call is about; while the
  task awaits a child it is started, left or woken, never in its body; who tells a parent of its
  child's end finds the child completed, and the parent waiting and not told yet;
- `Apart`: of two calls in progress, on whatever stacks, at most one carries a task on, and at
  most one tells it; a frame is destroyed by a call right above the one that then completes the
  task. So a task has one `execution_scope`, which is what `OwnsCurrentExecution` builds on;
- `Fits`: what awaits a task that is neither lazy nor completed does await that task, and is itself
  running, awaiting or queued. This is the step of the argument up `line`;
- `Kin`: what a spawn erased from the group was completed.

A step replaces calls by others: `Keeps` says what it has to show, first that the calls that stay
are as good as before (`Spares`), then that the new ones get along with them (`Adds`).
`FinishedIsQuiet` follows with the least task of which it would be false: its parent would be
another one. Stops do not occur in the argument: whatever they interrupt goes on as a
suspended task does.

### Futures and chains

`FutureProofs` is about `CallbackChain`, of which a program without a chain is a case.

- `Good`: a call carries on what its source came to: a callback has the source's state and
  cause, a settlement with a value has values in all sources;
- `Bodies`: the body of a future is on its way once, as a call or in a handler's queue, and not
  after it has begun;
- `Parts`: each part of a `when_all`, or source of a continuation, is told once, by a call or by
  a continuation, never by both, and `remaining` is the number of slots that are empty. The
  same future may occur in several parts, so the parts are told apart by their index;
- `Linked`, for chains without nested invocations: the links that exist are an initial segment,
  each is the continuation of the one before, and the only one beyond `tail` is that whose
  `Store` is still to come. Values spread downwards: a link with a value has them below it.

### The event loop

- `Numbered`: as many ids were given as there are registrations, and queues hold only what
  is registered. So a new id is beyond the limit of every batch, which is why `Good` may say
  of a limit that whatever is numbered up to it (or, for timers, below it) was there before
  the batch, and keeps saying so while callbacks and other threads register;
- `Nested` is about neighbours on the stack: what a batch has called is in its `before`
  (this is `BatchBudget`), a predicate or a claim is right above the mark of its evaluation;
- `Alone`: an item is marked once, and fires once, however deep the loop is pumped. With
  `Nested`, a condition that is claimed has no other predicate or claim below it;
- `Once`: what still waits (in a queue, with a thread that has numbered it, taken but not
  begun, being evaluated) has not begun, and a condition that began is cancelled.

`ResetSilences` then goes action by action: whatever begins was seen without its flag in the
same step, or is a task, which has none.

### The cache

`ValidIsWithin` shows that the comparison in unsigned arithmetic is exact for all ticks that
fit an int (`Remainder` and `Wraps` are the two facts about `%` it needs). `EntriesTell` adds
that the map holds what was loaded and never refused, `RefusedAreOld` that a new value cannot
have been, `GetsHadTo` that each get in progress had nothing valid.

### The registry and reflection

*Searching.* `path` copies nothing and sees one registry, so its invariant (`Searching`) is that
of a breadth-first search whose neighbours come in any order. `Queued`: an item of the queue has
a chain of converters that leads to it, no shorter one exists, and the lengths in the queue
grow, by one at most. `Covered`: everything as near to the source as the head is was visited,
and what was visited is in the queue or all its neighbours were visited. So a target is found by
a shortest chain, and an empty queue means that nothing leads there. `Reached`, the reference, is
a recursive function on the length; that it satisfies its equation is shown by writing down what
it computes (the ends of walks), and a statement about all lengths by a least counterexample.

*Building.* `BuildInv`: a class is built by one call at a time, and those that wait for a base are
beneath it on the same stack (`OneBuilder`); how far a call is tells which conversions are
registered (`Progresses`); a class that is built, or whose name is taken, has its base built and
its conversions registered (`BuiltIsReady`, `IndexIsReady`). The name comes last in `BuildOrder`,
and this is where it matters. `PublishedConverts` follows along the line by the class nearest to
the root that lacks a conversion.

*Copying.* `ObjectInv`: while a copy is being made nobody else uses an object (`OneCopy`), and each
clone made so far is like its original and in a descriptor that no object has (`Faithful`). For
the next clone there has to be a descriptor that is free: objects and the copy together
have fewer than there are (lemma `Room`, a count of images of finite sets). When the methods' turn
comes the properties are already the original's (`Faithful` again). `AssignsWhole` is an action
property, and is about each map: it is exchanged in one step, which does not throw, after all its
clones were made; of both maps it says in which order.

*Finding.* `Find` climbs from a class to the first that declares the member, `Collect` lists a line
from its root and lets the more derived class win. Both are recursive functions; the proof
gives their closed forms (`Line` is the classes above ordered by `Depth`, `Find` gives the nearest
`Declarer`, `Collect` after `i` classes is `Walk`) and shows these equal.

*Converting.* `AsksInv`: a search between two classes of an object reaches only classes of its line,
or classes derived from these that it came to by their base (`OnWay`), so a chain that ends on the
line never left it. That a class is ready was true when the call began and stays true, as
conversions are never removed.

### Only model-checked

Every safety property that a passing run checks is proved. What is left:

- Liveness, which is out of the prover's reach, as is `ENABLED`: `AcceptedTasksFinish`,
  `GenerationRetires`, `StopsReturn`, `ClaimedResumes`, `StopCompletes`, `FailureDrains`,
  `ShutdownEnds`, `AllSettle`, `ShutdownReleases`, `TasksRun`, `TimersRun`, `AwaitsEnd`.
- `FailurePropagates` for `Void`: TLC finds it violated (see the finding), so there is nothing to prove.

## The finding

`docs/cpp-guidelines.md` (lines 102-103): *"The first child failure requests cancellation of
all remaining children, and the join waits for every child's execution to finish before
propagating the error."* `taskjoin_void` shows a `whenAll<void>` that returns success
although a child was cancelled. `state_base::requestStop` (`vtask.h` 197-212) settles the
child and takes its callbacks out, then stops its token, and runs the callbacks last. The
child may end on its stop token (inline or on another thread) and complete; the join that
waits for it resumes, finds `joined->error` empty (1299-1305) and returns. The callback that
would have failed the join runs afterwards. With values the same interleaving is harmless:
`handle.get()` of the cancelled child throws, and `FailurePropagates` holds in `taskjoin`.

## Limits that the models show

Exclusions in the properties, with what the code does there.

- `chain`: when the handler runs a callback inside `invoke_async` and the callback invokes the
  chain, the new link hangs on the future that is still stored, beside the running one, and
  the outer assignment then drops it from the chain. The repository's `README.md` (113-115) says
  that a chain "ensures callback execution order" without this exception; the later-handler
  of `tests/vfuture_regressions.cpp` runs inline. `ChainSerialized` says "unless `nested`".
- `blocking_queue::pop`: the stop callback notifies without the mutex, so a stop between the
  check of the predicate and the sleep is lost; `ShutdownReleases` therefore speaks of
  shutdown. A copy that throws in `pop` spends a wake-up: its item stays, perhaps beside a
  sleeper. `WakeupsSuffice` counts these.
- Assigning to a reflected object is all or nothing for each of its two maps, not for both
  (`vmeta.h` 128-133, 800, 809): `AssignsWhole` lets an object have the original's properties with
  its own methods after a method's clone threw. No document promises more.
- `HandlesConvert` is proved, and checked, for conversions of the application that stay on an
  object's line (`OnLine`); off it a shorter path gives a null handle (see Assumptions).
- `join` of futures blocks a worker: `AllSettle` needs more workers than joins.
- A reset of a loop's connection by another thread than the loop's does not stop a callback
  that is about to be called; `ResetSilences` is about the loop's thread.

## Not modelled, and why

`PROJECT.json` has a row for each component. Of `vmeta.h`, the conversion of arguments and
values (`meta_argument`, `any_cast` of results) and return types are left out: they have no
state. Of `vtask.h`, the blocking `get`, which waits as `join` does. Besides: memory orders weaker than sequential
consistency (the atomics that are relaxed guard nothing but themselves), lifetimes of C++
objects except the coroutine frame and the callable a worker holds, allocation failures
except the creation of threads, and wording. The hazards without a property say why.

## Plan

1. The nested invocation of a chain as a run of its own; two pools that stop each other.
2. The blocking `get` of a task beside the joins of `TaskGroup`.
