----------------------------- MODULE EventLoop -----------------------------
(***************************************************************************)
(* veventloop.h: posted tasks, conditions, timers, and frame and event     *)
(* callbacks, run by the loop's own thread and registered by any thread.   *)
(* A callback may pump the loop it is run by, so batches nest: the loop    *)
(* thread has a stack of calls, innermost first.  SDL is external: a queue *)
(* of events that may refuse one more.                                     *)
(***************************************************************************)
EXTENDS Naturals, Sequences, FiniteSets

CONSTANTS Programs,   \* what may be registered, each a sequence of kinds
          Posters,    \* threads other than the loop's
          MaxDepth,   \* bound: nested runs of the loop
          MaxTime,    \* bound: readings of the clock
          MaxEvents   \* bound: events from outside

Kinds == {"task", "condition", "timer", "frame", "event"}

ASSUME EventLoopAssumption ==
    /\ \A program \in Programs : program \in Seq(Kinds)
    /\ {MaxDepth, MaxTime, MaxEvents} \subseteq Nat

VARIABLES
    program,
    id,            \* [Items -> the id it was given, or 0]
    nextId,        \* nextPostedTaskId for tasks, nextId for the others
    due,           \* [Items -> when a timer is due]
    taskQueue, conditionalQueue, frameCallbackList, eventCallbackList,
    delays,        \* delayed_state::queue, ordered by due and id
    evaluating,    \* conditions whose predicate or action is running
    cancelled,     \* items whose cancelled flag is set
    wakePending, quit,
    clock,         \* steady_clock
    events,        \* SDL's queue
    sent,          \* history: events from outside
    began,         \* history: [Items -> how often it began, up to 2], one-shot items
    silenced,      \* history: items whose connection the loop's thread has reset
    awaited,       \* [Posters -> the task whose end it awaits, or 0]
    finished,      \* tasks that have returned
    remote,        \* [Posters -> the call it is in]
    stack          \* the loop's thread

registry == <<id, nextId, due>>
queues == <<taskQueue, conditionalQueue, frameCallbackList, eventCallbackList, delays>>
flags == <<evaluating, cancelled>>
sdl == <<wakePending, quit, events, sent>>
history == <<began, silenced>>
posters == <<awaited, remote>>
vars == <<program, registry, queues, flags, sdl, clock, history, posters, finished, stack>>

Items == DOMAIN program
Is(i, kind) == program[i] = kind

\* Bound: frames run, time goes by and events come only where some item can tell.
Uses(kinds) == \E i \in Items : program[i] \in kinds

OneShots == {"task", "condition", "timer"}

\* A call of the loop's thread: the item it is for, the rest of its snapshot, the
\* limits of its batch, and (history) the items registered before its batch.
Call(op, i, list, now, limit, before) ==
    [op |-> op, item |-> i, list |-> list, now |-> now, limit |-> limit, before |-> before]
At(op) == Call(op, 0, <<>>, 0, 0, {})
For(op, i) == Call(op, i, <<>>, 0, 0, {})
In(op) == stack # <<>> /\ Head(stack).op = op
Top == Head(stack)
Enter(calls) == stack' = calls \o stack
Become(calls) == stack' = calls \o Tail(stack)
Return == Become(<<>>)
Registered == {i \in Items : id[i] # 0}

\* An item is in a list once, as it has an id of its own.
Has(list, i) == \E k \in DOMAIN list : list[k] = i
Without(list, i) ==
    LET k == CHOOSE k \in DOMAIN list : list[k] = i
    IN IF Has(list, i) THEN SubSeq(list, 1, k - 1) \o SubSeq(list, k + 1, Len(list)) ELSE list

\* The application's code, which calls the loop, registers and resets: what runs
\* the loop, and callbacks and predicates.
UserCode == stack = <<>> \/ In("callback") \/ In("predicate")
Depth == Cardinality({d \in DOMAIN stack : stack[d].op \in {"callback", "predicate"}})

Init ==
    /\ program \in Programs
    /\ id = [i \in Items |-> 0] /\ due = [i \in Items |-> 0] /\ nextId = 1
    /\ taskQueue = <<>> /\ conditionalQueue = <<>> /\ frameCallbackList = <<>>
    /\ eventCallbackList = <<>> /\ delays = {}
    /\ evaluating = {} /\ cancelled = {}
    /\ wakePending = FALSE /\ quit = FALSE /\ clock = 0
    /\ events = <<>> /\ sent = 0
    /\ began = [i \in Items |-> 0] /\ silenced = {} /\ finished = {}
    /\ awaited = [p \in Posters |-> 0]
    /\ remote = [p \in Posters |-> At("idle")]
    /\ stack = <<>>

-----------------------------------------------------------------------------
(* Registering, by any thread: an id, the queue under its lock, the wake.  *)

\* invoke takes the id under the lock of the queue; the others before theirs,
\* scheduleAfter also the time the timer is due.
Number(i) ==
    /\ id[i] = 0
    /\ id' = [id EXCEPT ![i] = nextId]
    /\ nextId' = nextId + 1
    /\ IF Is(i, "timer") THEN \E d \in clock .. MaxTime : due' = [due EXCEPT ![i] = d] ELSE UNCHANGED due

Queue(i) ==
    /\ taskQueue' = IF Is(i, "task") THEN Append(taskQueue, i) ELSE taskQueue
    /\ conditionalQueue' = IF Is(i, "condition") THEN Append(conditionalQueue, i) ELSE conditionalQueue
    /\ frameCallbackList' = IF Is(i, "frame") THEN Append(frameCallbackList, i) ELSE frameCallbackList
    /\ eventCallbackList' = IF Is(i, "event") THEN Append(eventCallbackList, i) ELSE eventCallbackList
    /\ delays' = IF Is(i, "timer") THEN delays \cup {i} ELSE delays

\* wake: one event until a drain clears the flag; SDL may refuse it.
Wake(i) ==
    \/ /\ wakePending \/ program[i] \in {"frame", "event"}
       /\ UNCHANGED <<wakePending, events>>
    \/ /\ ~wakePending /\ program[i] \in OneShots
       /\ \/ wakePending' = TRUE /\ events' = Append(events, "wake")
          \/ UNCHANGED <<wakePending, events>>

\* The loop's thread registers and wakes itself in one go: it shares ids and SDL
\* with others, but nothing it does in between is theirs to see.
Register(i) ==
    /\ UserCode
    /\ Number(i) /\ Queue(i) /\ Wake(i)
    /\ UNCHANGED <<program, flags, quit, sent, clock, history, posters, finished, stack>>

\* Another thread: its steps interleave with the loop's.
Doing(p, op) == remote[p].op = op
Turn(p, op, i) == remote' = [remote EXCEPT ![p] = For(op, i)]

Post(p, i) ==
    /\ Doing(p, "idle") /\ Is(i, "task")
    /\ Number(i) /\ Queue(i)
    /\ Turn(p, "wake", i)
    /\ \/ UNCHANGED awaited
       \/ awaited' = [awaited EXCEPT ![p] = i]
    /\ UNCHANGED <<program, flags, sdl, clock, history, finished, stack>>

Schedule(p, i) ==
    /\ Doing(p, "idle") /\ ~Is(i, "task")
    /\ Number(i)
    /\ Turn(p, "insert", i)
    /\ UNCHANGED <<program, queues, flags, sdl, clock, history, awaited, finished, stack>>

Insert(p) ==
    /\ Doing(p, "insert")
    /\ Queue(remote[p].item)
    /\ Turn(p, "wake", remote[p].item)
    /\ UNCHANGED <<program, registry, flags, sdl, clock, history, awaited, finished, stack>>

WakeLoop(p) ==
    /\ Doing(p, "wake")
    /\ Wake(remote[p].item)
    /\ Turn(p, IF awaited[p] = 0 THEN "idle" ELSE "await", awaited[p])
    /\ UNCHANGED <<program, registry, queues, flags, quit, sent, clock, history, awaited, finished, stack>>

\* await returns when the function it posted has.
AwaitReturns(p) ==
    /\ Doing(p, "await") /\ remote[p].item \in finished
    /\ Turn(p, "idle", 0)
    /\ awaited' = [awaited EXCEPT ![p] = 0]
    /\ UNCHANGED <<program, registry, queues, flags, sdl, clock, history, finished, stack>>

-----------------------------------------------------------------------------
(* connection::reset: the flag, and then the registration, except that a   *)
(* condition is left for the loop to remove.                               *)

Inserted(i) == i \in Registered /\ \A p \in Posters : remote[p].op \in {"insert", "wake"} => remote[p].item # i

Unregister(i) ==
    /\ delays' = delays \ {i}
    /\ frameCallbackList' = Without(frameCallbackList, i)
    /\ eventCallbackList' = Without(eventCallbackList, i)
    /\ UNCHANGED <<taskQueue, conditionalQueue>>

Reset(i) ==
    /\ UserCode /\ ~Is(i, "task") /\ Inserted(i) /\ i \notin silenced
    /\ cancelled' = cancelled \cup {i}
    /\ Unregister(i)
    /\ silenced' = silenced \cup {i}
    /\ UNCHANGED <<program, registry, evaluating, sdl, clock, began, posters, finished, stack>>

ResetRemote(p, i) ==
    /\ Doing(p, "idle") /\ ~Is(i, "task") /\ Inserted(i) /\ i \notin cancelled
    /\ cancelled' = cancelled \cup {i}
    /\ Turn(p, "unregister", i)
    /\ UNCHANGED <<program, registry, queues, evaluating, sdl, clock, history, awaited, finished, stack>>

UnregisterRemote(p) ==
    /\ Doing(p, "unregister")
    /\ Unregister(remote[p].item)
    /\ Turn(p, "idle", 0)
    /\ UNCHANGED <<program, registry, flags, sdl, clock, history, awaited, finished, stack>>


-----------------------------------------------------------------------------
(* Running the loop.  runReady is one batch of each; runFrame adds the     *)
(* frame callbacks; runUntilIdle is runReady several times.                *)

CanPump == UserCode /\ Depth <= MaxDepth

RunPostedTasks ==
    /\ CanPump
    /\ Enter(<<At("drain")>>)
    /\ UNCHANGED <<program, registry, queues, flags, sdl, clock, history, posters, finished>>

RunReady ==
    /\ CanPump
    /\ Enter(<<At("drain"), At("poll"), At("conditions"), At("delays")>>)
    /\ UNCHANGED <<program, registry, queues, flags, sdl, clock, history, posters, finished>>

RunFrame ==
    /\ CanPump /\ Uses({"frame"})
    /\ Enter(<<At("drain"), At("poll"), At("conditions"), At("delays"), At("frame")>>)
    /\ UNCHANGED <<program, registry, queues, flags, sdl, clock, history, posters, finished>>

\* What begins: one-shot items are counted.
Begin(i) == began' = IF program[i] \in OneShots THEN [began EXCEPT ![i] = IF @ = 2 THEN 2 ELSE @ + 1] ELSE began

\* drainPostedTasks, up to the last task of now.
Drain ==
    /\ In("drain")
    /\ Become(IF taskQueue = <<>> THEN <<>>
              ELSE <<Call("clearWake", 0, <<>>, 0, id[taskQueue[Len(taskQueue)]], Registered)>>)
    /\ UNCHANGED <<program, registry, queues, flags, sdl, clock, history, posters, finished>>

ClearWake ==
    /\ In("clearWake")
    /\ wakePending' = FALSE
    /\ Become(<<[Top EXCEPT !.op = "draining"]>>)
    /\ UNCHANGED <<program, registry, queues, flags, quit, events, sent, clock, history, posters, finished>>

\* Mutant: the drain goes on until the queue is empty.
DrainsAll(last) == taskQueue = <<>>

\* Mutant: the drain leaves the last task of now.
StopsBeforeLast(last) == taskQueue # <<>> => id[Head(taskQueue)] >= last

Drained(last) == taskQueue # <<>> => id[Head(taskQueue)] > last

RunTask ==
    /\ In("draining")
    /\ \/ /\ Drained(Top.limit)
          /\ Return
          /\ UNCHANGED <<taskQueue, began>>
       \/ /\ ~Drained(Top.limit)
          /\ taskQueue' = Tail(taskQueue)
          /\ Begin(Head(taskQueue))
          /\ Enter(<<For("callback", Head(taskQueue))>>)
    /\ UNCHANGED <<program, registry, conditionalQueue, frameCallbackList, eventCallbackList, delays,
                   flags, sdl, clock, silenced, posters, finished>>

\* pollEvents: an event of the application's goes to a snapshot of callbacks.
Poll ==
    /\ In("poll")
    /\ \/ /\ events = <<>>
          /\ Return
          /\ UNCHANGED <<events, quit>>
       \/ /\ events # <<>>
          /\ events' = Tail(events)
          /\ quit' = (quit \/ Head(events) = "quit")
          /\ IF Head(events) = "user"
             THEN Enter(<<Call("dispatch", 0, eventCallbackList, 0, 0, Registered)>>)
             ELSE UNCHANGED stack
    /\ UNCHANGED <<program, registry, queues, flags, wakePending, sent, clock, history, posters, finished>>

\* The frame phase, unless the application is to quit.
Frame ==
    /\ In("frame")
    /\ Become(IF quit THEN <<>> ELSE <<Call("dispatch", 0, frameCallbackList, 0, 0, Registered)>>)
    /\ UNCHANGED <<program, registry, queues, flags, sdl, clock, history, posters, finished>>

Skipped(i) == i \in cancelled

\* The next callback of a snapshot.
Dispatch ==
    /\ In("dispatch")
    /\ LET rest == [Top EXCEPT !.list = Tail(@)]
           i == Head(Top.list)
       IN Become(IF Top.list = <<>> THEN <<>>
                 ELSE IF Skipped(i) THEN <<rest>>
                 ELSE <<For("callback", i), rest>>)
    /\ UNCHANGED <<program, registry, queues, flags, sdl, clock, history, posters, finished>>

\* processConditions: the next condition of a snapshot.
Conditions ==
    /\ In("conditions")
    /\ Become(<<Call("evaluate", 0, conditionalQueue, 0, 0, Registered)>>)
    /\ UNCHANGED <<program, registry, queues, flags, sdl, clock, history, posters, finished>>

Busy(i) == i \in evaluating

Evaluate ==
    /\ In("evaluate")
    /\ LET rest == [Top EXCEPT !.list = Tail(@)]
           i == Head(Top.list)
       IN \/ /\ Top.list = <<>>
             /\ Return
             /\ UNCHANGED <<conditionalQueue, evaluating>>
          \/ /\ Top.list # <<>> /\ Skipped(i)
             /\ conditionalQueue' = Without(conditionalQueue, i)
             /\ Become(<<rest>>)
             /\ UNCHANGED evaluating
          \/ /\ Top.list # <<>> /\ ~Skipped(i) /\ Busy(i)
             /\ Become(<<rest>>)
             /\ UNCHANGED <<conditionalQueue, evaluating>>
          \/ /\ Top.list # <<>> /\ ~Skipped(i) /\ ~Busy(i)
             /\ evaluating' = evaluating \cup {i}
             /\ Become(<<For("predicate", i), For("evaluated", i), rest>>)
             /\ UNCHANGED conditionalQueue
    /\ UNCHANGED <<program, registry, taskQueue, frameCallbackList, eventCallbackList, delays,
                   cancelled, sdl, clock, history, posters, finished>>

\* The predicate holds, or does not, or throws, which counts as not.
PredicateReturns ==
    /\ In("predicate")
    /\ \/ Become(<<For("claim", Top.item)>>)
       \/ Return
    /\ UNCHANGED <<program, registry, queues, flags, sdl, clock, history, posters, finished>>

\* Mutant: a condition that holds is run without claiming its flag.
ClaimsAlways(i) == TRUE

MayClaim(i) == i \notin cancelled /\ Has(conditionalQueue, i)

Claim ==
    /\ In("claim")
    /\ LET i == Top.item IN
       /\ conditionalQueue' = Without(conditionalQueue, i)
       /\ IF MayClaim(i)
          THEN cancelled' = cancelled \cup {i} /\ Begin(i) /\ Become(<<For("callback", i)>>)
          ELSE Return /\ UNCHANGED <<cancelled, began>>
    /\ UNCHANGED <<program, registry, taskQueue, frameCallbackList, eventCallbackList, delays,
                   evaluating, sdl, clock, silenced, posters, finished>>

Released(i) == evaluating \ {i}

Evaluated ==
    /\ In("evaluated")
    /\ LET i == Top.item IN
       /\ conditionalQueue' = IF i \in cancelled THEN Without(conditionalQueue, i) ELSE conditionalQueue
       /\ evaluating' = Released(i)
    /\ Return
    /\ UNCHANGED <<program, registry, taskQueue, frameCallbackList, eventCallbackList, delays,
                   cancelled, sdl, clock, history, posters, finished>>

\* processDelays: what was due when it began, and was numbered before.
Delays ==
    /\ In("delays")
    /\ Become(<<Call("limit", 0, <<>>, clock, 0, {})>>)
    /\ UNCHANGED <<program, registry, queues, flags, sdl, clock, history, posters, finished>>

Limit ==
    /\ In("limit")
    /\ Become(<<Call("delaying", 0, <<>>, Top.now, nextId, Registered)>>)
    /\ UNCHANGED <<program, registry, queues, flags, sdl, clock, history, posters, finished>>

Earlier(i, j) == due[i] < due[j] \/ (due[i] = due[j] /\ id[i] <= id[j])
First(i) == i \in delays /\ \A j \in delays : Earlier(i, j)

\* Mutant: the newest timer is not of the batch.
LeavesNewest(i) == due[i] <= Top.now /\ id[i] + 1 < Top.limit

InBatch(i) == due[i] <= Top.now /\ id[i] < Top.limit

\* Mutant: a timer stays in the queue while it runs.
Peeked(i) == delays

Taken(i) == delays \ {i}

RunTimer ==
    /\ In("delaying")
    /\ \/ /\ \A i \in delays : First(i) => ~InBatch(i)
          /\ Return
          /\ UNCHANGED delays
       \/ \E i \in delays :
             /\ First(i) /\ InBatch(i)
             /\ delays' = Taken(i)
             /\ Enter(<<For("fire", i)>>)
    /\ UNCHANGED <<program, registry, taskQueue, conditionalQueue, frameCallbackList, eventCallbackList,
                   flags, sdl, clock, history, posters, finished>>

\* The flag once more: it may have been set since the timer was taken.
Fire ==
    /\ In("fire")
    /\ IF Skipped(Top.item)
       THEN Return /\ UNCHANGED began
       ELSE Become(<<For("callback", Top.item)>>) /\ Begin(Top.item)
    /\ UNCHANGED <<program, registry, queues, flags, sdl, clock, silenced, posters, finished>>

\* Mutant: nobody is told that a task ended.
TellsNobody(i) == finished

Completed(i) == IF Is(i, "task") THEN finished \cup {i} ELSE finished

\* A callback returns or throws, which safeInvoke reports; an event callback may
\* have handled the event, and then the others of its snapshot are left out.
CallbackReturns ==
    /\ In("callback")
    /\ \/ Return
       \/ Is(Top.item, "event") /\ stack' = Tail(Tail(stack))
    /\ finished' = Completed(Top.item)
    /\ UNCHANGED <<program, registry, queues, flags, sdl, clock, history, posters>>

-----------------------------------------------------------------------------
Tick ==
    /\ Uses({"timer"}) /\ clock < MaxTime
    /\ clock' = clock + 1
    /\ UNCHANGED <<program, registry, queues, flags, sdl, history, posters, finished, stack>>

Send ==
    /\ Uses({"frame", "event"}) /\ sent < MaxEvents
    /\ sent' = sent + 1
    /\ \E event \in {"quit", "user"} : events' = Append(events, event)
    /\ UNCHANGED <<program, registry, queues, flags, wakePending, quit, clock, history, posters, finished, stack>>

\* The loop's thread goes on with the call it is in.
Continue ==
    \/ Drain \/ ClearWake \/ RunTask \/ Poll \/ Frame \/ Dispatch \/ Conditions \/ Evaluate
    \/ Claim \/ Evaluated \/ Delays \/ Limit \/ RunTimer \/ Fire
    \/ PredicateReturns \/ CallbackReturns

RemoteContinue(p) == Insert(p) \/ WakeLoop(p) \/ AwaitReturns(p) \/ UnregisterRemote(p)

Next ==
    \/ Continue \/ RunPostedTasks \/ RunReady \/ RunFrame \/ Tick \/ Send
    \/ \E i \in Items : Register(i) \/ Reset(i)
    \/ \E p \in Posters : RemoteContinue(p) \/ \E i \in Items : Post(p, i) \/ Schedule(p, i) \/ ResetRemote(p, i)

\* The application runs the loop again and again, time goes by, and callbacks
\* end, also those that pump the loop for a while.
MainReady == stack = <<>> /\ RunReady
OuterEnds == Depth = 1 /\ (PredicateReturns \/ CallbackReturns)
Fairness ==
    /\ WF_vars(Continue) /\ SF_vars(MainReady) /\ WF_vars(Tick) /\ SF_vars(OuterEnds)
    /\ \A p \in Posters : WF_vars(RemoteContinue(p))

Safe == Init /\ [][Next]_vars
Spec == Safe /\ Fairness

-----------------------------------------------------------------------------
(* Properties.                                                             *)

Ops == {"drain", "clearWake", "draining", "poll", "conditions", "evaluate", "predicate", "claim", "evaluated",
        "delays", "limit", "delaying", "fire", "callback", "frame", "dispatch"}

Calls(op, i) == {d \in DOMAIN stack : stack[d].op = op /\ stack[d].item = i}

\* Every variable keeps the type of the member it stands for; an item waits in the
\* queue of its kind only.
Members ==
    /\ program \in Programs /\ id \in [Items -> 0 .. Len(program)] /\ nextId \in 1 .. Len(program) + 1
    /\ due \in [Items -> 0 .. MaxTime] /\ clock \in 0 .. MaxTime
    /\ taskQueue \in Seq({i \in Items : Is(i, "task")})
    /\ conditionalQueue \in Seq({i \in Items : Is(i, "condition")})
    /\ frameCallbackList \in Seq({i \in Items : Is(i, "frame")})
    /\ eventCallbackList \in Seq({i \in Items : Is(i, "event")})
    /\ delays \subseteq {i \in Items : Is(i, "timer")}
    /\ silenced \subseteq cancelled /\ cancelled \subseteq Registered
    /\ {wakePending, quit} \subseteq BOOLEAN /\ events \in Seq({"wake", "quit", "user"})
    /\ sent \in 0 .. MaxEvents /\ began \in [Items -> 0 .. 2] /\ finished \subseteq Items
    /\ awaited \in [Posters -> 0 .. Len(program)]
    /\ \A d \in DOMAIN stack : stack[d].op \in Ops

\* A condition is marked as evaluating exactly while the loop is inside its
\* evaluation, whatever it throws, pumps or resets.
TypeOK == Members /\ evaluating = {i \in Items : Calls("evaluated", i) # {}}

\* docs/cpp-guidelines.md: "Posting during a queue snapshot waits for a later
\* snapshot", and the same for the timers, conditions and callbacks that are
\* registered while a batch of them runs: a batch runs what was there before it,
\* however deep it is nested, and so it ends.  (The types come with it.)
BatchBudget == TypeOK /\ \A d \in DOMAIN stack :
    d > 1 /\ stack[d].op \in {"draining", "delaying", "evaluate", "dispatch"}
      /\ stack[d - 1].op \in {"callback", "evaluated", "fire"}
      => stack[d - 1].item \in stack[d].before

\* Posted tasks, timers and conditions run at most once, although a callback may
\* pump the loop while the batch that holds it is not over.
\* tests/vruntime_regressions.cpp: a predicate that pumps the loop is not entered
\* again, and one whose condition was met in a nested batch is not evaluated from
\* the outer snapshot.
OneShot == \A i \in Items :
    /\ began[i] <= 1
    /\ Calls("predicate", i) # {} => began[i] = 0 /\ Cardinality(Calls("predicate", i)) = 1

\* After the loop's thread has reset a connection nothing of it begins any more:
\* no callback, not even one of a snapshot taken before, and no predicate, and a
\* predicate that resets its own condition does not get its action.
ResetSilences ==
    [][/\ stack' # <<>> /\ stack' # stack /\ Len(stack') >= Len(stack)
       /\ Head(stack').op \in {"callback", "predicate"}
       => Head(stack').item \notin silenced]_vars

Indices == UNION {DOMAIN p : p \in Programs}

\* What was posted runs, although the loop is pumped from callbacks, and
\* whichever thread posted it.
TasksRun == \A i \in Indices : (i \in Registered /\ Is(i, "task")) ~> (i \in Items /\ began[i] > 0)

\* A timer runs in the end unless it was reset.
TimersRun == \A i \in Indices : (i \in Registered /\ Is(i, "timer")) ~> (i \in cancelled \/ (i \in Items /\ began[i] > 0))

\* A thread that awaits a function goes on once the loop has run it.
AwaitsEnd == \A p \in Posters : awaited[p] # 0 ~> awaited[p] = 0
=============================================================================
