------------------------------ MODULE TaskJoin ------------------------------
(***************************************************************************)
(* vtask.h whenAll: a coroutine that joins the tasks of its handles.  The  *)
(* children and the join run on any thread and nest: a child that completes*)
(* may resume the join inline, and the join's `fail` stops other children, *)
(* which may end inline.  Each thread has a stack of calls, innermost      *)
(* first.  What TaskCore says of one coroutine is taken here for granted:  *)
(* the join is resumed once per suspension and by one thread.              *)
(***************************************************************************)
EXTENDS Naturals, Sequences, FiniteSets

CONSTANTS Threads,
          N,           \* the number of handles
          Void,        \* whenAll<void>, which has no values to collect
          Schedulers,  \* what dispatching the join may do
          MaxStops     \* bound: how many requestStops come from outside

Children == 1 .. N

ASSUME TaskJoinAssumption ==
    /\ N \in Nat \ {0} /\ MaxStops \in Nat /\ Void \in BOOLEAN
    /\ Schedulers \subseteq {"inline", "queue", "reject"}

VARIABLES
    settled,      \* [Children -> "no" or the result]
    stopped,      \* [Children -> BOOLEAN], the stop token of each
    ended,        \* [Children -> BOOLEAN], the body is on its way out
    completed,    \* [Children -> BOOLEAN]
    subscribed,   \* [Children -> BOOLEAN], whenAll's onReady callback is registered
    joinError,    \* join_state::error
    started,      \* "no", "yes", or "skipped" if it was stopped before
    waiting,      \* the child whose completion will resume the join, or 0
    queued,       \* the child whose completion has a ticket in a queue, or 0
    hook,         \* the join's stop_callback: "off", "on", or who runs it
    joinStopped,  \* the join's stop token
    result,       \* the join's own result
    finished,     \* the join's execution is complete
    stops,        \* history: requestStops from outside
    stack

childVars == <<settled, stopped, ended, completed, subscribed>>
joinVars == <<joinError, started, waiting, queued, hook, joinStopped, result, finished>>
vars == <<childVars, joinVars, stops, stack>>

Results == {"no", "value", "error", "cancelled", "rejected"}

Call(step, c, r) == [step |-> step, child |-> c, res |-> r]
At(step, c) == Call(step, c, "no")
Idle(t) == stack[t] = <<>>
In(t, step) == stack[t] # <<>> /\ Head(stack[t]).step = step
Child(t) == Head(stack[t]).child
Res(t) == Head(stack[t]).res
Enter(t, calls) == stack' = [stack EXCEPT ![t] = calls \o @]
Become(t, calls) == stack' = [stack EXCEPT ![t] = calls \o Tail(@)]

Init ==
    /\ settled = [c \in Children |-> "no"]
    /\ stopped = [c \in Children |-> FALSE]
    /\ ended = [c \in Children |-> FALSE]
    /\ completed = [c \in Children |-> FALSE]
    /\ subscribed = [c \in Children |-> FALSE]
    /\ joinError = "no" /\ started = "no" /\ waiting = 0 /\ queued = 0
    /\ hook = "off" /\ joinStopped = FALSE /\ result = "no" /\ finished = FALSE
    /\ stops = 0
    /\ stack = [t \in Threads |-> <<>>]

-----------------------------------------------------------------------------
(* A child.  Settling takes the callbacks out under the lock; they run     *)
(* later, after whatever the settling thread does first.                   *)

\* The call that will run the callbacks taken from child c with result r.
Callbacks(c, r) == IF subscribed[c] THEN <<Call("notify", c, r)>> ELSE <<>>

Ending(c) == [ended EXCEPT ![c] = TRUE]

\* The body of a child returns or throws.
BeginEnd(t, c) ==
    /\ Idle(t) /\ ~ended[c]
    /\ Enter(t, <<At("settle", c)>>)
    /\ ended' = Ending(c)
    /\ UNCHANGED <<settled, stopped, completed, subscribed, joinVars, stops>>

SettleChild(t) ==
    /\ In(t, "settle")
    /\ LET c == Child(t) IN
       IF settled[c] = "no"
       THEN \E r \in {"value", "error"} :
              /\ settled' = [settled EXCEPT ![c] = r]
              /\ subscribed' = [subscribed EXCEPT ![c] = FALSE]
              /\ Become(t, Callbacks(c, r) \o <<At("complete", c)>>)
       ELSE Become(t, <<At("complete", c)>>) /\ UNCHANGED <<settled, subscribed>>
    /\ UNCHANGED <<stopped, ended, completed, joinVars, stops>>

\* requestStop of a child: settle it and take its callbacks; stop its token;
\* run the callbacks.  Stopping the token may end a suspended child right here.
RequestStop(t) ==
    /\ Idle(t) /\ stops < MaxStops
    /\ stops' = stops + 1
    /\ \/ \E c \in Children : Enter(t, <<At("cancel", c)>>)
       \/ Enter(t, <<At("cancelJoin", 0)>>)
    /\ UNCHANGED <<childVars, joinVars>>

CancelChild(t) ==
    /\ In(t, "cancel")
    /\ LET c == Child(t) IN
       IF settled[c] = "no"
       THEN /\ settled' = [settled EXCEPT ![c] = "cancelled"]
            /\ subscribed' = [subscribed EXCEPT ![c] = FALSE]
            /\ Become(t, <<At("stopToken", c)>> \o Callbacks(c, "cancelled"))
       ELSE Become(t, <<At("stopToken", c)>>) /\ UNCHANGED <<settled, subscribed>>
    /\ UNCHANGED <<stopped, ended, completed, joinVars, stops>>

StopChild(t) ==
    /\ In(t, "stopToken")
    /\ LET c == Child(t) IN
       /\ stopped' = [stopped EXCEPT ![c] = TRUE]
       /\ \/ Become(t, <<>>) /\ UNCHANGED ended
          \/ /\ ~ended[c] /\ ~stopped[c]
             /\ ended' = Ending(c)
             /\ Become(t, <<At("settle", c)>>)
    /\ UNCHANGED <<settled, completed, subscribed, joinVars, stops>>

\* whenAll's callback: a child that failed fails the join.
Notify(t) ==
    /\ In(t, "notify")
    /\ Become(t, IF Res(t) = "value" THEN <<>> ELSE <<Call("fail", 0, Res(t))>>)
    /\ UNCHANGED <<childVars, joinVars, stops>>

-----------------------------------------------------------------------------
(* Resuming the join: its ticket runs here, is queued, or is rejected, and *)
(* then waitFinished throws, which the join takes as a failure.            *)

ResumeJoin(t, c) ==
    \/ /\ "inline" \in Schedulers
       /\ Become(t, <<At("join", c + 1)>>)
       /\ UNCHANGED queued
    \/ /\ "queue" \in Schedulers
       /\ queued' = c
       /\ Become(t, <<>>)
    \/ /\ "reject" \in Schedulers
       /\ Become(t, <<Call("fail", 0, "rejected"), At("join", c + 1)>>)
       /\ UNCHANGED queued

\* completeExecution of a child, which resumes the join that waits for it.
CompleteChild(t) ==
    /\ In(t, "complete")
    /\ completed' = [completed EXCEPT ![Child(t)] = TRUE]
    /\ IF waiting = Child(t)
       THEN waiting' = 0 /\ ResumeJoin(t, Child(t))
       ELSE Become(t, <<>>) /\ UNCHANGED <<waiting, queued>>
    /\ UNCHANGED <<settled, stopped, ended, subscribed, joinError, started, hook, joinStopped,
                   result, finished, stops>>

Deliver(t) ==
    /\ Idle(t) /\ queued # 0
    /\ queued' = 0
    /\ \/ Enter(t, <<At("join", queued + 1)>>)
       \/ Enter(t, <<Call("fail", 0, "rejected"), At("join", queued + 1)>>)
    /\ UNCHANGED <<childVars, joinError, started, waiting, hook, joinStopped, result, finished, stops>>

-----------------------------------------------------------------------------
(* The join.                                                               *)

\* A join that was stopped before it started skips its body: it is finished at
\* once and leaves its children alone.
Start(t) ==
    /\ Idle(t) /\ started = "no"
    /\ IF result = "cancelled"
       THEN started' = "skipped" /\ Enter(t, <<At("finish", 0)>>)
       ELSE started' = "yes" /\ Enter(t, <<At("subscribe", 1)>>)
    /\ UNCHANGED <<childVars, joinError, waiting, queued, hook, joinStopped, result, finished, stops>>

\* onReady for each handle; its callback runs at once for a settled child.
Subscribe(t) ==
    /\ In(t, "subscribe")
    /\ LET c == Child(t)
           rest == IF c = N THEN At("hook", 0) ELSE At("subscribe", c + 1)
       IN IF settled[c] = "no"
          THEN subscribed' = [subscribed EXCEPT ![c] = TRUE] /\ Become(t, <<rest>>)
          ELSE Become(t, <<Call("notify", c, settled[c]), rest>>) /\ UNCHANGED subscribed
    /\ UNCHANGED <<settled, stopped, ended, completed, joinVars, stops>>

\* The stop_callback, which runs at once when the token is already stopped.
Hook(t) ==
    /\ In(t, "hook")
    /\ IF joinStopped
       THEN Become(t, <<Call("fail", 0, "cancelled"), At("join", 1)>>) /\ UNCHANGED hook
       ELSE Become(t, <<At("join", 1)>>) /\ hook' = "on"
    /\ UNCHANGED <<childVars, joinError, started, waiting, queued, joinStopped, result, finished, stops>>

\* Mutant: the join leaves at the first failure.
LeavesEarly(c) == c = N + 1 \/ joinError # "no"

Joined(c) == c = N + 1

\* await_ready, then await_suspend, which looks again under the child's lock.
Join(t) ==
    /\ In(t, "join")
    /\ Become(t, <<At(IF Joined(Child(t)) THEN "collect" ELSE "await", Child(t))>>)
    /\ UNCHANGED <<childVars, joinVars, stops>>

Await(t) ==
    /\ In(t, "await")
    /\ LET c == Child(t) IN
       \/ /\ completed[c]
          /\ Become(t, <<At("join", c + 1)>>)
          /\ UNCHANGED <<waiting, queued>>
       \/ /\ completed[c]
          /\ ResumeJoin(t, c)
          /\ UNCHANGED waiting
       \/ /\ ~completed[c]
          /\ waiting' = c
          /\ Become(t, <<>>)
          /\ UNCHANGED queued
    /\ UNCHANGED <<childVars, joinError, started, hook, joinStopped, result, finished, stops>>

\* Mutant: the values are returned without looking at the error.
NoError == "no"

FirstError == joinError

\* get() of each handle rethrows what its child failed with; void has no get().
ValuesMissing == ~Void /\ \E c \in Children : settled[c] # "value"

\* An exception leaves the scope, and so the stop_callback, before it is the
\* result; a value is the result first.
Collect(t) ==
    /\ In(t, "collect")
    /\ Become(t, IF FirstError # "no" \/ ValuesMissing
                 THEN <<At("unhook", 0), Call("result", 0, "error"), At("finish", 0)>>
                 ELSE <<Call("result", 0, "value"), At("unhook", 0), At("finish", 0)>>)
    /\ UNCHANGED <<childVars, joinVars, stops>>

SetResult(t) ==
    /\ In(t, "result")
    /\ result' = IF result = "no" THEN Res(t) ELSE result
    /\ Become(t, <<>>)
    /\ UNCHANGED <<childVars, joinError, started, waiting, queued, hook, joinStopped, finished, stops>>

\* ~stop_callback waits for the callback if another thread runs it.
Unhook(t) ==
    /\ In(t, "unhook")
    /\ hook \in {"off", "on", t}
    /\ hook' = "off"
    /\ Become(t, <<>>)
    /\ UNCHANGED <<childVars, joinError, started, waiting, queued, joinStopped, result, finished, stops>>

Finish(t) ==
    /\ In(t, "finish")
    /\ finished' = TRUE
    /\ Become(t, <<>>)
    /\ UNCHANGED <<childVars, joinError, started, waiting, queued, hook, joinStopped, result, stops>>

-----------------------------------------------------------------------------
(* join_state::fail: the first failure stops every child still running.    *)

\* Mutant: the first failure stops only the first child.
StopsFirst(c) == c > 1

StoppedAll(c) == c = N + 1

Fail(t) ==
    /\ In(t, "fail")
    /\ IF joinError = "no"
       THEN joinError' = Res(t) /\ Become(t, <<At("stopEach", 1)>>)
       ELSE Become(t, <<>>) /\ UNCHANGED joinError
    /\ UNCHANGED <<childVars, started, waiting, queued, hook, joinStopped, result, finished, stops>>

StopEach(t) ==
    /\ In(t, "stopEach")
    /\ LET c == Child(t) IN
       Become(t, IF StoppedAll(c) THEN <<>>
                 ELSE IF completed[c] THEN <<At("stopEach", c + 1)>>
                 ELSE <<At("cancel", c), At("stopEach", c + 1)>>)
    /\ UNCHANGED <<childVars, joinVars, stops>>

\* requestStop of the join itself.
CancelJoin(t) ==
    /\ In(t, "cancelJoin")
    /\ result' = IF result = "no" THEN "cancelled" ELSE result
    /\ Become(t, <<At("stopJoin", 0)>>)
    /\ UNCHANGED <<childVars, joinError, started, waiting, queued, hook, joinStopped, finished, stops>>

StopJoin(t) ==
    /\ In(t, "stopJoin")
    /\ joinStopped' = TRUE
    /\ IF ~joinStopped /\ hook = "on"
       THEN hook' = t /\ Become(t, <<Call("fail", 0, "cancelled"), At("called", 0)>>)
       ELSE Become(t, <<>>) /\ UNCHANGED hook
    /\ UNCHANGED <<childVars, joinError, started, waiting, queued, result, finished, stops>>

Called(t) ==
    /\ In(t, "called")
    /\ hook' = "off"
    /\ Become(t, <<>>)
    /\ UNCHANGED <<childVars, joinError, started, waiting, queued, joinStopped, result, finished, stops>>

-----------------------------------------------------------------------------
Continue(t) ==
    \/ SettleChild(t) \/ CancelChild(t) \/ StopChild(t) \/ Notify(t) \/ CompleteChild(t)
    \/ Subscribe(t) \/ Hook(t) \/ Join(t) \/ Await(t) \/ Collect(t) \/ SetResult(t)
    \/ Unhook(t) \/ Finish(t) \/ Fail(t) \/ StopEach(t)
    \/ CancelJoin(t) \/ StopJoin(t) \/ Called(t)

StoppedChildEnds == \E t \in Threads, c \in Children : stopped[c] /\ BeginEnd(t, c)
Delivered == \E t \in Threads : Deliver(t)

Next ==
    \/ \E t \in Threads : Continue(t) \/ Start(t) \/ RequestStop(t)
    \/ \E t \in Threads, c \in Children : BeginEnd(t, c)
    \/ Delivered

\* A child ends once it is stopped (TaskCore's StopCompletes); one that is not
\* stopped may wait for ever.  Schedulers run or drop what they accepted.
Fairness == WF_vars(Delivered) /\ WF_vars(StoppedChildEnds) /\ \A t \in Threads : WF_vars(Continue(t))

Safe == Init /\ [][Next]_vars
Spec == Safe /\ Fairness

-----------------------------------------------------------------------------
(* Properties.                                                             *)

Steps == {"settle", "complete", "cancel", "cancelJoin", "stopToken", "notify", "join", "await",
          "collect", "result", "unhook", "finish", "fail", "stopEach", "stopJoin", "called",
          "subscribe", "hook"}

\* Every variable keeps the type of the member it stands for, and a child is
\* completed only after its result was settled.
Members ==
    /\ settled \in [Children -> Results] /\ stopped \in [Children -> BOOLEAN]
    /\ ended \in [Children -> BOOLEAN] /\ completed \in [Children -> BOOLEAN]
    /\ subscribed \in [Children -> BOOLEAN]
    /\ \A c \in Children : completed[c] => ended[c] /\ settled[c] # "no"
    /\ joinError \in Results /\ result \in Results
    /\ started \in {"no", "yes", "skipped"} /\ {joinStopped, finished} \subseteq BOOLEAN
    /\ waiting \in 0 .. N /\ queued \in 0 .. N
    /\ hook \in {"off", "on"} \cup Threads
    /\ stops \in 0 .. MaxStops

TypeOK ==
    /\ Members
    /\ \A t \in Threads : \A d \in DOMAIN stack[t] : stack[t][d].step \in Steps

\* docs/cpp-guidelines.md: "the join waits for every child's execution to finish
\* before propagating the error": whatever fails, and although a cancelled join
\* is ready early, a join that ran its body outlives the execution of every child.
\* (The types come with it.)
JoinOutlivesChildren ==
    /\ TypeOK
    /\ finished /\ started = "yes" => \A c \in Children : completed[c]

\* docs/cpp-guidelines.md: "The first child failure requests cancellation of all
\* remaining children, and the join waits [...] before propagating the error": a
\* join that returns a value joined no child that failed or was cancelled, and
\* was never refused by its scheduler.
FailurePropagates == result = "value" =>
    joinError # "rejected" /\ \A c \in Children : settled[c] = "value"

\* A failure, of a child, of the join's scheduler, or a requestStop of the join,
\* ends the join, although no child would have ended by itself.
FailureDrains == (joinError # "no") ~> finished
=============================================================================
