------------------------------- MODULE Future -------------------------------
(***************************************************************************)
(* vfuture.h: shared results, continuations and joins of them.  A Plan is  *)
(* a program's futures: bodies handed to a handler (async, later, now),    *)
(* continuations (thenAsync, thenLater, thenNow), when_all, and join.      *)
(* Settling takes a future's continuations out under its lock and runs     *)
(* them after it, so they nest: each thread has a stack of calls, innermost*)
(* first.  The handlers are the application's (vthread.h declares them):   *)
(* they run a body at once, later on a worker, never, or throw.            *)
(***************************************************************************)
EXTENDS Naturals, Sequences, FiniteSets

CONSTANTS Callers,     \* threads that create and cancel futures
          Workers,     \* threads that run what handlers queued
          Plans,       \* sets of futures, each [kind, of], `of` naming earlier ones
          Handlers,    \* what a handler may do with a body
          MaxCancels   \* bound: calls of cancel()

Kinds == {"call", "start", "then", "all", "join"}

ASSUME FutureAssumption ==
    /\ Callers \cap Workers = {} /\ MaxCancels \in Nat
    /\ Handlers \subseteq {"inline", "queue", "drop", "throw"}
    /\ \A plan \in Plans : plan # <<>> /\ plan \in Seq([kind : Kinds, of : Seq(Nat)])
    /\ \A plan \in Plans : \A f \in DOMAIN plan :
         /\ \A i \in DOMAIN plan[f].of : plan[f].of[i] \in 0 .. f - 1  \* 0 is a null future
         /\ plan[f].kind \in {"call", "start"} => plan[f].of = <<>>
         /\ plan[f].kind \in {"then", "join"} => \A i \in DOMAIN plan[f].of : plan[f].of[i] # 0
         /\ plan[f].kind = "then" => Len(plan[f].of) = 1

Threads == Callers \cup Workers

VARIABLES
    plan,
    created,        \* the futures that exist
    state,          \* ccall::state: [Futures -> future_state]
    cause,          \* ccall::exception: where the exception was thrown, or 0
    continuations,  \* [Futures -> Seq of who is to be told: a then, or a part of an all]
    hasStarted,     \* ccall::started
    parts,          \* when_all's state_type: [remaining, settled, values]
    queued,         \* bodies a handler keeps for a worker
    dropped,        \* history: bodies no handler will ever run
    begun,          \* history: [Futures -> how often the body began]
    cancels,        \* history: calls of cancel()
    stack

ccall == <<state, cause, continuations>>
body == <<hasStarted, queued, dropped, begun>>
vars == <<plan, created, ccall, body, parts, cancels, stack>>

Futures == DOMAIN plan
Kind(f) == plan[f].kind
Of(f) == plan[f].of
Sources(f) == {Of(f)[i] : i \in DOMAIN Of(f)} \ {0}
Pending(f) == state[f] = "pending"

\* A call: its step, the future it is for, the part of a when_all or of a
\* join it is at, and the settlement it carries.
Call(step, f, i, s, c) == [step |-> step, fut |-> f, part |-> i, state |-> s, cause |-> c]
At(step, f, i) == Call(step, f, i, "pending", 0)
Idle(t) == stack[t] = <<>>
In(t, step) == stack[t] # <<>> /\ Head(stack[t]).step = step
Top(t) == Head(stack[t])
Become(t, calls) == stack' = [stack EXCEPT ![t] = calls \o Tail(@)]
Return(t) == Become(t, <<>>)

Init ==
    /\ plan \in Plans
    /\ created = {} /\ queued = {} /\ dropped = {} /\ hasStarted = {}
    /\ state = [f \in Futures |-> "pending"]
    /\ cause = [f \in Futures |-> 0]
    /\ continuations = [f \in Futures |-> <<>>]
    /\ parts = [f \in Futures |-> [remaining |-> Len(Of(f)), settled |-> FALSE, values |-> {}]]
    /\ begun = [f \in Futures |-> 0]
    /\ cancels = 0
    /\ stack = [t \in Threads |-> <<>>]

-----------------------------------------------------------------------------
(* Making a future: the constructor calls it, chainCall registers it with  *)
(* its source, when_all watches one part after the other.                  *)

\* Nobody else holds a future before the call that makes it returns.
Usable(f) == f \in created /\ \A t \in Callers : ~Idle(t) => stack[t][Len(stack[t])] # At("made", f, 0)

Create(t, f) ==
    /\ t \in Callers /\ Idle(t) /\ f \notin created /\ \A s \in Sources(f) : Usable(s)
    /\ created' = created \cup {f}
    /\ LET first == CASE Kind(f) \in {"call", "start", "join"} -> At("call", f, 0)
                      [] Kind(f) = "then" -> At("onSettled", f, 1)
                      [] Kind(f) = "all" -> At("watch", f, 1)
       IN stack' = [stack EXCEPT ![t] = <<first, At("made", f, 0)>>]
    /\ UNCHANGED <<plan, ccall, body, parts, cancels>>

Made(t) ==
    /\ In(t, "made")
    /\ Return(t)
    /\ UNCHANGED <<plan, created, ccall, body, parts, cancels>>

\* when_all's loop: nothing to wait for is a value, a null future an exception.
Watch(t) ==
    /\ In(t, "watch")
    /\ LET f == Top(t).fut
           i == Top(t).part
       IN Become(t, CASE Of(f) = <<>> -> <<Call("settle", f, 0, "value", 0)>>
                      [] Of(f) # <<>> /\ i > Len(Of(f)) -> <<>>
                      [] i \in DOMAIN Of(f) /\ Of(f)[i] = 0 -> <<Call("settle", f, 0, "exception", f)>>
                      [] OTHER -> <<At("onSettled", f, i), At("watch", f, i + 1)>>)
    /\ UNCHANGED <<plan, created, ccall, body, parts, cancels>>

\* Mutant: a registration never looks at the state.
AlwaysRegisters(s) == TRUE

MustRegister(s) == Pending(s)

\* onSettled of a part's source: keep the callbacks, or run them at once.
OnSettled(t) ==
    /\ In(t, "onSettled")
    /\ LET f == Top(t).fut
           i == Top(t).part
           s == Of(f)[i]
       IN IF MustRegister(s)
          THEN /\ continuations' = [continuations EXCEPT ![s] = Append(@, <<f, i>>)]
               /\ Return(t)
          ELSE /\ Become(t, <<Call("callback", f, i, state[s], cause[s])>>)
               /\ UNCHANGED continuations
    /\ UNCHANGED <<plan, created, state, cause, body, parts, cancels>>

-----------------------------------------------------------------------------
(* Settling: setResult, setException and cancel are one section under the  *)
(* lock, and then the callbacks in the order of their registration.        *)

MaySettle(f) == Pending(f)

\* Mutant: a cancelled future tells nobody.
CancelsQuietly(f, s, c) == IF s = "cancelled" THEN <<>> ELSE [k \in DOMAIN continuations[f] |->
    Call("callback", continuations[f][k][1], continuations[f][k][2], s, c)]

Told(f, s, c) == [k \in DOMAIN continuations[f] |->
    Call("callback", continuations[f][k][1], continuations[f][k][2], s, c)]

\* setResult copies the value for the callbacks; if that throws, the exception
\* is the result.
Outcomes(f, s, c) == {<<s, c>>} \cup (IF s = "value" THEN {<<"exception", f>>} ELSE {})

Settle(t) ==
    /\ In(t, "settle")
    /\ LET f == Top(t).fut IN
       \/ /\ MaySettle(f)
          /\ \E o \in Outcomes(f, Top(t).state, Top(t).cause) :
               /\ state' = [state EXCEPT ![f] = o[1]]
               /\ cause' = [cause EXCEPT ![f] = o[2]]
               /\ Become(t, Told(f, o[1], o[2]))
          /\ continuations' = [continuations EXCEPT ![f] = <<>>]
       \/ /\ ~MaySettle(f)
          /\ Return(t)
          /\ UNCHANGED ccall
    /\ UNCHANGED <<plan, created, body, parts, cancels>>

Cancel(t, f) ==
    /\ t \in Callers /\ Idle(t) /\ Usable(f) /\ cancels < MaxCancels
    /\ cancels' = cancels + 1
    /\ stack' = [stack EXCEPT ![t] = <<Call("settle", f, 0, "cancelled", f)>>]
    /\ UNCHANGED <<plan, created, ccall, body, parts>>


\* A continuation gets a copy of the value, and the copy may throw: then, as for
\* an exception, it is the failure callback that runs.
Callback(t) ==
    /\ In(t, "callback")
    /\ LET f == Top(t).fut
           i == Top(t).part
       IN \/ /\ Top(t).state = "value"
             /\ Become(t, <<At("success", f, i)>>)
          \/ /\ Top(t).state = "value"
             /\ Become(t, <<Call("failure", f, i, "exception", Of(f)[i])>>)
          \/ /\ Top(t).state # "value"
             /\ Become(t, <<Call("failure", f, i, "exception", Top(t).cause)>>)
    /\ UNCHANGED <<plan, created, ccall, body, parts, cancels>>

PassesOn(f, c) == <<Call("settle", f, 0, "exception", c)>>

\* chainCall's callbacks: the success sets the argument of the new call.
Chain(t) ==
    /\ In(t, "success") /\ Kind(Top(t).fut) = "then"
    /\ Become(t, <<At("call", Top(t).fut, 0)>>)
    /\ UNCHANGED <<plan, created, ccall, body, parts, cancels>>

ChainFails(t) ==
    /\ In(t, "failure") /\ Kind(Top(t).fut) = "then"
    /\ Become(t, PassesOn(Top(t).fut, Top(t).cause))
    /\ UNCHANGED <<plan, created, ccall, body, parts, cancels>>

\* Mutant: a failed part is one part less to wait for.
ForgetsFailure(p) == [p EXCEPT !.remaining = @ - 1]

Failed(p) == [p EXCEPT !.settled = TRUE]

Filled(p, i) == [p EXCEPT !.values = @ \cup {i}, !.remaining = @ - 1]

\* when_all's callbacks, each a section under the lock of its state.  Copying
\* the values of the last part may throw, before settled is set.
Part(t) ==
    /\ In(t, "success") /\ Kind(Top(t).fut) = "all"
    /\ LET f == Top(t).fut
           i == Top(t).part
           filled == Filled(parts[f], i)
       IN \/ /\ parts[f].settled
             /\ Return(t)
             /\ UNCHANGED parts
          \/ /\ ~parts[f].settled /\ filled.remaining > 0
             /\ parts' = [parts EXCEPT ![f] = filled]
             /\ Return(t)
          \/ /\ ~parts[f].settled /\ filled.remaining = 0
             /\ parts' = [parts EXCEPT ![f] = [filled EXCEPT !.settled = TRUE]]
             /\ Become(t, <<Call("settle", f, 0, "value", 0)>>)
          \/ /\ ~parts[f].settled /\ filled.remaining = 0
             /\ parts' = [parts EXCEPT ![f] = filled]
             /\ Become(t, <<Call("failure", f, i, "exception", Of(f)[i])>>)
    /\ UNCHANGED <<plan, created, ccall, body, cancels>>

PartFails(t) ==
    /\ In(t, "failure") /\ Kind(Top(t).fut) = "all"
    /\ LET f == Top(t).fut IN
       IF parts[f].settled
       THEN Return(t) /\ UNCHANGED parts
       ELSE /\ parts' = [parts EXCEPT ![f] = Failed(@)]
            /\ Become(t, <<Call("settle", f, 0, "exception", Top(t).cause)>>)
    /\ UNCHANGED <<plan, created, ccall, body, cancels>>

-----------------------------------------------------------------------------
(* Bodies.                                                                 *)

MayCall(f) == f \notin hasStarted /\ Pending(f)

CallBody(t) ==
    /\ In(t, "call")
    /\ LET f == Top(t).fut IN
       IF MayCall(f)
       THEN hasStarted' = hasStarted \cup {f} /\ Become(t, <<At("handler", f, 0)>>)
       ELSE Return(t) /\ UNCHANGED hasStarted
    /\ UNCHANGED <<plan, created, ccall, queued, dropped, begun, parts, cancels>>

\* _caller: the application's handler.
Handle(t) ==
    /\ In(t, "handler")
    /\ LET f == Top(t).fut IN
       \/ /\ "inline" \in Handlers
          /\ Become(t, <<At("begin", f, 0)>>)
          /\ UNCHANGED <<queued, dropped>>
       \/ /\ "queue" \in Handlers
          /\ queued' = queued \cup {f} /\ Return(t)
          /\ UNCHANGED dropped
       \/ /\ "drop" \in Handlers
          /\ dropped' = dropped \cup {f} /\ Return(t)
          /\ UNCHANGED queued
       \/ /\ "throw" \in Handlers
          /\ Become(t, <<Call("settle", f, 0, "exception", f)>>)
          /\ UNCHANGED <<queued, dropped>>
    /\ UNCHANGED <<plan, created, ccall, hasStarted, begun, parts, cancels>>

RunQueued(t, f) ==
    /\ t \in Workers /\ Idle(t) /\ f \in queued
    /\ queued' = queued \ {f}
    /\ stack' = [stack EXCEPT ![t] = <<At("begin", f, 0)>>]
    /\ UNCHANGED <<plan, created, ccall, hasStarted, dropped, begun, parts, cancels>>

\* The body takes its argument out of the ccall.
Begin(t) ==
    /\ In(t, "begin")
    /\ begun' = [begun EXCEPT ![Top(t).fut] = @ + 1]
    /\ Become(t, <<At("body", Top(t).fut, 1)>>)
    /\ UNCHANGED <<plan, created, ccall, hasStarted, queued, dropped, parts, cancels>>

\* The body returns or throws; that of a chain's first future is empty.
Body(t) ==
    /\ In(t, "body")
    /\ LET f == Top(t).fut IN
       /\ Kind(f) = "join" => Top(t).part > Len(Of(f))
       /\ \/ Become(t, <<Call("settle", f, 0, "value", 0)>>)
          \/ Kind(f) # "start" /\ Become(t, <<Call("settle", f, 0, "exception", f)>>)
    /\ UNCHANGED <<plan, created, ccall, body, parts, cancels>>

\* The body of a join gets one future after the other: each get() blocks until
\* it is settled, and rethrows, also if copying the value throws.
Get(t) ==
    /\ In(t, "body") /\ Kind(Top(t).fut) = "join" /\ Top(t).part <= Len(Of(Top(t).fut))
    /\ LET f == Top(t).fut
           s == Of(f)[Top(t).part]
       IN /\ ~Pending(s)
          /\ \/ /\ state[s] = "value"
                /\ Become(t, <<At("body", f, Top(t).part + 1)>>)
             \/ Become(t, <<Call("settle", f, 0, "exception", IF state[s] = "value" THEN s ELSE cause[s])>>)
    /\ UNCHANGED <<plan, created, ccall, body, parts, cancels>>

-----------------------------------------------------------------------------
Continue(t) ==
    \/ Made(t) \/ Watch(t) \/ OnSettled(t) \/ Settle(t) \/ Callback(t) \/ Chain(t) \/ ChainFails(t)
    \/ Part(t) \/ PartFails(t) \/ CallBody(t) \/ Handle(t) \/ Begin(t) \/ Body(t) \/ Get(t)

WorkerRuns == \E t \in Workers, f \in queued : RunQueued(t, f)

Next ==
    \/ \E t \in Threads : Continue(t)
    \/ \E t \in Callers, f \in Futures : Create(t, f) \/ Cancel(t, f)
    \/ WorkerRuns

\* Bodies and callbacks return, and handlers run what they queued.
Fairness == WF_vars(WorkerRuns) /\ \A t \in Threads : WF_vars(Continue(t))

Safe == Init /\ [][Next]_vars
Spec == Safe /\ Fairness

-----------------------------------------------------------------------------
(* Properties.                                                             *)

Steps == {"made", "watch", "onSettled", "callback", "success", "failure", "settle", "call", "handler", "begin", "body", "store"}

\* Every variable keeps the type of the member it stands for, only futures that
\* were made are known to anyone, and a body runs only after its call().
TypeOK ==
    /\ \E p \in Plans : DOMAIN p = Futures /\ \A f \in Futures : p[f].kind = Kind(f)
    /\ created \subseteq Futures
    /\ state \in [Futures -> {"pending", "value", "exception", "cancelled"}]
    /\ \A f \in Futures : cause[f] \in 0 .. Len(plan) /\ (cause[f] # 0 <=> state[f] \in {"exception", "cancelled"})
    /\ \A s \in Futures : \A k \in DOMAIN continuations[s] :
         \E f \in created : \E i \in DOMAIN Of(f) : continuations[s][k] = <<f, i>> /\ Of(f)[i] = s
    /\ hasStarted \subseteq created
    /\ queued \cup dropped \cup {f \in Futures : begun[f] > 0} \subseteq hasStarted
    /\ parts \in [Futures -> [remaining : Nat, settled : BOOLEAN, values : SUBSET Nat]]
    /\ \A f \in Futures : parts[f].remaining <= Len(Of(f)) /\ parts[f].values \subseteq DOMAIN Of(f)
    /\ cancels \in 0 .. MaxCancels
    /\ \A t \in Threads : \A d \in DOMAIN stack[t] : stack[t][d].step \in Steps

\* What a failure of s passes on to the futures that were made from it.
Fails(s, c) == ~Pending(s) /\ c = (IF state[s] = "value" THEN s ELSE cause[s])

\* A future that depends on others follows them: thenX, when_all and join have a
\* value only if every source has one, and an exception that is not their own is
\* one a source failed with, or the source's whose value could not be copied.  A body
\* begins once, a continuation's only for the value that it takes as its argument.
\* when_all dereferences every slot when it counts the last part, whatever parts
\* failed, were cancelled or were told at once before: none may be empty.  (The types
\* come with it.)
OutcomeFollows == TypeOK /\ \A f \in Futures :
    /\ state[f] = "value" => \A s \in Sources(f) : state[s] = "value"
    /\ cause[f] \notin {0, f} => \E s \in Sources(f) : Fails(s, cause[f])
    /\ begun[f] > 0 => begun[f] = 1 /\ (Kind(f) = "then" => state[Of(f)[1]] = "value")
    /\ Kind(f) = "all" /\ parts[f].remaining = 0 => parts[f].values = DOMAIN Of(f)

\* A registration that races the settlement is not forgotten: a settled future
\* keeps no continuation, whichever of onSettled and setResult came first.
NoneForgotten == \A s \in Futures : continuations[s] # <<>> => Pending(s)

\* A body that no handler will run, and all that waits for its future.
lost[f \in Futures] == f \in dropped \/ \E s \in Sources(f) : lost[s]

Ids == UNION {DOMAIN p : p \in Plans}

\* Whatever is cancelled, throws or is made late, every future is settled in the
\* end unless a handler dropped a body: it is enough that bodies return and
\* workers run what is queued, with more workers than joins that block them.
AllSettle == \A f \in Ids : f \in created ~> f \in Futures /\ (~Pending(f) \/ lost[f])
=============================================================================
