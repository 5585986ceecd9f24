--------------------------- MODULE CallbackChain ---------------------------
(***************************************************************************)
(* vchain.h on top of vfuture.h: each invocation hangs a call of the       *)
(* callback on the future of the one before it.  The chain's lock is held  *)
(* while it does, and it is recursive: a handler that runs the callback at *)
(* once runs it inside invoke_async, where the callback may invoke again.  *)
(* A program that begins with "start" is a chain, its links in the order   *)
(* in which the invocations take the lock.                                 *)
(***************************************************************************)
EXTENDS Future

ASSUME ChainAssumption ==
    \A program \in Plans : program[1].kind = "start" => \A f \in DOMAIN program \ {1} : program[f].kind = "then"

VARIABLES
    tail,      \* _future
    nested     \* history: links that were invoked inside an invocation

chainVars == <<vars, tail, nested>>

IsChain == Kind(1) = "start"
Links == IF IsChain THEN Futures \ {1} ELSE {}

\* Who is between the lock and the assignment to _future.
Invokes(t, f) == \E d \in DOMAIN stack[t] : stack[t][d] = At("store", f, 0)
Locked(t) == \E f \in Links : Invokes(t, f)

ChainInit == Init /\ tail = 1 /\ nested = {}

\* Mutant: the invocation does not take the lock.
LocksNothing(t) == TRUE

MayLock(t) == \A u \in Threads \ {t} : ~Locked(u)

\* invoke_async and invoke_later, by a caller or by a callback: the lock, _future is
\* read, and thenAsync or thenLater registers with it.
InvokeAsync(t, f) ==
    /\ f \in Links \ created /\ f - 1 \in created /\ Usable(1)
    /\ (t \in Callers /\ Idle(t)) \/ (In(t, "body") /\ Top(t).fut \in Links)
    /\ MayLock(t)
    /\ plan' = [plan EXCEPT ![f].of = <<tail>>]
    /\ created' = created \cup {f}
    /\ nested' = IF Locked(t) THEN nested \cup {f} ELSE nested
    /\ stack' = [stack EXCEPT ![t] = <<At("onSettled", f, 1), At("store", f, 0)>> \o @]
    /\ UNCHANGED <<ccall, body, parts, cancels, tail>>

\* The future that thenAsync returned becomes the tail, and the lock is released.
Store(t) ==
    /\ In(t, "store")
    /\ tail' = Top(t).fut
    /\ Return(t)
    /\ UNCHANGED <<plan, created, ccall, body, parts, cancels, nested>>

\* terminate hands out the tail, now or before.
Exposed(f) == f \in Links => \A t \in Threads : ~Invokes(t, f)

Outside == UNCHANGED <<tail, nested>>
ChainContinue(t) == Store(t) \/ (Continue(t) /\ Outside)
ChainWorkerRuns == WorkerRuns /\ Outside

ChainNext ==
    \/ \E t \in Threads : ChainContinue(t) \/ \E f \in Futures : InvokeAsync(t, f)
    \/ \E t \in Callers, f \in Futures \ Links : Create(t, f) /\ Outside
    \/ \E t \in Callers, f \in Futures : Exposed(f) /\ Cancel(t, f) /\ Outside
    \/ ChainWorkerRuns

ChainFairness == WF_chainVars(ChainWorkerRuns) /\ \A t \in Threads : WF_chainVars(ChainContinue(t))

ChainSafe == ChainInit /\ [][ChainNext]_chainVars
ChainSpec == ChainSafe /\ ChainFairness

-----------------------------------------------------------------------------
\* README: "Serialized async-invocation chain that ensures callback execution order."
\* Whoever invokes it, callers and callbacks on several threads, and whatever is
\* cancelled, throws or is refused: a callback begins only when all before it ended,
\* and when terminate's future has a value no callback is left.  The exception is a
\* callback that a handler runs inside invoke_async and that invokes the chain: its
\* link forks off, as _future is still the one before.
ChainSerialized == nested = {} =>
    /\ \A f, g \in Links : f < g /\ begun[g] > 0 => state[f] = "value"
    /\ state[tail] = "value" => \A f \in created \cap Links : state[f] = "value" \/ \E t \in Threads : Invokes(t, f)
=============================================================================
