---------------------------- MODULE AnyRegistry ----------------------------
(***************************************************************************)
(* vany.h: the registry of conversions between types.  path searches them  *)
(* breadth first under the shared lock and copies the converters that it   *)
(* needs; convert runs the copies after the lock is released, when other   *)
(* threads, and the converters themselves, may register again.             *)
(***************************************************************************)
EXTENDS Naturals, Sequences, FiniteSets

CONSTANTS Types, Threads,
          Edges,     \* the conversions, <<target, source>>, that are ever registered
          Queries,   \* the conversions, <<target, source>>, that are asked for
          MaxAdds    \* bound: calls of add

ASSUME RegistryAssumption ==
    /\ IsFiniteSet(Types) /\ MaxAdds \in Nat
    /\ Edges \cup Queries \subseteq {k \in Types \X Types : k[1] # k[2]}

VARIABLES
    converters,   \* [Edges -> the latest function registered, or 0]
    adds,         \* functions that were registered
    call          \* [Threads -> its call of convert]

vars == <<converters, adds, call>>

Idle == [at |-> "idle"]
At(t, at) == call[t].at = at
Registered == {k \in Edges : converters[k] # 0}
Converter(k) == <<k, converters[k]>>

Init ==
    /\ converters = [k \in Edges |-> 0] /\ adds = 0
    /\ call = [t \in Threads |-> Idle]

\* Mutant: add does not take the lock.
AddsAnyway == TRUE

\* add's unique lock excludes the shared lock of those who search.
MayAdd == \A t \in Threads : ~At(t, "searching")

\* add, by a thread that is not in the registry, or inside a converter.
Add(t, k) ==
    /\ ~At(t, "searching") /\ MayAdd /\ adds < MaxAdds
    /\ adds' = adds + 1
    /\ converters' = [converters EXCEPT ![k] = adds + 1]
    /\ UNCHANGED call

\* any_cast to the exact type, or of an any to itself, does not come here.
\* "seen" is history: the registry when the lock was taken.
Convert(t, target, source) ==
    /\ At(t, "idle")
    /\ call' = [call EXCEPT ![t] =
         IF <<target, source>> \in Registered
         THEN [at |-> "found", target |-> target, source |-> source, seen |-> converters,
               functions |-> <<Converter(<<target, source>>)>>]
         ELSE [at |-> "searching", target |-> target, source |-> source, seen |-> converters,
               queue |-> <<[type |-> source, functions |-> <<>>]>>, visited |-> {source}]]
    /\ UNCHANGED <<converters, adds>>

\* The keys that the loop over the hash map does not skip, in any order.
Fresh(t) == {k \in Registered : k[2] = Head(call[t].queue).type /\ k[1] \notin call[t].visited}

Visit(t, k) ==
    /\ At(t, "searching") /\ call[t].queue # <<>> /\ k \in Fresh(t)
    /\ LET functions == Append(Head(call[t].queue).functions, Converter(k))
           c == call[t]
       IN call' = [call EXCEPT ![t] =
            IF k[1] = c.target
            THEN [at |-> "found", target |-> c.target, source |-> c.source, seen |-> c.seen,
                  functions |-> functions]
            ELSE [c EXCEPT !.visited = @ \cup {k[1]},
                           !.queue = Append(@, [type |-> k[1], functions |-> functions])]]
    /\ UNCHANGED <<converters, adds>>

\* The next in the queue; steps before it are never looked at again.
NextStep(t) ==
    /\ At(t, "searching") /\ call[t].queue # <<>> /\ Fresh(t) = {}
    /\ call' = [call EXCEPT ![t].queue = Tail(@)]
    /\ UNCHANGED <<converters, adds>>

\* bad_any_cast
NoPath(t) ==
    /\ At(t, "searching") /\ call[t].queue = <<>>
    /\ call' = [call EXCEPT ![t] = [at |-> "none", target |-> @.target, source |-> @.source, seen |-> @.seen]]
    /\ UNCHANGED <<converters, adds>>

\* The converters run, the lock is free; one of them may throw, and what it converts
\* itself is a search like that of another thread.
Return(t) ==
    /\ At(t, "found") \/ At(t, "none")
    /\ call' = [call EXCEPT ![t] = Idle]
    /\ UNCHANGED <<converters, adds>>

Next == \E t \in Threads :
    \/ \E k \in Edges : Add(t, k) \/ Visit(t, k)
    \/ \E q \in Queries : Convert(t, q[1], q[2])
    \/ NextStep(t) \/ NoPath(t) \/ Return(t)

Spec == Init /\ [][Next]_vars

-----------------------------------------------------------------------------
\* The types that at most n of the converters in reg lead to.
Reached(reg, source) ==
    LET f[n \in Nat] ==
          IF n = 0 THEN {source}
          ELSE f[n - 1] \cup {k[1] : k \in {k \in Edges : reg[k] # 0 /\ k[2] \in f[n - 1]}}
    IN f

\* Functions lead from the source to the target, the one after the other.
Chain(c) ==
    /\ c.functions # <<>>
    /\ c.functions[1][1][2] = c.source
    /\ c.functions[Len(c.functions)][1][1] = c.target
    /\ \A i \in 1 .. Len(c.functions) - 1 : c.functions[i][1][1] = c.functions[i + 1][1][2]

\* docs/vmeta.md: "Conversion lookup can compose registered edges, ... independently of
\* registration order.  A direct conversion takes precedence over a composed path."  What
\* convert runs is a shortest chain of the functions that were registered together when
\* it took the lock, and it fails only if there was none, whatever the order of the map
\* and although others register while it searches or runs.
ConversionsCompose == \A t \in Threads :
    LET c == call[t] IN
    /\ At(t, "found") =>
         /\ Chain(c)
         /\ \A i \in DOMAIN c.functions : c.functions[i][2] = c.seen[c.functions[i][1]]
         /\ \A n \in 0 .. Len(c.functions) - 1 : c.target \notin Reached(c.seen, c.source)[n]
    /\ At(t, "none") => c.target \notin Reached(c.seen, c.source)[Cardinality(Types)]
=============================================================================
