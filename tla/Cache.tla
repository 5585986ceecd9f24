------------------------------- MODULE Cache -------------------------------
(***************************************************************************)
(* vcache.h: a map of values with the tick of their insertion and a TTL.   *)
(* Ticks are signed machine integers that the caller chooses, so they may  *)
(* go backwards and be as far apart as the width allows.  A loader may use *)
(* the cache again, and may throw.                                         *)
(***************************************************************************)
EXTENDS Integers, Sequences

CONSTANTS Keys,
          Half,       \* int is -Half .. Half - 1: Half is 2^31 in the program
          MaxLoads,   \* bound: values that loaders make
          MaxDepth    \* bound: nesting of get inside loaders

ASSUME CacheAssumption == Half \in Nat \ {0} /\ MaxLoads \in Nat /\ MaxDepth \in Nat

Ticks == -Half .. Half - 1

VARIABLES
    values,     \* _values: a set of entries, at most one of each key
    calls,      \* the calls of get that are loading, innermost first
    loads,      \* history: how many values were made
    refused,    \* history: the values that a get found and did not return
    answer      \* history: what the last step returned, a set of at most one

cacheVars == <<values, calls, loads, refused, answer>>

CacheInit == values = {} /\ calls = <<>> /\ loads = 0 /\ refused = {} /\ answer = {}

\* static_cast<unsigned_tick>
Unsigned(x) == x % (2 * Half)

\* Mutant: the elapsed time is formed as an int, and wraps around.
Signed(x) == ((x + Half) % (2 * Half)) - Half
SignedAt(e, time) == time >= e.inserted_at /\ Signed(time - e.inserted_at) <= e.ttl

ValidAt(e, time) ==
    /\ time >= e.inserted_at
    /\ Unsigned(Unsigned(time) - Unsigned(e.inserted_at)) <= Unsigned(e.ttl)

EntriesOf(k) == {e \in values : e.key = k}

Hit(k, time) ==
    \E e \in EntriesOf(k) :
        /\ ValidAt(e, time)
        /\ answer' = {[hit |-> TRUE, key |-> k, time |-> time, value |-> e.value, found |-> {}]}
        /\ UNCHANGED <<values, calls, loads, refused>>

\* What is not valid is erased before the loader runs.
Miss(k, time) ==
    /\ \A e \in EntriesOf(k) : ~ValidAt(e, time)
    /\ Len(calls) < MaxDepth
    /\ LET found == {e.value : e \in EntriesOf(k)} IN
       /\ refused' = refused \cup found
       /\ calls' = <<[key |-> k, time |-> time, found |-> found]>> \o calls
    /\ values' = values \ EntriesOf(k)
    /\ answer' = {}
    /\ UNCHANGED loads

\* emplace keeps what a get inside the loader has stored.
Emplace(e) == IF EntriesOf(e.key) = {} THEN values \cup {e} ELSE values

Loaded(ttl) ==
    /\ calls # <<>> /\ loads < MaxLoads
    /\ LET c == Head(calls)
           v == [id |-> loads + 1, key |-> c.key, time |-> c.time, ttl |-> ttl]
       IN /\ values' = IF ttl >= 0
                       THEN Emplace([key |-> c.key, value |-> v, inserted_at |-> c.time, ttl |-> ttl])
                       ELSE values
          /\ answer' = {[hit |-> FALSE, key |-> c.key, time |-> c.time, value |-> v, found |-> c.found]}
    /\ loads' = loads + 1
    /\ calls' = Tail(calls)
    /\ UNCHANGED refused

\* The loader or get_ttl throws.
LoadFails ==
    /\ calls # <<>>
    /\ calls' = Tail(calls)
    /\ answer' = {}
    /\ UNCHANGED <<values, loads, refused>>

CacheNext ==
    \/ \E k \in Keys, time \in Ticks : Hit(k, time) \/ Miss(k, time)
    \/ \E ttl \in Ticks : Loaded(ttl)
    \/ LoadFails

CacheSpec == CacheInit /\ [][CacheNext]_cacheVars

-----------------------------------------------------------------------------
\* Between its insertion and the inclusive end of its TTL, in the integers.
Within(v, time) == v.time <= time /\ time - v.time <= v.ttl

\* README.md on vcache.h: a value that get returns without loading it was loaded for
\* that key, lies within its TTL although int may be too narrow for the deadline or the
\* difference, and no earlier get refused it; and get loads only if what it found does not
\* lie within its TTL.  This holds of gets inside loaders, too, and after failures.
CacheContract ==
    \A a \in answer :
        /\ a.value.key = a.key
        /\ a.hit => Within(a.value, a.time) /\ a.value \notin refused
        /\ \A v \in a.found : ~Within(v, a.time)
=============================================================================
