----------------------------- MODULE MetaProofs -----------------------------
(***************************************************************************)
(* The registry of conversions and the reflection above it, for any types, *)
(* classes, threads, objects and members: searches find a shortest chain,  *)
(* what is published is complete, copies are apart and whole, members are  *)
(* found as they are listed, and calls through any handle arrive.          *)
(***************************************************************************)
EXTENDS Meta, WellFoundedInduction, FiniteSetTheorems, SequenceTheorems, TLAPS

-----------------------------------------------------------------------------
(* Recursive functions: each is the one that its equation describes, which *)
(* is shown with an explicit solution and a least counterexample.          *)

\* A set of natural numbers has a least element.
LEMMA LeastNatural == ASSUME NEW S \in SUBSET Nat, S # {} PROVE \E m \in S : \A n \in S : m <= n
<1> DEFINE Upto == {0 .. n : n \in S}
<1>1. Upto \subseteq FiniteSubsetsOf(Nat)
  <2>1. \A n \in Nat : IsFiniteSet(0 .. n) /\ 0 .. n \in SUBSET Nat
    BY FS_Interval
  <2> QED BY <2>1 DEF FiniteSubsetsOf
<1>2. PICK T \in Upto : \A U \in Upto : <<U, T>> \notin StrictSubsetOrdering(Nat)
  <2>1. IsWellFoundedOn(StrictSubsetOrdering(Nat), FiniteSubsetsOf(Nat))
    BY FS_StrictSubsetOrderingWellFounded
  <2>2. Upto # {}
    OBVIOUS
  <2> QED BY <1>1, <2>1, <2>2, WFMin
<1>3. PICK m \in S : T = 0 .. m
  OBVIOUS
<1>4. ASSUME NEW n \in S, n < m PROVE FALSE
  <2>1. 0 .. n \subseteq T /\ 0 .. n # T
    <3>1. m \in 0 .. m /\ m \notin 0 .. n
      BY <1>4
    <3> QED BY <1>3, <1>4, <3>1
  <2>2. 0 .. n \in SUBSET Nat /\ T \in SUBSET Nat /\ 0 .. n \in Upto
    BY <1>3
  <2>3. <<0 .. n, T>> \in StrictSubsetOrdering(Nat)
    BY <2>1, <2>2 DEF StrictSubsetOrdering
  <2> QED BY <2>2, <2>3, <1>2
<1> QED BY <1>4

\* What one converter of reg leads to from S.
Targets(reg, S) == {k[1] : k \in {k \in Edges : reg[k] # 0 /\ k[2] \in S}}

LEMMA ReachedUnfolds == ASSUME NEW reg, NEW source
    PROVE /\ Reached(reg, source)[0] = {source}
          /\ \A n \in Nat : n # 0 =>
               Reached(reg, source)[n] = Reached(reg, source)[n - 1] \cup Targets(reg, Reached(reg, source)[n - 1])
<1> DEFINE From(S) == {k[1] : k \in {k \in Edges : reg[k] # 0 /\ k[2] \in S}}
           Space == {source} \cup {k[1] : k \in Edges}
           Way(p, i) == /\ p[0] = source
                        /\ \A j \in 1 .. i : p[j] = p[j - 1] \/ p[j] \in From({p[j - 1]})
           Set(i) == {x \in Space : \E p \in [Nat -> Space] : Way(p, i) /\ p[i] = x}
           F == [i \in Nat |-> Set(i)]
<1>1. Set(0) = {source}
  <2>1. [i \in Nat |-> source] \in [Nat -> Space] /\ Way([i \in Nat |-> source], 0)
    OBVIOUS
  <2> QED BY <2>1
<1>2. ASSUME NEW i \in Nat, i # 0 PROVE Set(i) = Set(i - 1) \cup From(Set(i - 1))
  <2>1. ASSUME NEW x \in Set(i) PROVE x \in Set(i - 1) \cup From(Set(i - 1))
    <3>1. PICK p \in [Nat -> Space] : Way(p, i) /\ p[i] = x
      OBVIOUS
    <3>2. Way(p, i - 1) /\ i - 1 \in Nat
      BY <1>2, <3>1
    <3>3. p[i - 1] \in Set(i - 1)
      BY <3>2
    <3>4. p[i] = p[i - 1] \/ p[i] \in From({p[i - 1]})
      BY <1>2, <3>1
    <3> QED BY <3>1, <3>3, <3>4
  <2>2. ASSUME NEW y \in Set(i - 1), NEW x \in Space, x = y \/ x \in From({y}) PROVE x \in Set(i)
    <3>1. PICK p \in [Nat -> Space] : Way(p, i - 1) /\ p[i - 1] = y
      BY <2>2
    <3> DEFINE q == [p EXCEPT ![i] = x]
    <3>2. q \in [Nat -> Space] /\ q[i] = x /\ q[0] = source
      BY <3>1, <1>2
    <3>3. ASSUME NEW j \in 1 .. i PROVE q[j] = q[j - 1] \/ q[j] \in From({q[j - 1]})
      <4>1. CASE j = i
        BY <4>1, <3>1, <2>2, <1>2
      <4>2. CASE j # i
        <5>1. q[j] = p[j] /\ q[j - 1] = p[j - 1] /\ j \in 1 .. i - 1
          BY <4>2, <1>2
        <5> QED BY <5>1, <3>1
      <4> QED BY <4>1, <4>2
    <3> QED BY <3>2, <3>3
  <2>3. From(Set(i - 1)) \subseteq Space
    OBVIOUS
  <2>4. \A x \in From(Set(i - 1)) : \E y \in Set(i - 1) : x \in From({y})
    OBVIOUS
  <2> HIDE DEF Set, From, Space
  <2>5. Set(i - 1) \subseteq Space
    BY DEF Set
  <2> QED BY <2>1, <2>2, <2>3, <2>4, <2>5
<1> HIDE DEF Set
<1>3. F = [i \in Nat |-> IF i = 0 THEN {source} ELSE F[i - 1] \cup From(F[i - 1])]
  BY <1>1, <1>2
<1>4. Reached(reg, source) = [i \in Nat |-> IF i = 0 THEN {source} ELSE Reached(reg, source)[i - 1] \cup From(Reached(reg, source)[i - 1])]
  BY <1>3 DEF Reached
<1>5. \A S : Targets(reg, S) = From(S)
  BY DEF Targets
<1> DEFINE R == Reached(reg, source)
<1>6. ASSUME NEW n \in Nat PROVE R[n] = IF n = 0 THEN {source} ELSE R[n - 1] \cup From(R[n - 1])
  BY <1>4
<1> HIDE DEF R, From
<1>7. ASSUME NEW n \in Nat, n # 0 PROVE R[n] = R[n - 1] \cup Targets(reg, R[n - 1])
  BY <1>5, <1>6, <1>7
<1>8. R[0] = {source}
  BY <1>6
<1> QED BY <1>7, <1>8 DEF R

-----------------------------------------------------------------------------
(* Inheritance.                                                            *)

LEMMA BaseFacts == ASSUME NEW c \in Types
    PROVE /\ Base(c) \subseteq Types
          /\ \A s, u \in Base(c) : s = u /\ s = Super[c]
BY DEF Base

LEMMA AboveUnfolds == ASSUME NEW c \in Types
    PROVE Above[c] = {c} \cup UNION {Above[s] : s \in Base(c)}
<1> DEFINE Closed(S) == \A z \in S : Base(z) \subseteq S
           Least(x) == {y \in Types : \A S \in SUBSET Types : x \in S /\ Closed(S) => y \in S}
           F == [x \in Types |-> Least(x)]
<1>1. ASSUME NEW x \in Types PROVE Least(x) = {x} \cup UNION {Least(s) : s \in Base(x)}
  <2>1. x \in Least(x)
    OBVIOUS
  <2>2. ASSUME NEW s \in Base(x) PROVE Least(s) \subseteq Least(x)
    OBVIOUS
  <2>3. ASSUME NEW y \in Least(x), y # x, \A s \in Base(x) : y \notin Least(s) PROVE FALSE
    <3>1. CASE Base(x) = {}
      <4>1. Closed({x}) /\ {x} \in SUBSET Types
        BY <3>1
      <4> QED BY <4>1, <2>3
    <3>2. CASE Base(x) # {}
      <4>1. PICK s \in Base(x) : Base(x) = {s}
        BY <3>2, BaseFacts
      <4>2. PICK S \in SUBSET Types : s \in S /\ Closed(S) /\ y \notin S
        BY <2>3, <4>1, BaseFacts
      <4>3. Closed(S \cup {x}) /\ S \cup {x} \in SUBSET Types
        BY <4>1, <4>2
      <4> QED BY <4>2, <4>3, <2>3
    <3> QED BY <3>1, <3>2
  <2> HIDE DEF Least
  <2> QED BY <2>1, <2>2, <2>3
<1> HIDE DEF Least
<1>2. F = [x \in Types |-> {x} \cup UNION {F[s] : s \in Base(x)}]
  <2>1. \A x \in Types : UNION {F[s] : s \in Base(x)} = UNION {Least(s) : s \in Base(x)}
    BY BaseFacts
  <2> QED BY <1>1, <2>1
<1>3. Above = [x \in Types |-> {x} \cup UNION {Above[s] : s \in Base(x)}]
  BY <1>2 DEF Above
<1> QED BY <1>3

LEMMA Climbs == ASSUME NEW S \in SUBSET Types, \A x \in S : Base(x) \subseteq S, NEW c \in S
    PROVE Above[c] \subseteq S
<1> DEFINE T == {x \in S : ~(Above[x] \subseteq S)}
<1>1. SUFFICES ASSUME T # {} PROVE FALSE
  OBVIOUS
<1>2. PICK x \in T : Base(x) \cap T = {}
  BY <1>1, InheritanceAssumption
<1>3. \A s \in Base(x) : Above[s] \subseteq S
  BY <1>2
<1> QED BY <1>2, <1>3, AboveUnfolds

LEMMA AboveFacts == ASSUME NEW c \in Types
    PROVE /\ c \in Above[c] /\ Above[c] \subseteq Types
          /\ \A x \in Above[c] : Base(x) \subseteq Above[c]
          /\ \A x \in Above[c] : Above[x] \subseteq Above[c]
          /\ \A s \in Base(c) : Above[c] = {c} \cup Above[s]
<1>1. c \in Above[c] /\ Above[c] \subseteq Types
  BY AboveUnfolds, Climbs, BaseFacts
<1>2. \A s \in Base(c) : Above[c] = {c} \cup Above[s]
  BY AboveUnfolds, BaseFacts
<1>3. \A x \in Above[c] : Base(x) \subseteq Above[c]
  <2> DEFINE T == {d \in Types : \E x \in Above[d] : ~(Base(x) \subseteq Above[d])}
  <2>1. SUFFICES ASSUME T # {} PROVE FALSE
    OBVIOUS
  <2>2. PICK d \in T : Base(d) \cap T = {}
    BY <2>1, InheritanceAssumption
  <2>3. PICK x \in Above[d] : ~(Base(x) \subseteq Above[d])
    BY <2>2
  <2>4. \A s \in Base(d) : s \in Above[s] /\ Above[s] \subseteq Above[d]
    BY AboveUnfolds, BaseFacts
  <2>5. x # d
    BY <2>3, <2>4
  <2>6. PICK s \in Base(d) : x \in Above[s]
    BY <2>3, <2>5, AboveUnfolds
  <2> QED BY <2>2, <2>3, <2>4, <2>6, BaseFacts
<1> QED BY <1>1, <1>2, <1>3, Climbs

\* Single inheritance: of two classes above a third one is above the other.
LEMMA OneLine == ASSUME NEW c \in Types, NEW x \in Above[c], NEW y \in Above[c]
    PROVE x \in Above[y] \/ y \in Above[x]
<1> DEFINE T == {d \in Types : \E u, v \in Above[d] : u \notin Above[v] /\ v \notin Above[u]}
<1>1. SUFFICES ASSUME T # {} PROVE FALSE
  OBVIOUS
<1>2. PICK d \in T : Base(d) \cap T = {}
  BY <1>1, InheritanceAssumption
<1>3. PICK u, v \in Above[d] : u \notin Above[v] /\ v \notin Above[u]
  BY <1>2
<1>4. u # d /\ v # d
  BY <1>3
<1>5. PICK s \in Base(d) : u \in Above[s]
  BY <1>3, <1>4, AboveUnfolds
<1>6. v \in Above[s]
  BY <1>4, <1>5, AboveFacts
<1> QED BY <1>2, <1>3, <1>5, <1>6, BaseFacts

-----------------------------------------------------------------------------
(* One search, in a registry reg that does not change meanwhile.           *)

\* Functions of reg that lead from source to end, the one after the other.
Leads(reg, source, fs, end) ==
    /\ fs \in Seq(Edges \X Nat)
    /\ \A i \in 1 .. Len(fs) : fs[i][2] = reg[fs[i][1]]
    /\ \A i \in 1 .. Len(fs) - 1 : fs[i][1][1] = fs[i + 1][1][2]
    /\ Len(fs) = 0 => end = source
    /\ Len(fs) > 0 => fs[1][1][2] = source /\ fs[Len(fs)][1][1] = end

\* No fewer than n converters lead from source to x.
Takes(reg, source, x, n) == \A i \in Nat : i < n => x \notin Reached(reg, source)[i]

Items == [type : Types, functions : Seq(Edges \X Nat)]

InShape(c) ==
    /\ c = [f \in {"at", "target", "source", "seen", "queue", "visited"} |-> c[f]]
    /\ c.at = "searching"

\* What is in the queue is reached by a shortest chain, in the order of the lengths,
\* which differ by one at most.
Queued(reg, c) ==
    /\ c.queue \in Seq(Items)
    /\ \A i \in 1 .. Len(c.queue) :
         /\ Leads(reg, c.source, c.queue[i].functions, c.queue[i].type)
         /\ Takes(reg, c.source, c.queue[i].type, Len(c.queue[i].functions))
         /\ Len(c.queue[i].functions) <= Len(c.queue[1].functions) + 1
    /\ \A i, j \in 1 .. Len(c.queue) : i <= j => Len(c.queue[i].functions) <= Len(c.queue[j].functions)

\* All that is as near as the head of the queue was visited, and what was visited and
\* is no longer in the queue leads nowhere else.
Covered(reg, c) ==
    /\ c.source \in c.visited /\ c.target \notin c.visited
    /\ \A x \in c.visited : (\E i \in 1 .. Len(c.queue) : c.queue[i].type = x)
         \/ \A k \in Edges : reg[k] # 0 /\ k[2] = x => k[1] \in c.visited
    /\ Len(c.queue) > 0 => \A n \in Nat : n <= Len(c.queue[1].functions) => Reached(reg, c.source)[n] \subseteq c.visited

Searching(reg, c) ==
    /\ InShape(c) /\ c.seen = reg /\ c.source \in Types /\ c.target # c.source
    /\ Queued(reg, c) /\ Covered(reg, c)

FoundIt(c) ==
    /\ Leads(c.seen, c.source, c.functions, c.target) /\ Len(c.functions) > 0
    /\ Takes(c.seen, c.source, c.target, Len(c.functions))

FoundNone(c) == \A n \in Nat : c.target \notin Reached(c.seen, c.source)[n]

Result(c, functions) == [at |-> "found", target |-> c.target, source |-> c.source, seen |-> c.seen,
                         functions |-> functions]

LEMMA EdgeFacts == ASSUME NEW k \in Edges
    PROVE k = <<k[1], k[2]>> /\ k[1] \in Types /\ k[2] \in Types /\ k[1] # k[2]
BY RegistryAssumption

LEMMA ReachedZero == ASSUME NEW reg, NEW source PROVE Reached(reg, source)[0] = {source}
BY ReachedUnfolds

LEMMA ReachedNext == ASSUME NEW reg, NEW source, NEW n \in Nat, NEW x \in Reached(reg, source)[n + 1]
    PROVE \/ x \in Reached(reg, source)[n]
          \/ \E k \in Edges : reg[k] # 0 /\ k[2] \in Reached(reg, source)[n] /\ k[1] = x
<1>1. n + 1 \in Nat /\ n + 1 # 0 /\ (n + 1) - 1 = n
  OBVIOUS
<1>2. Reached(reg, source)[n + 1] = Reached(reg, source)[n] \cup Targets(reg, Reached(reg, source)[n])
  <2> DEFINE R == Reached(reg, source)
  <2>1. \A m \in Nat : m # 0 => R[m] = R[m - 1] \cup Targets(reg, R[m - 1])
    BY ReachedUnfolds
  <2> HIDE DEF R
  <2>2. R[n + 1] = R[n] \cup Targets(reg, R[n])
    BY <1>1, <2>1
  <2> QED BY <2>2 DEF R
<1> QED BY <1>2 DEF Targets

\* A set with the source that no converter leaves has all that is reached.
LEMMA ClosedReached == ASSUME NEW reg, NEW source, NEW V, source \in V,
                              \A k \in Edges : reg[k] # 0 /\ k[2] \in V => k[1] \in V
    PROVE \A n \in Nat : Reached(reg, source)[n] \subseteq V
<1> DEFINE T == {n \in Nat : ~(Reached(reg, source)[n] \subseteq V)}
<1>1. SUFFICES ASSUME T # {} PROVE FALSE
  OBVIOUS
<1>2. PICK m \in T : \A n \in T : m <= n
  BY <1>1, LeastNatural
<1>3. m # 0
  BY <1>2, ReachedZero
<1>4. m - 1 \in Nat /\ m - 1 \notin T /\ (m - 1) + 1 = m
  BY <1>2, <1>3
<1>5. PICK x \in Reached(reg, source)[m] : x \notin V
  BY <1>2
<1> QED BY <1>4, <1>5, ReachedNext

LEMMA LeadsOn == ASSUME NEW reg \in [Edges -> Nat], NEW source, NEW fs, NEW end, Leads(reg, source, fs, end),
                        NEW k \in Edges, k[2] = end
    PROVE Leads(reg, source, Append(fs, <<k, reg[k]>>), k[1])
<1> DEFINE gs == Append(fs, <<k, reg[k]>>)
<1>1. gs \in Seq(Edges \X Nat) /\ Len(gs) = Len(fs) + 1 /\ gs[Len(gs)] = <<k, reg[k]>> /\ Len(fs) \in Nat
  BY DEF Leads
<1>2. \A i \in 1 .. Len(fs) : gs[i] = fs[i]
  BY DEF Leads
<1>3. \A i \in 1 .. Len(gs) : gs[i][2] = reg[gs[i][1]]
  BY <1>1, <1>2 DEF Leads
<1>4. ASSUME NEW i \in 1 .. Len(gs) - 1 PROVE gs[i][1][1] = gs[i + 1][1][2]
  <2>1. CASE i = Len(fs)
    BY <2>1, <1>1, <1>2, <1>4 DEF Leads
  <2>2. CASE i # Len(fs)
    <3>1. i \in 1 .. Len(fs) - 1 /\ i \in 1 .. Len(fs) /\ i + 1 \in 1 .. Len(fs)
      BY <2>2, <1>1, <1>4
    <3> QED BY <3>1, <1>2 DEF Leads
  <2> QED BY <2>1, <2>2
<1>5. gs[1][1][2] = source
  <2>1. CASE Len(fs) = 0
    BY <2>1, <1>1 DEF Leads
  <2>2. CASE Len(fs) > 0
    BY <2>2, <1>1, <1>2 DEF Leads
  <2> QED BY <2>1, <2>2, <1>1
<1>6. gs[Len(gs)][1][1] = k[1] /\ Len(gs) > 0
  BY <1>1
<1> HIDE DEF gs
<1>7. Leads(reg, source, gs, k[1])
  BY <1>1, <1>3, <1>4, <1>5, <1>6 DEF Leads
<1> QED BY <1>7 DEF gs

\* The first in the queue leads to k's source, which nobody came to by k yet: either it
\* is what was looked for, or it is put at the end of the queue.
LEMMA Visits == ASSUME NEW reg \in [Edges -> Nat], NEW c, Searching(reg, c), Len(c.queue) > 0,
                       NEW k \in Edges, reg[k] # 0, k[2] = c.queue[1].type, k[1] \notin c.visited,
                       NEW fs, fs = Append(c.queue[1].functions, <<k, reg[k]>>)
    PROVE /\ k[1] = c.target => FoundIt(Result(c, fs))
          /\ k[1] # c.target => Searching(reg, [c EXCEPT !.visited = @ \cup {k[1]},
                                                 !.queue = Append(@, [type |-> k[1], functions |-> fs])])
<1> DEFINE d == Len(c.queue[1].functions)
           item == [type |-> k[1], functions |-> fs]
           q == Append(c.queue, item)
           V == c.visited \cup {k[1]}
<1>1. c.queue \in Seq(Items) /\ 1 \in 1 .. Len(c.queue) /\ c.queue[1] \in Items /\ Len(c.queue) \in Nat
  BY DEF Searching, Queued
<1>2. d \in Nat /\ c.queue[1].functions \in Seq(Edges \X Nat)
  BY <1>1 DEF Items
<1>3. Leads(reg, c.source, fs, k[1])
  BY <1>1, LeadsOn DEF Searching, Queued
<1>4. Len(fs) = d + 1 /\ fs \in Seq(Edges \X Nat)
  <2>1. PICK old : old = c.queue[1].functions
    OBVIOUS
  <2>2. old \in Seq(Edges \X Nat) /\ fs = Append(old, <<k, reg[k]>>)
    BY <1>2, <2>1
  <2>3. Len(fs) = Len(old) + 1
    BY <2>2, SMTT(60)
  <2> QED BY <1>3, <2>1, <2>3 DEF Leads
<1>5. Takes(reg, c.source, k[1], d + 1)
  <2>1. \A n \in Nat : n <= d => Reached(reg, c.source)[n] \subseteq c.visited
    BY DEF Searching, Covered
  <2>2. \A i \in Nat : i < d + 1 => i <= d
    BY <1>2
  <2> QED BY <2>1, <2>2 DEF Takes
<1>6. ASSUME k[1] = c.target PROVE FoundIt(Result(c, fs))
  BY <1>3, <1>4, <1>5, <1>6, <1>2 DEF FoundIt, Result, Searching
<1>7. ASSUME k[1] # c.target
      PROVE Searching(reg, [c EXCEPT !.visited = @ \cup {k[1]}, !.queue = Append(@, [type |-> k[1], functions |-> fs])])
  <2>1. PICK n : n = [c EXCEPT !.visited = @ \cup {k[1]}, !.queue = Append(@, [type |-> k[1], functions |-> fs])]
    OBVIOUS
  <2> DEFINE same == InShape(n) /\ n.visited = V /\ n.queue = q
                     /\ n.target = c.target /\ n.source = c.source /\ n.seen = c.seen
  <2>s. same
    <3>1. n = [c EXCEPT !.visited = V, !.queue = q]
      BY <2>1
    <3>2. InShape(c)
      BY DEF Searching
    <3> HIDE DEF V, q
    <3>4. PICK m : m = [c EXCEPT !.visited = V]
      OBVIOUS
    <3>5. n = [m EXCEPT !.queue = q]
      BY <3>1, <3>2, <3>4 DEF InShape
    <3>3. InShape(n) /\ n.visited = V /\ n.queue = q /\ n.target = c.target /\ n.source = c.source /\ n.seen = c.seen
      BY <3>2, <3>4, <3>5 DEF InShape
    <3> QED BY <3>3
  <2>2. item \in Items /\ q \in Seq(Items) /\ Len(q) = Len(c.queue) + 1 /\ q[Len(q)] = item
    BY <1>1, <1>4, EdgeFacts DEF Items
  <2>3. \A i \in 1 .. Len(c.queue) : q[i] = c.queue[i]
    BY <1>1, <2>2
  <2>4. q[1] = c.queue[1] /\ Len(q) > 0
    BY <1>1, <2>2, <2>3
  <2>5. \A i \in 1 .. Len(c.queue) : Len(c.queue[i].functions) <= d + 1 /\ Len(c.queue[i].functions) \in Nat
    <3>1. \A i \in 1 .. Len(c.queue) : c.queue[i] \in Items
      BY <1>1
    <3> QED BY <3>1 DEF Searching, Queued, Items
  <2> HIDE DEF q, item, V
  <2>6. item.type = k[1] /\ item.functions = fs
    BY DEF item
  <2>7. Queued(reg, n)
    <3>1. n.queue = q /\ n.source = c.source
      BY <2>s
    <3>2. ASSUME NEW i \in 1 .. Len(q)
          PROVE /\ Leads(reg, c.source, q[i].functions, q[i].type)
                /\ Takes(reg, c.source, q[i].type, Len(q[i].functions))
                /\ Len(q[i].functions) <= d + 1
      <4>1. CASE i = Len(q)
        BY <4>1, <2>2, <2>6, <1>3, <1>4, <1>5, <1>2
      <4>2. CASE i # Len(q)
        <5>1. i \in 1 .. Len(c.queue)
          BY <4>2, <2>2, <1>1
        <5> QED BY <5>1, <2>3, <2>5 DEF Searching, Queued
      <4> QED BY <4>1, <4>2
    <3>3. ASSUME NEW i \in 1 .. Len(q), NEW j \in 1 .. Len(q), i <= j
          PROVE Len(q[i].functions) <= Len(q[j].functions)
      <4>1. CASE j = Len(q)
        <5>1. Len(q[j].functions) = d + 1
          BY <4>1, <2>2, <2>6, <1>4
        <5> QED BY <5>1, <3>2
      <4>2. CASE j # Len(q)
        <5>1. i \in 1 .. Len(c.queue) /\ j \in 1 .. Len(c.queue)
          BY <4>2, <2>2, <1>1, <3>3
        <5> QED BY <5>1, <2>3, <3>3 DEF Searching, Queued
      <4> QED BY <4>1, <4>2
    <3> QED BY <3>1, <3>2, <3>3, <2>2, <2>4 DEF Queued
  <2>8. Covered(reg, n)
    <3>1. n.queue = q /\ n.source = c.source /\ n.target = c.target /\ n.visited = V
      BY <2>s
    <3>2. c.source \in V /\ c.target \notin V
      BY <1>7 DEF V, Searching, Covered
    <3>3. ASSUME NEW x \in V
          PROVE (\E i \in 1 .. Len(q) : q[i].type = x) \/ \A e \in Edges : reg[e] # 0 /\ e[2] = x => e[1] \in V
      <4>1. CASE x = k[1]
        <5>1. Len(q) \in 1 .. Len(q)
          BY <2>2, <1>1
        <5> QED BY <5>1, <4>1, <2>2, <2>6
      <4>2. CASE x # k[1]
        <5>1. x \in c.visited
          BY <4>2 DEF V
        <5>2. \A i \in 1 .. Len(c.queue) : i \in 1 .. Len(q) /\ q[i] = c.queue[i]
          BY <2>2, <2>3, <1>1
        <5>3. (\E i \in 1 .. Len(c.queue) : c.queue[i].type = x)
              \/ \A e \in Edges : reg[e] # 0 /\ e[2] = x => e[1] \in c.visited
          BY <5>1 DEF Searching, Covered
        <5>4. c.visited \subseteq V
          BY DEF V
        <5> QED BY <5>2, <5>3, <5>4
      <4> QED BY <4>1, <4>2
    <3>4. \A m \in Nat : m <= Len(q[1].functions) => Reached(reg, c.source)[m] \subseteq V
      BY <2>4 DEF Searching, Covered, V
    <3> QED BY <3>1, <3>2, <3>3, <3>4 DEF Covered
  <2>9. InShape(n) /\ n.seen = reg /\ n.source \in Types /\ n.target # n.source
    BY <2>s DEF Searching
  <2> QED BY <2>1, <2>7, <2>8, <2>9 DEF Searching
<1> QED BY <1>6, <1>7

LEMMA Pops == ASSUME NEW c, InShape(c), NEW queue, NEW n, n = [c EXCEPT !.queue = queue]
    PROVE /\ InShape(n) /\ n.queue = queue /\ n.visited = c.visited
          /\ n.target = c.target /\ n.source = c.source /\ n.seen = c.seen
BY DEF InShape

\* The head of the queue leads to nothing new: the next one is as near, or one further
\* and then all that was as near was visited.
LEMMA Advances == ASSUME NEW reg \in [Edges -> Nat], NEW c, Searching(reg, c), Len(c.queue) > 0,
                         \A k \in Edges : reg[k] # 0 /\ k[2] = c.queue[1].type => k[1] \in c.visited
    PROVE Searching(reg, [c EXCEPT !.queue = Tail(@)])
<1> DEFINE q == Tail(c.queue)
           V == c.visited
           L(i) == Len(c.queue[i].functions)
<1>1. PICK n : n = [c EXCEPT !.queue = Tail(@)]
  OBVIOUS
<1>2. InShape(n) /\ n.queue = q /\ n.visited = V /\ n.target = c.target /\ n.source = c.source /\ n.seen = c.seen
  <2>1. n = [c EXCEPT !.queue = q] /\ InShape(c)
    BY <1>1 DEF Searching
  <2> HIDE DEF q, V
  <2>2. InShape(n) /\ n.queue = q /\ n.visited = c.visited /\ n.target = c.target /\ n.source = c.source /\ n.seen = c.seen
    BY <2>1 DEF InShape
  <2> QED BY <2>2 DEF V
<1>3. c.queue \in Seq(Items) /\ Len(c.queue) \in Nat /\ 1 \in 1 .. Len(c.queue)
  BY DEF Searching, Queued
<1>4. q \in Seq(Items) /\ Len(q) = Len(c.queue) - 1 /\ \A i \in 1 .. Len(q) : q[i] = c.queue[i + 1]
  BY <1>3, HeadTailProperties
<1>5. \A i \in 1 .. Len(c.queue) : L(i) \in Nat
  <2>1. \A i \in 1 .. Len(c.queue) : c.queue[i] \in Items
    BY <1>3
  <2> QED BY <2>1 DEF Items
<1>6. \A i \in 1 .. Len(c.queue) : L(i) <= L(1) + 1
  BY DEF Searching, Queued
<1>7. \A i, j \in 1 .. Len(c.queue) : i <= j => L(i) <= L(j)
  BY DEF Searching, Queued
<1>8. \A i \in 1 .. Len(c.queue) :
        Leads(reg, c.source, c.queue[i].functions, c.queue[i].type) /\ Takes(reg, c.source, c.queue[i].type, L(i))
  BY DEF Searching, Queued
<1>9. \A i \in 1 .. Len(q) : i + 1 \in 1 .. Len(c.queue)
  BY <1>3, <1>4
<1>10. Queued(reg, n)
  <2>1. ASSUME NEW i \in 1 .. Len(q)
        PROVE /\ Leads(reg, c.source, q[i].functions, q[i].type)
              /\ Takes(reg, c.source, q[i].type, Len(q[i].functions))
              /\ Len(q[i].functions) <= Len(q[1].functions) + 1
    <3>1. 1 \in 1 .. Len(q) /\ q[1] = c.queue[2] /\ 2 \in 1 .. Len(c.queue) /\ 1 <= 2
      BY <1>3, <1>4
    <3>2. L(i + 1) <= L(1) + 1 /\ L(1) <= L(2) /\ {L(1), L(2), L(i + 1)} \subseteq Nat
      BY <1>3, <1>5, <1>6, <1>7, <1>9, <3>1
    <3>3. Len(q[i].functions) <= Len(q[1].functions) + 1
      <4>1. Len(q[i].functions) = L(i + 1) /\ Len(q[1].functions) = L(2)
        BY <3>1, <1>4
      <4> HIDE DEF L
      <4> QED BY <4>1, <3>2
    <3> QED BY <3>3, <1>4, <1>8, <1>9
  <2>2. ASSUME NEW i \in 1 .. Len(q), NEW j \in 1 .. Len(q), i <= j PROVE Len(q[i].functions) <= Len(q[j].functions)
    <3>1. i + 1 <= j + 1
      BY <2>2
    <3> QED BY <3>1, <1>4, <1>7, <1>9
  <2> HIDE DEF q
  <2> QED BY <1>2, <1>4, <2>1, <2>2 DEF Queued
<1>11. ASSUME NEW x \in V
       PROVE (\E i \in 1 .. Len(q) : q[i].type = x) \/ \A k \in Edges : reg[k] # 0 /\ k[2] = x => k[1] \in V
  <2>1. CASE \A k \in Edges : reg[k] # 0 /\ k[2] = x => k[1] \in V
    BY <2>1
  <2>2. CASE \E i \in 1 .. Len(c.queue) : c.queue[i].type = x
    <3>1. PICK i \in 1 .. Len(c.queue) : c.queue[i].type = x
      BY <2>2
    <3>2. CASE i = 1
      BY <3>1, <3>2
    <3>3. CASE i # 1
      <4>1. i - 1 \in 1 .. Len(q) /\ (i - 1) + 1 = i
        BY <3>3, <1>3, <1>4
      <4> QED BY <4>1, <3>1, <1>4
    <3> QED BY <3>2, <3>3
  <2> QED BY <2>1, <2>2 DEF Searching, Covered
<1>12. ASSUME Len(q) > 0, NEW m \in Nat, m <= Len(q[1].functions) PROVE Reached(reg, c.source)[m] \subseteq V
  <2>1. 1 \in 1 .. Len(q) /\ q[1] = c.queue[2] /\ 2 \in 1 .. Len(c.queue)
    BY <1>3, <1>4, <1>12
  <2>2. L(1) \in Nat /\ L(2) \in Nat /\ L(2) <= L(1) + 1 /\ m <= L(2)
    BY <1>5, <1>6, <1>12, <2>1, <1>3
  <2>3. \A i \in Nat : i <= L(1) => Reached(reg, c.source)[i] \subseteq V
    BY <1>3 DEF Searching, Covered
  <2>4. CASE m <= L(1)
    BY <2>3, <2>4
  <2>5. CASE m = L(1) + 1
    <3>1. ASSUME NEW y \in Reached(reg, c.source)[m] PROVE y \in V
      <4>1. CASE y \in Reached(reg, c.source)[L(1)]
        <5>1. L(1) <= L(1) /\ L(1) \in Nat
          BY <2>2
        <5> HIDE DEF L, V
        <5> QED BY <4>1, <2>3, <5>1
      <4>2. CASE y \notin Reached(reg, c.source)[L(1)]
        <5>1. PICK k \in Edges : reg[k] # 0 /\ k[2] \in Reached(reg, c.source)[L(1)] /\ k[1] = y
          <6>1. y \in Reached(reg, c.source)[L(1) + 1]
            BY <2>5
          <6> HIDE DEF L
          <6> QED BY <6>1, <4>2, <2>2, ReachedNext
        <5>2. k[2] \in V
          BY <5>1, <2>2, <2>3, SMTT(60)
        <5>3. \A i \in 1 .. Len(q) : q[i].type # k[2]
          <6> SUFFICES ASSUME NEW i \in 1 .. Len(q), q[i].type = k[2] PROVE FALSE
            OBVIOUS
          <6>1. i + 1 \in 1 .. Len(c.queue) /\ 2 <= i + 1
            BY <1>9
          <6>2. L(2) <= L(i + 1) /\ L(i + 1) \in Nat
            BY <6>1, <2>1, <1>5, <1>7
          <6>3. L(1) < L(i + 1)
            BY <6>2, <2>2, <2>5, SMTT(60)
          <6>4. Takes(reg, c.source, k[2], L(i + 1))
            BY <6>1, <1>4, <1>8
          <6> QED BY <6>3, <6>4, <5>1, <2>2 DEF Takes
        <5> QED BY <5>1, <5>2, <5>3, <1>11
      <4> QED BY <4>1, <4>2
    <3> QED BY <3>1
  <2> HIDE DEF L
  <2> QED BY <2>2, <2>4, <2>5
<1>13. Covered(reg, n)
  <2> HIDE DEF q
  <2>1. c.source \in V /\ c.target \notin V
    BY DEF Searching, Covered
  <2> QED BY <1>2, <1>11, <1>12, <2>1 DEF Covered
<1> QED BY <1>1, <1>2, <1>10, <1>13 DEF Searching

LEMMA Exhausts == ASSUME NEW reg, NEW c, Searching(reg, c), Len(c.queue) = 0, NEW d,
                         d.target = c.target, d.source = c.source, d.seen = c.seen
    PROVE FoundNone(d)
<1>1. c.source \in c.visited /\ c.target \notin c.visited /\ c.seen = reg
  BY DEF Searching, Covered
<1>2. \A k \in Edges : reg[k] # 0 /\ k[2] \in c.visited => k[1] \in c.visited
  BY DEF Searching, Covered
<1>3. \A n \in Nat : Reached(reg, c.source)[n] \subseteq c.visited
  BY <1>1, <1>2, ClosedReached
<1> QED BY <1>1, <1>3 DEF FoundNone

-----------------------------------------------------------------------------
(* The registry: AnyRegistry's actions.                                    *)

Sound(reg, c) ==
    /\ c.at = "searching" => Searching(reg, c)
    /\ c.at = "found" => FoundIt(c)
    /\ c.at = "none" => FoundNone(c)

RegistryInv ==
    /\ converters \in [Edges -> Nat] /\ adds \in Nat
    /\ call = [t \in Threads |-> call[t]]
    /\ \A t \in Threads : Sound(converters, call[t])

LEMMA SoundFound == ASSUME NEW c, NEW reg, c.at = "found", FoundIt(c) PROVE Sound(reg, c)
BY DEF Sound

LEMMA SoundSearch == ASSUME NEW c, NEW reg, Searching(reg, c) PROVE Sound(reg, c)
BY DEF Sound, Searching, InShape

LEMMA OneCall == ASSUME RegistryInv, UNCHANGED <<converters, adds>>, NEW t \in Threads, NEW c,
                        call' = [call EXCEPT ![t] = c], Sound(converters, c)
    PROVE RegistryInv'
<1>1. call' = [u \in Threads |-> call'[u]] /\ call'[t] = c /\ \A u \in Threads : u # t => call'[u] = call[u]
  BY DEF RegistryInv
<1>2. \A u \in Threads : Sound(converters, call[u])
  BY DEF RegistryInv
<1>3. \A u \in Threads : Sound(converters, call'[u])
  BY <1>1, <1>2
<1>4. converters' = converters
  OBVIOUS
<1>5. (\A u \in Threads : Sound(converters, call[u]))'
  BY <1>3, <1>4
<1> QED BY <1>1, <1>5 DEF RegistryInv

LEMMA AddKeeps == ASSUME RegistryInv, NEW t \in Threads, NEW k \in Edges, Add(t, k) PROVE RegistryInv'
<1>1. call' = call /\ \A u \in Threads : call[u].at # "searching"
  BY DEF Add, MayAdd, At
<1>2. \A u \in Threads : Sound(converters, call[u])
  BY DEF RegistryInv
<1>3. \A u \in Threads : Sound(converters', call[u])
  BY <1>1, <1>2 DEF Sound
<1>4. (\A u \in Threads : Sound(converters, call[u]))'
  BY <1>1, <1>3
<1>5. converters' \in [Edges -> Nat] /\ adds' \in Nat
  BY DEF Add, RegistryInv
<1> QED BY <1>1, <1>4, <1>5 DEF RegistryInv

LEMMA ConvertKeeps == ASSUME RegistryInv, NEW t \in Threads, NEW target, NEW source \in Types, target # source,
                             Convert(t, target, source)
    PROVE RegistryInv'
<1>1. CASE <<target, source>> \in Registered
  <2> DEFINE k == <<target, source>>
             fs == <<Converter(k)>>
  <2>1. k \in Edges /\ converters \in [Edges -> Nat]
    BY <1>1 DEF Registered, RegistryInv
  <2>2. PICK c : c = [at |-> "found", target |-> target, source |-> source, seen |-> converters, functions |-> fs]
    OBVIOUS
  <2>3. call' = [call EXCEPT ![t] = c] /\ UNCHANGED <<converters, adds>>
    BY <1>1, <2>2 DEF Convert
  <2>4. c.at = "found" /\ c.target = target /\ c.source = source /\ c.seen = converters /\ c.functions = fs
    BY <2>2
  <2>5. fs \in Seq(Edges \X Nat) /\ Len(fs) = 1 /\ fs[1] = <<k, converters[k]>>
    BY <2>1 DEF Converter
  <2>6. k[1] = target /\ k[2] = source
    OBVIOUS
  <2> HIDE DEF k, fs
  <2>7. Leads(converters, source, fs, target)
    BY <2>5, <2>6 DEF Leads
  <2>8. Takes(converters, source, target, 1)
    <3>1. \A i \in Nat : i < 1 => i = 0
      OBVIOUS
    <3> QED BY <3>1, ReachedZero DEF Takes
  <2>9. FoundIt(c)
    BY <2>4, <2>5, <2>7, <2>8 DEF FoundIt
  <2> QED BY <2>3, <2>4, <2>9, SoundFound, OneCall
<1>2. CASE <<target, source>> \notin Registered
  <2> DEFINE q == <<[type |-> source, functions |-> <<>>]>>
  <2>1. PICK c : c = [at |-> "searching", target |-> target, source |-> source, seen |-> converters,
                      queue |-> q, visited |-> {source}]
    OBVIOUS
  <2>2. call' = [call EXCEPT ![t] = c] /\ UNCHANGED <<converters, adds>>
    BY <1>2, <2>1 DEF Convert
  <2>3. InShape(c) /\ c.target = target /\ c.source = source /\ c.seen = converters
        /\ c.queue = q /\ c.visited = {source}
    BY <2>1 DEF InShape
  <2>4. q[1].type = source /\ q[1].functions = <<>> /\ Len(q) = 1 /\ q \in Seq(Items)
    <3>1. [type |-> source, functions |-> <<>>] \in Items
      BY DEF Items
    <3> QED BY <3>1
  <2> HIDE DEF q
  <2>5. Leads(converters, source, <<>>, source) /\ Len(<<>>) = 0
    BY DEF Leads
  <2>6. Takes(converters, source, source, 0)
    BY DEF Takes
  <2>7. Queued(converters, c)
    <3>1. \A i \in 1 .. Len(q) : i = 1
      BY <2>4
    <3> QED BY <3>1, <2>3, <2>4, <2>5, <2>6 DEF Queued
  <2>8. Covered(converters, c)
    <3>1. \A n \in Nat : n <= 0 => n = 0
      OBVIOUS
    <3>2. \A n \in Nat : n <= Len(c.queue[1].functions) => Reached(converters, c.source)[n] \subseteq c.visited
      BY <3>1, <2>3, <2>4, <2>5, ReachedZero
    <3>3. \A x \in c.visited : \E i \in 1 .. Len(c.queue) : c.queue[i].type = x
      BY <2>3, <2>4
    <3> QED BY <3>2, <3>3, <2>3 DEF Covered
  <2>9. Searching(converters, c)
    BY <2>3, <2>7, <2>8 DEF Searching
  <2> QED BY <2>2, <2>9, SoundSearch, OneCall
<1> QED BY <1>1, <1>2

LEMMA VisitKeeps == ASSUME RegistryInv, NEW t \in Threads, NEW k \in Edges, Visit(t, k) PROVE RegistryInv'
<1> DEFINE c == call[t]
           fs == Append(Head(c.queue).functions, Converter(k))
           n == [c EXCEPT !.visited = @ \cup {k[1]}, !.queue = Append(@, [type |-> k[1], functions |-> fs])]
<1>1. Searching(converters, c) /\ converters \in [Edges -> Nat]
  BY DEF RegistryInv, Visit, At, Sound
<1>2. c.queue \in Seq(Items) /\ Len(c.queue) > 0 /\ Head(c.queue) = c.queue[1]
  BY <1>1 DEF Visit, Searching, Queued
<1>3. converters[k] # 0 /\ k[2] = c.queue[1].type /\ k[1] \notin c.visited
      /\ fs = Append(c.queue[1].functions, <<k, converters[k]>>)
  BY <1>2 DEF Visit, Fresh, Registered, Converter
<1>4. UNCHANGED <<converters, adds>>
      /\ call' = [call EXCEPT ![t] = IF k[1] = c.target THEN Result(c, fs) ELSE n]
  BY DEF Visit, Result
<1> HIDE DEF fs, c
<1>5. /\ k[1] = c.target => FoundIt(Result(c, fs))
      /\ k[1] # c.target => Searching(converters, n)
  BY <1>1, <1>2, <1>3, Visits
<1> HIDE DEF n
<1>6. CASE k[1] = c.target
  <2>1. Result(c, fs).at = "found"
    BY DEF Result
  <2>2. call' = [call EXCEPT ![t] = Result(c, fs)]
    BY <1>4, <1>6
  <2> QED BY <1>4, <1>5, <1>6, <2>1, <2>2, SoundFound, OneCall
<1>7. CASE k[1] # c.target
  <2>1. call' = [call EXCEPT ![t] = n]
    BY <1>4, <1>7
  <2> QED BY <1>4, <1>5, <1>7, <2>1, SoundSearch, OneCall
<1> QED BY <1>6, <1>7

LEMMA NextStepKeeps == ASSUME RegistryInv, NEW t \in Threads, NextStep(t) PROVE RegistryInv'
<1> DEFINE c == call[t]
           n == [c EXCEPT !.queue = Tail(@)]
<1>1. Searching(converters, c) /\ converters \in [Edges -> Nat]
  BY DEF RegistryInv, NextStep, At, Sound
<1>2. c.queue \in Seq(Items) /\ Len(c.queue) > 0 /\ Head(c.queue) = c.queue[1]
  BY <1>1 DEF NextStep, Searching, Queued
<1>3. \A k \in Edges : converters[k] # 0 /\ k[2] = c.queue[1].type => k[1] \in c.visited
  BY <1>2 DEF NextStep, Fresh, Registered
<1>4. UNCHANGED <<converters, adds>> /\ call' = [call EXCEPT ![t] = n]
  BY DEF NextStep, RegistryInv
<1> HIDE DEF c
<1>5. Searching(converters, n)
  BY <1>1, <1>2, <1>3, Advances
<1> HIDE DEF n
<1> QED BY <1>4, <1>5, SoundSearch, OneCall

LEMMA NoPathKeeps == ASSUME RegistryInv, NEW t \in Threads, NoPath(t) PROVE RegistryInv'
<1> DEFINE c == call[t]
<1>1. Searching(converters, c) /\ Len(c.queue) = 0
  BY DEF RegistryInv, NoPath, At, Sound
<1>2. PICK d : d = [at |-> "none", target |-> c.target, source |-> c.source, seen |-> c.seen]
  OBVIOUS
<1>3. UNCHANGED <<converters, adds>> /\ call' = [call EXCEPT ![t] = d]
  BY <1>2 DEF NoPath, RegistryInv
<1>4. d.at = "none" /\ d.target = c.target /\ d.source = c.source /\ d.seen = c.seen
  BY <1>2
<1> HIDE DEF c
<1>5. FoundNone(d)
  BY <1>1, <1>4, Exhausts
<1> QED BY <1>3, <1>4, <1>5, OneCall DEF Sound

LEMMA ReturnKeeps == ASSUME RegistryInv, NEW t \in Threads, Return(t) PROVE RegistryInv'
<1>1. Sound(converters, Idle)
  BY DEF Sound, Idle
<1> QED BY <1>1, OneCall DEF Return

LEMMA UnchangedKeeps == ASSUME RegistryInv, UNCHANGED vars PROVE RegistryInv'
BY DEF RegistryInv, vars

LEMMA RegistryComposes == RegistryInv => ConversionsCompose
<1> SUFFICES ASSUME RegistryInv, NEW t \in Threads, NEW c, c = call[t]
             PROVE /\ c.at = "found" =>
                        /\ Chain(c)
                        /\ \A i \in DOMAIN c.functions : c.functions[i][2] = c.seen[c.functions[i][1]]
                        /\ \A n \in 0 .. Len(c.functions) - 1 : c.target \notin Reached(c.seen, c.source)[n]
                   /\ c.at = "none" => c.target \notin Reached(c.seen, c.source)[Cardinality(Types)]
  BY DEF ConversionsCompose, At
<1>1. Sound(converters, c)
  BY DEF RegistryInv
<1>2. CASE c.at = "found"
  <2>1. FoundIt(c)
    BY <1>1, <1>2 DEF Sound
  <2>2. c.functions \in Seq(Edges \X Nat) /\ Len(c.functions) \in Nat /\ Len(c.functions) > 0
        /\ DOMAIN c.functions = 1 .. Len(c.functions)
    BY <2>1 DEF FoundIt, Leads
  <2>3. Chain(c)
    BY <2>1, <2>2 DEF FoundIt, Leads, Chain
  <2>4. \A i \in DOMAIN c.functions : c.functions[i][2] = c.seen[c.functions[i][1]]
    BY <2>1, <2>2 DEF FoundIt, Leads
  <2>5. \A n \in 0 .. Len(c.functions) - 1 : n \in Nat /\ n < Len(c.functions)
    BY <2>2
  <2> QED BY <1>2, <2>1, <2>3, <2>4, <2>5 DEF FoundIt, Takes
<1>3. CASE c.at = "none"
  <2>1. Cardinality(Types) \in Nat
    BY RegistryAssumption, FS_CardinalityType
  <2> QED BY <1>1, <1>3, <2>1 DEF Sound, FoundNone
<1> QED BY <1>2, <1>3

LEMMA RegistryStarts == Init => RegistryInv
<1> SUFFICES ASSUME Init PROVE RegistryInv
  OBVIOUS
<1>1. \A t \in Threads : call[t] = Idle
  BY DEF Init
<1>2. Sound(converters, Idle)
  BY DEF Sound, Idle
<1> QED BY <1>1, <1>2 DEF Init, RegistryInv

\* vany.h, the registry on its own: what convert runs is a shortest chain of the functions
\* that were registered when it took the lock, and it fails only if there was none.
THEOREM RegistryComposesAlways == Spec => []ConversionsCompose
<1>1. RegistryInv /\ [Next]_vars => RegistryInv'
  <2> SUFFICES ASSUME RegistryInv, [Next]_vars PROVE RegistryInv'
    OBVIOUS
  <2>1. CASE UNCHANGED vars
    BY <2>1, UnchangedKeeps
  <2>2. ASSUME NEW t \in Threads, NEW k \in Edges, Add(t, k) \/ Visit(t, k) PROVE RegistryInv'
    BY <2>2, AddKeeps, VisitKeeps
  <2>3. ASSUME NEW t \in Threads, NEW q \in Queries, Convert(t, q[1], q[2]) PROVE RegistryInv'
    <3>1. q[1] # q[2] /\ q[2] \in Types
      BY RegistryAssumption
    <3> QED BY <2>3, <3>1, ConvertKeeps
  <2>4. ASSUME NEW t \in Threads, NextStep(t) \/ NoPath(t) \/ Return(t) PROVE RegistryInv'
    BY <2>4, NextStepKeeps, NoPathKeeps, ReturnKeeps
  <2> QED BY <2>1, <2>2, <2>3, <2>4 DEF Next
<1> QED BY <1>1, RegistryStarts, RegistryComposes, PTL DEF Spec

-----------------------------------------------------------------------------
(* static_meta.                                                            *)

Steps == {"base", "up", "down", "register", "return"}
Frames == [class : Types, at : Steps]
ClassNames == {NameOf[c] : c \in Types}

BuildType ==
    /\ meta \in [Types -> {"none", "building", "built"}]
    /\ index \in [ClassNames -> Types \cup {NoClass}]
    /\ stack \in [Threads -> Seq(Frames)]
    /\ converters \in [Edges -> Nat] /\ adds \in Nat

\* A class is built by one call at a time, and the calls that wait for a base are at
\* the beginning.
OneBuilder ==
    /\ \A t \in Threads : \A i \in 1 .. Len(stack[t]) :
         meta[stack[t][i].class] = "building" /\ (i > 1 => stack[t][i].at = "base")
    /\ \A t, u \in Threads : \A i \in 1 .. Len(stack[t]), j \in 1 .. Len(stack[u]) :
         stack[t][i].class = stack[u][j].class => t = u /\ i = j

Based(M, c) == \A s \in Base(c) : M[s] = "built"
Linked(R, c) == \A k \in OwnEdges(c) : R[k] # 0
Named(N, c) == N[NameOf[c]] = c

\* How far a call of static_meta is.
Progress(f, M, R, N) ==
    /\ f.at # "base" => Based(M, f.class)
    /\ f.at = "down" => \A s \in Base(f.class) : R[<<s, f.class>>] # 0
    /\ f.at \in {"register", "return"} => Linked(R, f.class)
    /\ f.at = "return" => Named(N, f.class)

Progresses == \A t \in Threads : Len(stack[t]) > 0 => Progress(stack[t][1], meta, converters, index)

BuiltIsReady == \A c \in Types : meta[c] = "built" => Based(meta, c) /\ Linked(converters, c) /\ Named(index, c)

IndexIsReady == \A n \in ClassNames : index[n] # NoClass =>
    NameOf[index[n]] = n /\ Based(meta, index[n]) /\ Linked(converters, index[n])

BuildInv == BuildType /\ OneBuilder /\ Progresses /\ BuiltIsReady /\ IndexIsReady

\* What was registered and built stays so.
Grows(M1, M2, R1, R2) ==
    /\ \A c \in Types : M1[c] = "built" => M2[c] = "built"
    /\ \A k \in Edges : R1[k] # 0 => R2[k] # 0

LEMMA ClassFacts == ASSUME NEW c \in Types
    PROVE /\ Base(c) \subseteq Types /\ OwnEdges(c) \subseteq Edges /\ NameOf[c] \in ClassNames
          /\ c # NoClass
          /\ OwnEdges(c) = {<<s, c>> : s \in Base(c)} \cup {<<c, s>> : s \in Base(c)}
<1>1. OwnEdges(c) \subseteq Edges
  BY MetaAssumption
<1> QED BY <1>1, MetaAssumption DEF Base, OwnEdges, ClassNames

LEMMA ReadyStays == ASSUME NEW M1, NEW M2, NEW R1, NEW R2, Grows(M1, M2, R1, R2), NEW c \in Types
    PROVE /\ Based(M1, c) => Based(M2, c)
          /\ Linked(R1, c) => Linked(R2, c)
BY ClassFacts DEF Grows, Based, Linked

LEMMA ProgressStays == ASSUME NEW M1, NEW M2, NEW R1, NEW R2, Grows(M1, M2, R1, R2), NEW N1, NEW N2,
                              NEW f \in Frames, Named(N1, f.class) => Named(N2, f.class), Progress(f, M1, R1, N1)
    PROVE Progress(f, M2, R2, N2)
<1>1. f.class \in Types
  BY DEF Frames
<1>2. \A s \in Base(f.class) : <<s, f.class>> \in Edges
  BY <1>1, ClassFacts
<1>3. f.at = "down" => \A s \in Base(f.class) : R2[<<s, f.class>>] # 0
  BY <1>2 DEF Progress, Grows
<1> QED BY <1>1, <1>3, ReadyStays DEF Progress

LEMMA AddGrows == ASSUME BuildType, NEW t \in Threads, NEW k \in Edges, Add(t, k), UNCHANGED meta
    PROVE Grows(meta, meta', converters, converters') /\ converters' \in [Edges -> Nat] /\ adds' \in Nat /\ converters'[k] # 0
BY DEF BuildType, Add, Grows

\* Nothing is built meanwhile, and others register.
LEMMA BuildInvStays == ASSUME BuildInv, UNCHANGED <<meta, index, stack>>, converters' \in [Edges -> Nat], adds' \in Nat,
                              Grows(meta, meta', converters, converters')
    PROVE BuildInv'
<1>1. BuildType' /\ OneBuilder'
  BY DEF BuildInv, BuildType, OneBuilder
<1>2. Progresses'
  <2> SUFFICES ASSUME NEW t \in Threads, Len(stack[t]) > 0 PROVE Progress(stack[t][1], meta', converters', index)
    BY DEF Progresses
  <2>1. stack[t][1] \in Frames
    BY DEF BuildInv, BuildType
  <2>2. Progress(stack[t][1], meta, converters, index)
    BY DEF BuildInv, Progresses
  <2> QED BY <2>1, <2>2, ProgressStays
<1>3. BuiltIsReady'
  BY ReadyStays DEF BuildInv, BuiltIsReady
<1>4. IndexIsReady'
  <2> SUFFICES ASSUME NEW n \in ClassNames, index[n] # NoClass
               PROVE NameOf[index[n]] = n /\ Based(meta', index[n]) /\ Linked(converters', index[n])
    BY DEF IndexIsReady
  <2>1. index[n] \in Types
    BY DEF BuildInv, BuildType
  <2> QED BY <2>1, ReadyStays DEF BuildInv, IndexIsReady
<1> QED BY <1>1, <1>2, <1>3, <1>4 DEF BuildInv

\* The class that a call of static_meta is at.
LEMMA HeadFacts == ASSUME BuildInv, NEW t \in Threads, stack[t] # <<>>
    PROVE /\ Len(stack[t]) \in Nat /\ Len(stack[t]) > 0 /\ Head(stack[t]) = stack[t][1] /\ stack[t][1] \in Frames
          /\ Class(t) = stack[t][1].class /\ Class(t) \in Types /\ meta[Class(t)] = "building"
          /\ Progress(stack[t][1], meta, converters, index)
<1>1. stack[t] \in Seq(Frames)
  BY DEF BuildInv, BuildType
<1>2. Len(stack[t]) \in Nat /\ Len(stack[t]) > 0 /\ Head(stack[t]) = stack[t][1] /\ stack[t][1] \in Frames
  BY <1>1
<1> QED BY <1>2 DEF BuildInv, OneBuilder, Progresses, Class, Frames

\* A class that nobody builds yet; the bases of what the thread builds come first.
LEMMA PushKeeps == ASSUME BuildInv, NEW t \in Threads, NEW c \in Types, Push(t, c), UNCHANGED <<vars, index>>,
                          Len(stack[t]) > 0 => stack[t][1].at = "base"
    PROVE BuildInv'
<1> DEFINE f == [class |-> c, at |-> "base"]
           old == stack[t]
           new == <<f>> \o old
<1>1. f \in Frames /\ f.class = c /\ f.at = "base"
  BY DEF Frames, Steps
<1>2. old \in Seq(Frames) /\ Len(old) \in Nat
  BY DEF BuildInv, BuildType
<1>3. new \in Seq(Frames) /\ Len(new) = Len(old) + 1 /\ new[1] = f /\ \A i \in 1 .. Len(old) : new[i + 1] = old[i]
  BY <1>1, <1>2
<1>4. stack' = [stack EXCEPT ![t] = new] /\ meta' = [meta EXCEPT ![c] = "building"] /\ meta[c] = "none"
      /\ UNCHANGED <<converters, adds, index>>
  BY DEF Push, vars
<1> HIDE DEF f, new
<1>5. stack'[t] = new /\ \A u \in Threads : u # t => stack'[u] = stack[u]
  BY <1>4 DEF BuildInv, BuildType
<1>6. BuildType'
  BY <1>2, <1>3, <1>4 DEF BuildInv, BuildType
<1>7. meta'[c] = "building" /\ \A d \in Types : d # c => meta'[d] = meta[d]
  BY <1>4 DEF BuildInv, BuildType
<1>8. ASSUME NEW u \in Threads, NEW i \in 1 .. Len(stack'[u])
      PROVE \/ u = t /\ i = 1 /\ stack'[u][i] = f
            \/ /\ \E j \in 1 .. Len(stack[u]) : stack'[u][i] = stack[u][j] /\ i = IF u = t THEN j + 1 ELSE j
  <2>1. CASE u = t
    <3>1. CASE i = 1
      BY <2>1, <3>1, <1>3, <1>5
    <3>2. CASE i # 1
      <4>1. i - 1 \in 1 .. Len(old) /\ (i - 1) + 1 = i
        BY <2>1, <3>2, <1>2, <1>3, <1>5
      <4>2. stack'[u][i] = stack[u][i - 1]
        BY <4>1, <2>1, <1>3, <1>5
      <4> QED BY <4>1, <4>2, <2>1
    <3> QED BY <3>1, <3>2
  <2>2. CASE u # t
    BY <2>2, <1>5
  <2> QED BY <2>1, <2>2
<1>9. \A u \in Threads : \A i \in 1 .. Len(stack[u]) : stack[u][i].class # c /\ stack[u][i].class \in Types
  <2>1. \A u \in Threads : \A i \in 1 .. Len(stack[u]) : stack[u][i] \in Frames
    BY DEF BuildInv, BuildType
  <2> QED BY <2>1, <1>4 DEF BuildInv, OneBuilder, Frames
<1>10. ASSUME NEW u \in Threads, NEW i \in 1 .. Len(stack'[u])
       PROVE meta'[stack'[u][i].class] = "building" /\ (i > 1 => stack'[u][i].at = "base")
  <2>1. CASE u = t /\ i = 1 /\ stack'[u][i] = f
    BY <2>1, <1>1, <1>7
  <2>2. ASSUME NEW j \in 1 .. Len(stack[u]), stack'[u][i] = stack[u][j], i = IF u = t THEN j + 1 ELSE j
        PROVE meta'[stack'[u][i].class] = "building" /\ (i > 1 => stack'[u][i].at = "base")
    <3>1. meta'[stack[u][j].class] = "building"
      BY <1>7, <1>9 DEF BuildInv, OneBuilder
    <3>2. i > 1 => stack[u][j].at = "base"
      <4>1. CASE u = t /\ j = 1
        BY <4>1
      <4>2. CASE ~(u = t /\ j = 1)
        <5>1. i > 1 => j > 1
          BY <4>2, <2>2
        <5> QED BY <5>1 DEF BuildInv, OneBuilder
      <4> QED BY <4>1, <4>2
    <3> QED BY <2>2, <3>1, <3>2
  <2> QED BY <1>8, <2>1, <2>2
<1>11. ASSUME NEW u \in Threads, NEW v \in Threads, NEW i \in 1 .. Len(stack'[u]), NEW j \in 1 .. Len(stack'[v]),
              stack'[u][i].class = stack'[v][j].class
       PROVE u = v /\ i = j
  <2>1. CASE (u = t /\ i = 1 /\ stack'[u][i] = f) \/ (v = t /\ j = 1 /\ stack'[v][j] = f)
    BY <2>1, <1>1, <1>8, <1>9, <1>11, SMTT(60)
  <2>2. CASE (\E k \in 1 .. Len(stack[u]) : stack'[u][i] = stack[u][k] /\ i = IF u = t THEN k + 1 ELSE k)
             /\ (\E k \in 1 .. Len(stack[v]) : stack'[v][j] = stack[v][k] /\ j = IF v = t THEN k + 1 ELSE k)
    <3>1. PICK k \in 1 .. Len(stack[u]) : stack'[u][i] = stack[u][k] /\ i = IF u = t THEN k + 1 ELSE k
      BY <2>2
    <3>2. PICK l \in 1 .. Len(stack[v]) : stack'[v][j] = stack[v][l] /\ j = IF v = t THEN l + 1 ELSE l
      BY <2>2
    <3>3. u = v /\ k = l
      BY <3>1, <3>2, <1>11 DEF BuildInv, OneBuilder
    <3> QED BY <3>1, <3>2, <3>3
  <2> QED BY <2>1, <2>2, <1>8
<1>12. OneBuilder'
  BY <1>10, <1>11 DEF OneBuilder
<1>13. Grows(meta, meta', converters, converters')
  BY <1>4, <1>7 DEF Grows
<1>14. Progresses'
  <2> SUFFICES ASSUME NEW u \in Threads, Len(stack'[u]) > 0 PROVE Progress(stack'[u][1], meta', converters', index')
    BY DEF Progresses
  <2>1. CASE u = t
    BY <2>1, <1>1, <1>3, <1>5 DEF Progress
  <2>2. CASE u # t
    <3>1. stack[u][1] \in Frames /\ Progress(stack[u][1], meta, converters, index) /\ stack'[u] = stack[u]
      BY <2>2, <1>5 DEF BuildInv, BuildType, Progresses
    <3> QED BY <3>1, <1>4, <1>13, ProgressStays
  <2> QED BY <2>1, <2>2
<1>15. BuiltIsReady'
  <2> SUFFICES ASSUME NEW d \in Types, meta'[d] = "built"
               PROVE Based(meta', d) /\ Linked(converters', d) /\ Named(index', d)
    BY DEF BuiltIsReady
  <2>1. meta[d] = "built"
    BY <1>7
  <2> QED BY <2>1, <1>4, <1>13, ReadyStays DEF BuildInv, BuiltIsReady
<1>16. IndexIsReady'
  <2> SUFFICES ASSUME NEW n \in ClassNames, index[n] # NoClass
               PROVE NameOf[index[n]] = n /\ Based(meta', index[n]) /\ Linked(converters', index[n])
    BY <1>4 DEF IndexIsReady
  <2>1. index[n] \in Types
    BY DEF BuildInv, BuildType
  <2> QED BY <2>1, <1>13, ReadyStays DEF BuildInv, IndexIsReady
<1> QED BY <1>6, <1>12, <1>14, <1>15, <1>16 DEF BuildInv

\* A call of static_meta goes on: what is published is ready.
LEMMA GotoKeeps == ASSUME BuildInv, NEW t \in Threads, stack[t] # <<>>, NEW at \in Steps, Goto(t, at), UNCHANGED meta,
                          converters' \in [Edges -> Nat], adds' \in Nat, Grows(meta, meta', converters, converters'),
                          index' \in [ClassNames -> Types \cup {NoClass}],
                          \A c \in Types : Named(index, c) => Named(index', c),
                          Progress([class |-> Class(t), at |-> at], meta', converters', index'),
                          \A n \in ClassNames : index'[n] # index[n] =>
                            NameOf[index'[n]] = n /\ Based(meta', index'[n]) /\ Linked(converters', index'[n])
    PROVE BuildInv'
<1> DEFINE f == [class |-> Class(t), at |-> at]
           old == stack[t]
<1>1. Len(old) \in Nat /\ Len(old) > 0 /\ old[1] \in Frames /\ Class(t) = old[1].class /\ Class(t) \in Types
      /\ old \in Seq(Frames)
  BY HeadFacts DEF BuildInv, BuildType
<1>2. [old[1] EXCEPT !.at = at] = f /\ f \in Frames /\ f.class = old[1].class
  BY <1>1 DEF Frames
<1>3. PICK new : new = [old EXCEPT ![1].at = at]
  OBVIOUS
<1>4. new \in Seq(Frames) /\ Len(new) = Len(old) /\ new[1] = f /\ \A i \in 1 .. Len(old) : i # 1 => new[i] = old[i]
  BY <1>1, <1>2, <1>3
<1>5. stack' = [stack EXCEPT ![t] = new]
  BY <1>3 DEF Goto
<1> HIDE DEF f
<1>6. stack'[t] = new /\ \A u \in Threads : u # t => stack'[u] = stack[u]
  BY <1>5 DEF BuildInv, BuildType
<1>7. BuildType'
  BY <1>4, <1>5 DEF BuildInv, BuildType
<1>8. \A u \in Threads : Len(stack'[u]) = Len(stack[u]) /\ \A i \in 1 .. Len(stack[u]) :
        stack'[u][i].class = stack[u][i].class /\ (i > 1 => stack'[u][i] = stack[u][i])
  BY <1>1, <1>2, <1>4, <1>6
<1>9. OneBuilder'
  <2>1. \A u \in Threads : 1 .. Len(stack'[u]) = 1 .. Len(stack[u])
    BY <1>8
  <2>2. ASSUME NEW u \in Threads, NEW i \in 1 .. Len(stack'[u])
        PROVE meta'[stack'[u][i].class] = "building" /\ (i > 1 => stack'[u][i].at = "base")
    <3>1. i \in 1 .. Len(stack[u]) /\ meta' = meta
      BY <2>1
    <3>2. meta[stack[u][i].class] = "building" /\ (i > 1 => stack[u][i].at = "base")
      BY <3>1 DEF BuildInv, OneBuilder
    <3>3. stack'[u][i].class = stack[u][i].class /\ (i > 1 => stack'[u][i] = stack[u][i])
      BY <3>1, <1>8
    <3> QED BY <3>1, <3>2, <3>3
  <2>3. ASSUME NEW u \in Threads, NEW v \in Threads, NEW i \in 1 .. Len(stack'[u]), NEW j \in 1 .. Len(stack'[v]),
               stack'[u][i].class = stack'[v][j].class
        PROVE u = v /\ i = j
    <3>1. i \in 1 .. Len(stack[u]) /\ j \in 1 .. Len(stack[v])
      BY <2>1
    <3>2. stack[u][i].class = stack[v][j].class
      BY <3>1, <1>8, <2>3
    <3> QED BY <3>1, <3>2 DEF BuildInv, OneBuilder
  <2> QED BY <2>2, <2>3 DEF OneBuilder
<1>10. Progresses'
  <2> SUFFICES ASSUME NEW u \in Threads, Len(stack'[u]) > 0 PROVE Progress(stack'[u][1], meta', converters', index')
    BY DEF Progresses
  <2>1. CASE u = t
    BY <2>1, <1>4, <1>6 DEF f
  <2>2. CASE u # t
    <3>1. stack[u][1] \in Frames /\ Progress(stack[u][1], meta, converters, index) /\ stack'[u] = stack[u]
      BY <2>2, <1>6 DEF BuildInv, BuildType, Progresses
    <3>2. stack[u][1].class \in Types
      BY <3>1 DEF Frames
    <3> QED BY <3>1, <3>2, ProgressStays
  <2> QED BY <2>1, <2>2
<1>11. BuiltIsReady'
  <2> SUFFICES ASSUME NEW d \in Types, meta[d] = "built"
               PROVE Based(meta', d) /\ Linked(converters', d) /\ Named(index', d)
    BY DEF BuiltIsReady
  <2> QED BY ReadyStays DEF BuildInv, BuiltIsReady
<1>12. IndexIsReady'
  <2> SUFFICES ASSUME NEW n \in ClassNames, index'[n] # NoClass
               PROVE NameOf[index'[n]] = n /\ Based(meta', index'[n]) /\ Linked(converters', index'[n])
    BY DEF IndexIsReady
  <2>1. CASE index'[n] # index[n]
    BY <2>1
  <2>2. CASE index'[n] = index[n]
    <3>1. index[n] \in Types
      BY <2>2 DEF BuildInv, BuildType
    <3> QED BY <2>2, <3>1, ReadyStays DEF BuildInv, IndexIsReady
  <2> QED BY <2>1, <2>2
<1> QED BY <1>7, <1>9, <1>10, <1>11, <1>12 DEF BuildInv

\* An exception: none of the classes that the thread was building is there.
LEMMA UnwindKeeps == ASSUME BuildInv, NEW t \in Threads, Unwind(t), UNCHANGED <<vars, index>> PROVE BuildInv'
<1> DEFINE Mine == {c \in Types : \E i \in DOMAIN stack[t] : stack[t][i].class = c}
<1>1. /\ UNCHANGED <<converters, adds, index>>
      /\ stack' = [stack EXCEPT ![t] = <<>>]
      /\ meta' = [c \in Types |-> IF c \in Mine THEN "none" ELSE meta[c]]
  BY DEF Unwind, vars
<1>2. \A u \in Threads : stack[u] \in Seq(Frames) /\ DOMAIN stack[u] = 1 .. Len(stack[u]) /\ Len(stack[u]) \in Nat
  BY DEF BuildInv, BuildType
<1>3. stack'[t] = <<>> /\ \A u \in Threads : u # t => stack'[u] = stack[u]
  BY <1>1 DEF BuildInv, BuildType
<1>4. \A c \in Mine : meta[c] = "building"
  BY <1>2 DEF BuildInv, OneBuilder
<1>5. BuildType'
  BY <1>1 DEF BuildInv, BuildType
<1>6. \A u \in Threads : u # t => \A i \in 1 .. Len(stack[u]) : stack[u][i].class \in Types /\ stack[u][i].class \notin Mine
  <2>1. \A u \in Threads : \A i \in 1 .. Len(stack[u]) : stack[u][i] \in Frames
    BY <1>2
  <2> QED BY <2>1, <1>2, SMTT(60) DEF BuildInv, OneBuilder, Frames
<1> HIDE DEF Mine
<1>7. OneBuilder'
  <2>1. \A u \in Threads : u # t => \A i \in 1 .. Len(stack[u]) : meta'[stack[u][i].class] = "building"
    BY <1>1, <1>6 DEF BuildInv, OneBuilder
  <2>2. ASSUME NEW u \in Threads, NEW i \in 1 .. Len(stack'[u]) PROVE u # t /\ stack'[u] = stack[u] /\ i \in 1 .. Len(stack[u])
    BY <1>3
  <2> QED BY <2>1, <2>2, SMTT(60) DEF BuildInv, OneBuilder
<1>8. Grows(meta, meta', converters, converters')
  BY <1>1, <1>4 DEF Grows
<1>9. Progresses'
  <2> SUFFICES ASSUME NEW u \in Threads, Len(stack'[u]) > 0 PROVE Progress(stack'[u][1], meta', converters', index')
    BY DEF Progresses
  <2>1. u # t /\ stack'[u] = stack[u]
    BY <1>3
  <2>2. stack[u][1] \in Frames /\ Progress(stack[u][1], meta, converters, index)
    BY <2>1, <1>2 DEF BuildInv, Progresses
  <2> QED BY <2>1, <2>2, <1>1, <1>8, ProgressStays
<1>10. BuiltIsReady'
  <2> SUFFICES ASSUME NEW d \in Types, meta'[d] = "built"
               PROVE Based(meta', d) /\ Linked(converters', d) /\ Named(index', d)
    BY DEF BuiltIsReady
  <2>1. meta[d] = "built"
    BY <1>1
  <2> QED BY <2>1, <1>1, <1>8, ReadyStays DEF BuildInv, BuiltIsReady
<1>11. IndexIsReady'
  <2> SUFFICES ASSUME NEW n \in ClassNames, index[n] # NoClass
               PROVE NameOf[index[n]] = n /\ Based(meta', index[n]) /\ Linked(converters', index[n])
    BY <1>1 DEF IndexIsReady
  <2>1. index[n] \in Types
    BY DEF BuildInv, BuildType
  <2> QED BY <2>1, <1>8, ReadyStays DEF BuildInv, IndexIsReady
<1> QED BY <1>5, <1>7, <1>9, <1>10, <1>11 DEF BuildInv

LEMMA ReturnMetaKeeps == ASSUME BuildInv, NEW t \in Threads, ReturnMeta(t) PROVE BuildInv'
<1> DEFINE old == stack[t]
           c == Class(t)
<1>1. old # <<>> /\ Head(old).at = "return"
  BY DEF ReturnMeta, In
<1>2. Len(old) \in Nat /\ Len(old) > 0 /\ old[1] \in Frames /\ c = old[1].class /\ c \in Types /\ old \in Seq(Frames)
      /\ Head(old) = old[1] /\ meta[c] = "building" /\ Progress(old[1], meta, converters, index)
  BY <1>1, HeadFacts DEF BuildInv, BuildType
<1>3. Based(meta, c) /\ Linked(converters, c) /\ Named(index, c)
  BY <1>1, <1>2 DEF Progress
<1> HIDE DEF c
<1>4. /\ UNCHANGED <<converters, adds, index>>
      /\ stack' = [stack EXCEPT ![t] = Tail(old)] /\ meta' = [meta EXCEPT ![c] = "built"]
  BY DEF ReturnMeta, vars, c
<1>5. stack'[t] = Tail(old) /\ \A u \in Threads : u # t => stack'[u] = stack[u]
  BY <1>4 DEF BuildInv, BuildType
<1>6. Tail(old) \in Seq(Frames) /\ Len(Tail(old)) = Len(old) - 1 /\ \A i \in 1 .. Len(old) - 1 : Tail(old)[i] = old[i + 1]
  BY <1>1, <1>2, HeadTailProperties
<1>7. BuildType'
  BY <1>4, <1>6 DEF BuildInv, BuildType
<1>8. meta'[c] = "built" /\ \A d \in Types : d # c => meta'[d] = meta[d]
  BY <1>2, <1>4 DEF BuildInv, BuildType
<1>9. ASSUME NEW u \in Threads, NEW i \in 1 .. Len(stack'[u])
      PROVE \E j \in 1 .. Len(stack[u]) : stack'[u][i] = stack[u][j] /\ j = (IF u = t THEN i + 1 ELSE i) /\ stack[u][j].class # c
                /\ stack[u][j].class \in Types
  <2>1. \A v \in Threads : \A j \in 1 .. Len(stack[v]) : stack[v][j] \in Frames /\ stack[v][j].class \in Types
    <3>1. \A v \in Threads : \A j \in 1 .. Len(stack[v]) : stack[v][j] \in Frames
      BY DEF BuildInv, BuildType
    <3> QED BY <3>1 DEF Frames
  <2>2. 1 \in 1 .. Len(old)
    BY <1>2
  <2>3. CASE u = t
    <3>1. i + 1 \in 1 .. Len(stack[u]) /\ i + 1 # 1 /\ stack'[u][i] = stack[u][i + 1]
      BY <2>3, <1>2, <1>5, <1>6
    <3>2. stack[u][i + 1].class # c
      BY <3>1, <2>2, <2>3, <1>2 DEF BuildInv, OneBuilder
    <3> QED BY <3>1, <3>2, <2>1, <2>3
  <2>4. CASE u # t
    <3>1. stack[u][i].class # c
      BY <2>2, <2>4, <1>2, <1>5 DEF BuildInv, OneBuilder
    <3> QED BY <3>1, <2>1, <2>4, <1>5
  <2> QED BY <2>3, <2>4
<1>10. ASSUME NEW u \in Threads, NEW i \in 1 .. Len(stack'[u])
       PROVE meta'[stack'[u][i].class] = "building" /\ stack'[u][i] \in Frames
             /\ (i > 1 => stack'[u][i].at = "base") /\ (u = t => stack'[u][i].at = "base")
  <2>1. PICK j \in 1 .. Len(stack[u]) : stack'[u][i] = stack[u][j] /\ j = (IF u = t THEN i + 1 ELSE i)
                                        /\ stack[u][j].class # c /\ stack[u][j].class \in Types
    BY <1>9
  <2>2. stack[u][j] \in Frames /\ meta[stack[u][j].class] = "building" /\ (j > 1 => stack[u][j].at = "base")
    BY DEF BuildInv, BuildType, OneBuilder
  <2>3. (i > 1 => j > 1) /\ (u = t => j > 1)
    BY <2>1
  <2> QED BY <2>1, <2>2, <2>3, <1>8
<1>11. ASSUME NEW u \in Threads, NEW v \in Threads, NEW i \in 1 .. Len(stack'[u]), NEW j \in 1 .. Len(stack'[v]),
              stack'[u][i].class = stack'[v][j].class
       PROVE u = v /\ i = j
  <2>1. PICK k \in 1 .. Len(stack[u]) : stack'[u][i] = stack[u][k] /\ k = (IF u = t THEN i + 1 ELSE i)
    BY <1>9
  <2>2. PICK l \in 1 .. Len(stack[v]) : stack'[v][j] = stack[v][l] /\ l = (IF v = t THEN j + 1 ELSE j)
    BY <1>9
  <2>3. u = v /\ k = l
    BY <2>1, <2>2, <1>11 DEF BuildInv, OneBuilder
  <2> QED BY <2>1, <2>2, <2>3
<1>12. OneBuilder'
  BY <1>10, <1>11 DEF OneBuilder
<1>13. Grows(meta, meta', converters, converters')
  BY <1>4, <1>8 DEF Grows
<1>14. Progresses'
  <2> SUFFICES ASSUME NEW u \in Threads, Len(stack'[u]) > 0 PROVE Progress(stack'[u][1], meta', converters', index')
    BY DEF Progresses
  <2>1. CASE u = t
    <3>1. 1 \in 1 .. Len(stack'[u])
      BY <2>1, <1>2, <1>5, <1>6
    <3>2. stack'[u][1].at = "base"
      BY <3>1, <2>1, <1>10
    <3> QED BY <3>2 DEF Progress
  <2>2. CASE u # t
    <3>1. stack[u][1] \in Frames /\ Progress(stack[u][1], meta, converters, index) /\ stack'[u] = stack[u]
      BY <2>2, <1>5 DEF BuildInv, BuildType, Progresses
    <3> QED BY <3>1, <1>4, <1>13, ProgressStays
  <2> QED BY <2>1, <2>2
<1>15. BuiltIsReady'
  <2> SUFFICES ASSUME NEW d \in Types, meta'[d] = "built"
               PROVE Based(meta', d) /\ Linked(converters', d) /\ Named(index', d)
    BY DEF BuiltIsReady
  <2>1. Based(meta, d) /\ Linked(converters, d) /\ Named(index, d)
    BY <1>3, <1>8 DEF BuildInv, BuiltIsReady
  <2> QED BY <2>1, <1>4, <1>13, ReadyStays
<1>16. IndexIsReady'
  <2> SUFFICES ASSUME NEW n \in ClassNames, index[n] # NoClass
               PROVE NameOf[index[n]] = n /\ Based(meta', index[n]) /\ Linked(converters', index[n])
    BY <1>4 DEF IndexIsReady
  <2>1. index[n] \in Types
    BY DEF BuildInv, BuildType
  <2> QED BY <2>1, <1>13, ReadyStays DEF BuildInv, IndexIsReady
<1> QED BY <1>7, <1>12, <1>14, <1>15, <1>16 DEF BuildInv

LEMMA BuildBaseKeeps == ASSUME BuildInv, NEW t \in Threads, BuildBase(t) PROVE BuildInv'
<1>1. PICK s \in Base(Class(t)) : Push(t, s)
  BY DEF BuildBase
<1>2. stack[t] # <<>> /\ Head(stack[t]).at = "base" /\ UNCHANGED <<vars, index>>
  BY DEF BuildBase, In
<1>3. s \in Types
  BY <1>2, HeadFacts, ClassFacts
<1>4. stack[t][1].at = "base"
  BY <1>2, HeadFacts
<1> QED BY <1>1, <1>2, <1>3, <1>4, PushKeeps

LEMMA StaticMetaKeeps == ASSUME BuildInv, NEW t \in Threads, NEW c \in Types, StaticMeta(t, c) PROVE BuildInv'
<1>1. stack[t] = <<>> /\ Push(t, c) /\ UNCHANGED <<vars, index>> /\ Len(<<>>) = 0
  BY DEF StaticMeta, Free
<1> QED BY <1>1, PushKeeps

LEMMA ConstructKeeps == ASSUME BuildInv, NEW t \in Threads, Construct(t) PROVE BuildInv'
<1>1. stack[t] # <<>> /\ Base(Class(t)) \subseteq Built /\ UNCHANGED <<vars, index, converters, adds>>
  BY DEF Construct, In, vars
<1>2. CASE Class(t) \in Malformed
  BY <1>1, <1>2, UnwindKeeps DEF Construct
<1>3. CASE Class(t) \notin Malformed
  <2>1. Goto(t, "up") /\ UNCHANGED meta
    BY <1>3 DEF Construct, BuildOrder
  <2>2. Progress([class |-> Class(t), at |-> "up"], meta, converters, index)
    BY <1>1 DEF Progress, Based, Built
  <2>3. Grows(meta, meta', converters, converters') /\ "up" \in Steps
    BY <1>1, <2>1 DEF Grows, Steps
  <2>4. BuildType
    BY DEF BuildInv
  <2>5. converters' = converters /\ adds' = adds /\ index' = index /\ meta' = meta
    BY <1>1, <2>1
  <2>6. Progress([class |-> Class(t), at |-> "up"], meta', converters', index')
    BY <2>2, <2>5
  <2>7. converters' \in [Edges -> Nat] /\ adds' \in Nat /\ index' \in [ClassNames -> Types \cup {NoClass}]
    BY <2>4, <2>5 DEF BuildType
  <2> QED BY <1>1, <2>1, <2>3, <2>5, <2>6, <2>7, GotoKeeps
<1> QED BY <1>2, <1>3

LEMMA AfterFacts == After("up") = "down" /\ After("down") = "register" /\ After("register") = "return"
<1>1. BuildOrder[1] = "up" /\ BuildOrder[2] = "down" /\ BuildOrder[3] = "register" /\ BuildOrder[4] = "return"
  BY DEF BuildOrder
<1>2. 1 .. 3 = {1, 2, 3}
  OBVIOUS
<1>3. (CHOOSE i \in 1 .. 3 : BuildOrder[i] = "up") = 1
  BY <1>1, <1>2
<1>4. (CHOOSE i \in 1 .. 3 : BuildOrder[i] = "down") = 2
  BY <1>1, <1>2
<1>5. (CHOOSE i \in 1 .. 3 : BuildOrder[i] = "register") = 3
  BY <1>1, <1>2
<1> HIDE DEF BuildOrder
<1>6. 1 + 1 = 2 /\ 1 + 2 = 3 /\ 1 + 3 = 4
  OBVIOUS
<1> QED BY <1>1, <1>3, <1>4, <1>5, <1>6 DEF After

LEMMA RegisterConversionKeeps == ASSUME BuildInv, NEW t \in Threads, RegisterConversion(t) PROVE BuildInv'
<1> DEFINE c == Class(t)
           from == Head(stack[t]).at
           k == IF In(t, "up") THEN <<Super[c], c>> ELSE <<c, Super[c]>>
<1>1. stack[t] # <<>> /\ from \in {"up", "down"} /\ (In(t, "up") <=> from = "up")
  BY DEF RegisterConversion, In
<1>2. c \in Types /\ Progress(stack[t][1], meta, converters, index) /\ stack[t][1].class = c /\ stack[t][1].at = from
      /\ BuildType
  BY <1>1, HeadFacts DEF BuildInv
<1>3. Goto(t, After(from)) /\ UNCHANGED <<meta, index>> /\ (IF k \in OwnEdges(c) THEN Add(t, k) ELSE UNCHANGED vars)
  BY DEF RegisterConversion, Pairs
<1> HIDE DEF c, from
<1>4. k \in OwnEdges(c) => k \in Edges
  BY <1>2, ClassFacts
<1>5. Grows(meta, meta', converters, converters') /\ converters' \in [Edges -> Nat] /\ adds' \in Nat
      /\ (k \in OwnEdges(c) => converters'[k] # 0)
  <2>1. CASE k \in OwnEdges(c)
    BY <2>1, <1>2, <1>3, <1>4, AddGrows
  <2>2. CASE k \notin OwnEdges(c)
    BY <2>2, <1>2, <1>3 DEF vars, BuildType, Grows
  <2> QED BY <2>1, <2>2
<1>6. \A s \in Base(c) : k \in OwnEdges(c) /\ s = Super[c]
  BY DEF OwnEdges, Base
<1>7. Progress([class |-> c, at |-> After(from)], meta', converters', index')
  <2>1. Based(meta', c)
    BY <1>1, <1>2, <1>3 DEF Progress
  <2>2. CASE from = "up"
    <3>1. \A s \in Base(c) : converters'[<<s, c>>] # 0
      BY <2>2, <1>1, <1>5, <1>6
    <3> QED BY <2>1, <2>2, <3>1, AfterFacts DEF Progress
  <2>3. CASE from = "down"
    <3>1. \A s \in Base(c) : converters'[<<c, s>>] # 0
      BY <2>3, <1>1, <1>5, <1>6
    <3>2. \A s \in Base(c) : converters[<<s, c>>] # 0
      BY <2>3, <1>2 DEF Progress
    <3>3. \A s \in Base(c) : converters'[<<s, c>>] # 0
      BY <3>2, <1>2, <1>5, ClassFacts DEF Grows
    <3>4. Linked(converters', c)
      BY <3>1, <3>3 DEF Linked, OwnEdges
    <3> QED BY <2>1, <2>3, <3>4, AfterFacts DEF Progress
  <2> QED BY <1>1, <2>2, <2>3
<1>8. After(from) \in Steps
  BY <1>1, AfterFacts DEF Steps
<1>9. index' \in [ClassNames -> Types \cup {NoClass}]
  BY <1>2, <1>3 DEF BuildType
<1> HIDE DEF k
<1> QED BY <1>1, <1>3, <1>5, <1>7, <1>8, <1>9, GotoKeeps DEF c

LEMMA RegisterTypeKeeps == ASSUME BuildInv, NEW t \in Threads, RegisterType(t) PROVE BuildInv'
<1> DEFINE c == Class(t)
           n == NameOf[c]
<1>1. stack[t] # <<>> /\ Head(stack[t]).at = "register" /\ UNCHANGED <<vars, converters, adds>>
  BY DEF RegisterType, In, vars
<1>2. c \in Types /\ Progress(stack[t][1], meta, converters, index) /\ stack[t][1].class = c /\ stack[t][1].at = "register"
      /\ BuildType /\ n \in ClassNames /\ c # NoClass
  BY <1>1, HeadFacts, ClassFacts DEF BuildInv
<1>3. CASE Taken(c)
  BY <1>1, <1>3, UnwindKeeps DEF RegisterType
<1>4. CASE ~Taken(c)
  <2>1. Goto(t, "return") /\ UNCHANGED meta /\ index' = [index EXCEPT ![n] = IF @ = NoClass THEN c ELSE @]
    BY <1>4, AfterFacts DEF RegisterType
  <2>2. index[n] \in {NoClass, c}
    BY <1>4 DEF Taken
  <2>3. Based(meta', c) /\ Linked(converters', c)
    BY <1>1, <1>2, <2>1 DEF Progress
  <2> HIDE DEF c
  <2>4. index' \in [ClassNames -> Types \cup {NoClass}] /\ index'[n] = c
        /\ \A m \in ClassNames : index'[m] # index[m] => m = n /\ index[n] = NoClass
    BY <1>2, <2>1, <2>2 DEF BuildType
  <2>5. \A d \in Types : Named(index, d) => Named(index', d)
    BY <2>4, ClassFacts DEF Named
  <2>6. Progress([class |-> c, at |-> "return"], meta', converters', index')
    BY <2>3, <2>4 DEF Progress, Named
  <2>7. \A m \in ClassNames : index'[m] # index[m] =>
          NameOf[index'[m]] = m /\ Based(meta', index'[m]) /\ Linked(converters', index'[m])
    BY <2>3, <2>4
  <2>8. "return" \in Steps /\ Grows(meta, meta', converters, converters') /\ converters' \in [Edges -> Nat] /\ adds' \in Nat
    BY <1>1, <1>2, <2>1 DEF Steps, Grows, BuildType
  <2> HIDE DEF n
  <2> QED BY <1>1, <2>1, <2>4, <2>5, <2>6, <2>7, <2>8, GotoKeeps DEF c
<1> QED BY <1>3, <1>4

-----------------------------------------------------------------------------
(* The steps of the whole.                                                 *)

LEMMA BuildKeeps == ASSUME BuildInv, NEW t \in Threads, (\E c \in Types : StaticMeta(t, c)) \/ Build(t) PROVE BuildInv'
BY StaticMetaKeeps, BuildBaseKeeps, ConstructKeeps, RegisterConversionKeeps, RegisterTypeKeeps, ReturnMetaKeeps DEF Build

LEMMA RestKeepsBuild == ASSUME BuildInv, UNCHANGED <<converters, adds, meta, index, stack>> PROVE BuildInv'
<1>1. Grows(meta, meta', converters, converters') /\ converters' \in [Edges -> Nat] /\ adds' \in Nat
  BY DEF Grows, BuildInv, BuildType
<1> QED BY <1>1, BuildInvStays

LEMMA SearchFrame == ASSUME NEW t \in Threads, Search(t) PROVE UNCHANGED <<converters, adds, metaVars>>
BY DEF Search, NextStep, NoPath, Visit

LEMMA EditFrame == ASSUME NEW t \in Threads, Edit(t) PROVE UNCHANGED <<vars, converters, adds, meta, index, stack, asks>>
BY DEF Edit, SetMethod, SetDynamicProperty, StartCopy, vars

LEMMA CopyFrame == ASSUME NEW t \in Threads, Copy(t) PROVE UNCHANGED <<vars, converters, adds, meta, index, stack, asks>>
BY DEF Copy, CloneThrows, EndProperties, EndCopy, CloneOne, vars

LEMMA UseFrame == ASSUME NEW t \in Threads, Use(t) PROVE UNCHANGED <<converters, adds, meta, index, stack, dynamic, copying, live>>
<1>1. ASSUME EndInvoke(t) PROVE UNCHANGED <<converters, adds, meta, index, stack, dynamic, copying, live>>
  BY <1>1 DEF EndInvoke, Return
<1>2. ASSUME NEW o \in Objects, NEW h \in Types, NEW c \in Types, NEW m \in Members, Invoke(t, o, h, c, m)
      PROVE UNCHANGED <<converters, adds, meta, index, stack, dynamic, copying, live>>
  <2>1. UNCHANGED vars \/ Convert(t, Target(Find(c, o, m)), h)
    BY <1>2 DEF Invoke
  <2>2. UNCHANGED <<converters, adds>>
    BY <2>1 DEF vars, Convert
  <2> QED BY <1>2, <2>2 DEF Invoke
<1> QED BY <1>1, <1>2 DEF Use

LEMMA BuildFrame == ASSUME NEW t \in Threads, (\E c \in Types : StaticMeta(t, c)) \/ Build(t) PROVE UNCHANGED <<call, objects, asks>>
<1>1. ASSUME RegisterConversion(t) PROVE UNCHANGED <<call, objects, asks>>
  BY <1>1 DEF RegisterConversion, Add, vars
<1> QED BY <1>1 DEF StaticMeta, Build, BuildBase, Construct, RegisterType, ReturnMeta, vars

LEMMA ApplicationKeepsBuild == ASSUME BuildInv, NEW t \in Threads, Application(t) PROVE BuildInv'
<1>1. UNCHANGED <<meta, index, stack>>
  BY DEF Application, metaVars
<1>2. CASE UNCHANGED <<converters, adds>>
  BY <1>1, <1>2, RestKeepsBuild
<1>3. CASE \E k \in Edges : Add(t, k)
  <2>1. Grows(meta, meta', converters, converters') /\ converters' \in [Edges -> Nat] /\ adds' \in Nat
    BY <1>1, <1>3, AddGrows DEF BuildInv
  <2> QED BY <1>1, <2>1, BuildInvStays
<1> QED BY <1>2, <1>3 DEF Application, Convert, Return

LEMMA MetaKeepsBuild == ASSUME BuildInv, [MetaNext]_all PROVE BuildInv'
<1>1. CASE UNCHANGED all
  BY <1>1, RestKeepsBuild DEF all, vars, metaVars
<1>2. ASSUME NEW t \in Threads, Search(t) PROVE BuildInv'
  BY <1>2, SearchFrame, RestKeepsBuild DEF metaVars
<1>3. ASSUME NEW t \in Threads, Edit(t) \/ Copy(t) \/ Use(t) PROVE BuildInv'
  BY <1>3, EditFrame, CopyFrame, UseFrame, RestKeepsBuild
<1> QED BY <1>1, <1>2, <1>3, BuildKeeps, ApplicationKeepsBuild DEF MetaNext

LEMMA MetaKeepsRegistry == ASSUME BuildInv, RegistryInv, [MetaNext]_all PROVE RegistryInv'
<1>1. CASE UNCHANGED vars
  BY <1>1, UnchangedKeeps
<1>2. ASSUME NEW t \in Threads, RegisterConversion(t) PROVE RegistryInv'
  <2>1. stack[t] # <<>>
    BY <1>2 DEF RegisterConversion, In
  <2>2. Class(t) \in Types
    BY <2>1, HeadFacts
  <2>3. UNCHANGED vars \/ \E k \in Edges : Add(t, k)
    BY <1>2, <2>2, ClassFacts DEF RegisterConversion, Pairs
  <2> QED BY <2>3, AddKeeps, UnchangedKeeps
<1>3. ASSUME NEW t \in Threads, (\E c \in Types : StaticMeta(t, c)) \/ Build(t) PROVE RegistryInv'
  <2>1. UNCHANGED vars \/ RegisterConversion(t)
    BY <1>3 DEF StaticMeta, Build, BuildBase, Construct, RegisterType, ReturnMeta
  <2> QED BY <2>1, <1>2, UnchangedKeeps
<1>4. ASSUME NEW t \in Threads, Search(t) PROVE RegistryInv'
  BY <1>4, NextStepKeeps, NoPathKeeps, VisitKeeps DEF Search
<1>5. ASSUME NEW t \in Threads, Application(t) PROVE RegistryInv'
  <2>1. ASSUME NEW q \in Queries, Convert(t, q[1], q[2]) PROVE RegistryInv'
    <3>1. q[1] # q[2] /\ q[2] \in Types
      BY RegistryAssumption
    <3> QED BY <2>1, <3>1, ConvertKeeps
  <2> QED BY <1>5, <2>1, AddKeeps, ReturnKeeps DEF Application
<1>6. ASSUME NEW t \in Threads, Use(t) PROVE RegistryInv'
  <2>1. ASSUME EndInvoke(t) PROVE RegistryInv'
    BY <2>1, ReturnKeeps DEF EndInvoke
  <2>2. ASSUME NEW o \in Objects, NEW h \in Types, NEW c \in Types, NEW m \in Members, Invoke(t, o, h, c, m) PROVE RegistryInv'
    <3>1. UNCHANGED vars \/ (Target(Find(c, o, m)) # h /\ Convert(t, Target(Find(c, o, m)), h))
      BY <2>2 DEF Invoke
    <3> QED BY <3>1, ConvertKeeps, UnchangedKeeps
  <2> QED BY <1>6, <2>1, <2>2 DEF Use
<1>7. ASSUME NEW t \in Threads, Edit(t) \/ Copy(t) PROVE RegistryInv'
  BY <1>7, EditFrame, CopyFrame, UnchangedKeeps
<1>8. CASE UNCHANGED all
  BY <1>1, <1>8 DEF all
<1> QED BY <1>3, <1>4, <1>5, <1>6, <1>7, <1>8 DEF MetaNext

LEMMA MetaStarts == MetaInit => RegistryInv /\ BuildInv
<1> SUFFICES ASSUME MetaInit PROVE RegistryInv /\ BuildInv
  OBVIOUS
<1>1. PICK s \in Scenarios :
         /\ meta = [c \in Types |-> IF c \in s.built THEN "built" ELSE "none"]
         /\ index = [n \in {NameOf[c] : c \in Types} |->
              IF \E c \in s.built : NameOf[c] = n THEN CHOOSE c \in s.built : NameOf[c] = n ELSE NoClass]
         /\ converters = [k \in Edges |-> IF \E c \in s.built : k \in OwnEdges(c) THEN 1 ELSE 0]
         /\ adds = MaxAdds - s.adds
  BY DEF MetaInit
<1>2. /\ s.built \subseteq Types /\ \A c \in s.built : Base(c) \subseteq s.built
      /\ \A c, d \in s.built : NameOf[c] = NameOf[d] => c = d
      /\ s.adds \in 0 .. MaxAdds
  BY ScenarioAssumption
<1>3. adds \in Nat /\ converters \in [Edges -> Nat]
  BY <1>1, <1>2, RegistryAssumption
<1>4. \A t \in Threads : call[t] = Idle /\ stack[t] = <<>> /\ Len(stack[t]) = 0
  BY DEF MetaInit
<1>5. RegistryInv
  <2>1. Sound(converters, Idle)
    BY DEF Sound, Idle
  <2>2. call = [t \in Threads |-> call[t]]
    BY DEF MetaInit
  <2> QED BY <1>3, <1>4, <2>1, <2>2 DEF RegistryInv
<1>6. \A c \in s.built : Based(meta, c) /\ Linked(converters, c) /\ Named(index, c)
  <2> SUFFICES ASSUME NEW c \in s.built PROVE Based(meta, c) /\ Linked(converters, c) /\ Named(index, c)
    OBVIOUS
  <2>1. Based(meta, c)
    BY <1>1, <1>2 DEF Based
  <2>2. Linked(converters, c)
    <3>1. OwnEdges(c) \subseteq Edges
      BY <1>2, ClassFacts
    <3> QED BY <1>1, <3>1 DEF Linked
  <2>3. (CHOOSE d \in s.built : NameOf[d] = NameOf[c]) = c
    BY <1>2
  <2>4. Named(index, c)
    BY <1>1, <1>2, <2>3 DEF Named
  <2> QED BY <2>1, <2>2, <2>4
<1>7. \A n \in ClassNames : index[n] \in Types \cup {NoClass} /\ (index[n] # NoClass => NameOf[index[n]] = n /\ index[n] \in s.built)
  BY <1>1, <1>2 DEF ClassNames
<1>8. BuildType
  <2>1. meta \in [Types -> {"none", "building", "built"}]
    BY <1>1
  <2>2. index \in [ClassNames -> Types \cup {NoClass}]
    <3>1. index = [n \in ClassNames |-> index[n]]
      BY <1>1 DEF ClassNames
    <3> QED BY <1>7, <3>1
  <2>3. stack \in [Threads -> Seq(Frames)]
    BY DEF MetaInit
  <2> QED BY <1>3, <2>1, <2>2, <2>3 DEF BuildType
<1>9. OneBuilder /\ Progresses
  BY <1>4 DEF OneBuilder, Progresses
<1>10. BuiltIsReady /\ IndexIsReady
  <2>1. \A c \in Types : meta[c] = "built" => c \in s.built
    BY <1>1
  <2> QED BY <1>6, <1>7, <2>1 DEF BuiltIsReady, IndexIsReady
<1> QED BY <1>5, <1>8, <1>9, <1>10 DEF BuildInv

\* A class whose base is there, and all above it, are there with their conversions.
LEMMA ReadyAbove == ASSUME BuildInv, NEW c \in Types, Based(meta, c), Linked(converters, c)
    PROVE ChainEdges(c) \subseteq Registered /\ Above[c] \ {c} \subseteq Built
<1> DEFINE S == {c} \cup Built
<1>1. S \in SUBSET Types /\ \A x \in S : Base(x) \subseteq S
  BY ClassFacts DEF BuildInv, BuiltIsReady, Based, Built
<1>2. Above[c] \subseteq S
  BY <1>1, Climbs
<1>3. \A x \in S : OwnEdges(x) \subseteq Registered
  BY ClassFacts DEF BuildInv, BuiltIsReady, Linked, Built, Registered
<1> QED BY <1>2, <1>3 DEF ChainEdges

LEMMA PublishedReady == BuildInv => PublishedConverts
<1> SUFFICES ASSUME BuildInv PROVE PublishedConverts
  OBVIOUS
<1>1. \A c \in Known : c \in Types /\ Based(meta, c) /\ Linked(converters, c)
  BY ClassFacts DEF Known, Built, BuildInv, BuildType, BuiltIsReady, IndexIsReady
<1>2. \A c \in Built : index[NameOf[c]] = c
  BY DEF Built, BuildInv, BuiltIsReady, Named
<1> QED BY <1>1, <1>2, ReadyAbove DEF PublishedConverts

LEMMA MetaInvariant == MetaSpec => [](RegistryInv /\ BuildInv)
<1>1. RegistryInv /\ BuildInv /\ [MetaNext]_all => (RegistryInv /\ BuildInv)'
  BY MetaKeepsBuild, MetaKeepsRegistry
<1> QED BY <1>1, MetaStarts, PTL DEF MetaSpec

\* vmeta.h: whoever finds a class, in the index or from static_meta, finds the metadata of
\* its bases and the conversions along all of them, and a class that was built is what its
\* name stands for, whichever threads build its relatives and whichever of them fail.
THEOREM PublishedConvertsAlways == MetaSpec => []PublishedConverts
BY MetaInvariant, PublishedReady, PTL

\* The registry keeps its promise for the searches that reflective calls make, although
\* classes register their conversions meanwhile.
THEOREM ConversionsComposeAlways == MetaSpec => []ConversionsCompose
BY MetaInvariant, RegistryComposes, PTL

-----------------------------------------------------------------------------
(* Objects' own members.                                                   *)

MapsOf == [Members -> {0} \cup Ids]
Copies == [from : Objects, to : Objects, map : {"properties", "methods"}, done : MapsOf]
Descriptors == [type : Types \cup ValueTypes \cup {NoClass}, value : {0, 1}]

ObjectType ==
    /\ dynamic \in [Objects -> MapsOf] /\ heap \in [Ids -> Descriptors] /\ live \subseteq Objects
    /\ copying \in [Threads -> Copies \cup {NoAsk}]
    /\ asks = [t \in Threads |-> asks[t]]

NoCopy == \A t \in Threads : copying[t] = NoAsk

\* One object is copied at a time, while no member is called.
OneCopy == \A t, u \in Threads : copying[t] # NoAsk => asks[u] = NoAsk /\ (copying[u] # NoAsk => t = u)

Same(o, p, m) ==
    /\ dynamic[o][m] = 0 <=> dynamic[p][m] = 0
    /\ dynamic[o][m] # 0 => heap[dynamic[o][m]] = heap[dynamic[p][m]]

\* What was cloned, of the map whose turn it is, is like the original, in a descriptor
\* of its own, and the properties are in place before the methods are cloned.
Faithful == \A t \in Threads : copying[t] # NoAsk =>
    /\ ClassOf[copying[t].from] = ClassOf[copying[t].to]
    /\ \A m \in Members : copying[t].done[m] # 0 =>
         /\ m \in MapOf(copying[t]) /\ dynamic[copying[t].from][m] # 0
         /\ heap[copying[t].done[m]] = heap[dynamic[copying[t].from][m]]
         /\ \A o \in Objects, n \in Members : dynamic[o][n] # copying[t].done[m]
         /\ \A n \in Members : copying[t].done[n] = copying[t].done[m] => n = m
    /\ copying[t].map = "methods" => \A m \in Properties : Same(copying[t].to, copying[t].from, m)

\* A method's object_type is a class of the object's.
Fitted == \A o \in Objects, m \in Methods : dynamic[o][m] # 0 => heap[dynamic[o][m]].type \in Handles(o)

ObjectInv == ObjectType /\ OneCopy /\ Faithful /\ CopiesApart /\ Fitted

\* There is room: a map for each object, and for the copy that is made.
LEMMA Room == ASSUME ObjectType, OneCopy, Objects # {}, Members # {} PROVE NewId \in Ids /\ Unused(NewId)
<1> DEFINE Cells == Objects \X Members
           n == Cardinality(Cells)
           Stored == {dynamic[k[1]][k[2]] : k \in Cells}
<1>1. IsFiniteSet(Cells) /\ n \in Nat /\ n > 0 /\ n = Cardinality(Objects) * Cardinality(Members)
  <2>1. IsFiniteSet(Objects) /\ IsFiniteSet(Members)
    BY MetaAssumption
  <2>2. IsFiniteSet(Cells) /\ n = Cardinality(Objects) * Cardinality(Members)
    BY <2>1, FS_Product
  <2>3. Cells # {}
    <3>1. PICK o \in Objects, m \in Members : TRUE
      OBVIOUS
    <3>2. <<o, m>> \in Cells
      OBVIOUS
    <3> QED BY <3>2
  <2>4. n \in Nat /\ (n = 0 <=> Cells = {})
    BY <2>2, FS_CardinalityType, FS_EmptySet
  <2> QED BY <2>2, <2>3, <2>4
<1>2. Cardinality(Objects) \in Nat /\ Cardinality(Members) \in Nat
  BY MetaAssumption, FS_CardinalityType
<1>3. Ids = 1 .. 3 * n
  <2>1. \A a, b \in Nat : 3 * a * b = 3 * (a * b)
    OBVIOUS
  <2> QED BY <1>1, <1>2, <2>1 DEF Ids
<1> HIDE DEF n
<1>4. IsFiniteSet(Stored) /\ Cardinality(Stored) \in Nat /\ Cardinality(Stored) <= n
  <2>1. [k \in Cells |-> dynamic[k[1]][k[2]]] \in Surjection(Cells, Stored)
    BY DEF Surjection
  <2>2. IsFiniteSet(Stored) /\ Cardinality(Stored) <= Cardinality(Cells)
    BY <1>1, <2>1, FS_Surjection
  <2> QED BY <2>2, FS_CardinalityType DEF n
<1> DEFINE Holds(Made) ==
             /\ IsFiniteSet(Made) /\ Cardinality(Made) \in Nat /\ Cardinality(Made) <= n
             /\ \A t \in Threads : copying[t] # NoAsk => \A m \in Members : copying[t].done[m] \in Made
<1>5. PICK Made : Holds(Made)
  <2>1. CASE \A t \in Threads : copying[t] = NoAsk
    <3>1. IsFiniteSet({}) /\ Cardinality({}) = 0
      BY FS_EmptySet
    <3> QED BY <1>1, <2>1, <3>1
  <2>2. ASSUME NEW t \in Threads, copying[t] # NoAsk PROVE \E M : Holds(M)
    <3> DEFINE done == copying[t].done
               Made == {done[k[2]] : k \in Cells}
    <3>1. [k \in Cells |-> done[k[2]]] \in Surjection(Cells, Made)
      BY DEF Surjection
    <3>2. IsFiniteSet(Made) /\ Cardinality(Made) <= Cardinality(Cells)
      BY <1>1, <3>1, FS_Surjection
    <3>3. Cardinality(Made) \in Nat /\ Cardinality(Made) <= n
      BY <3>2, FS_CardinalityType DEF n
    <3>4. \A m \in Members : done[m] \in Made
      <4>1. PICK o : o \in Objects
        OBVIOUS
      <4>2. \A m \in Members : <<o, m>> \in Cells /\ <<o, m>>[2] = m
        BY <4>1
      <4> QED BY <4>2
    <3>5. \A u \in Threads : copying[u] # NoAsk => \A m \in Members : copying[u].done[m] \in Made
      BY <3>4, <2>2 DEF OneCopy
    <3> QED BY <3>2, <3>3, <3>5
  <2> QED BY <2>1, <2>2
<1>6. \E d \in Ids : d \notin Stored \cup Made
  <2>1. SUFFICES ASSUME Ids \subseteq Stored \cup Made PROVE FALSE
    OBVIOUS
  <2>2. IsFiniteSet(Stored \cup Made) /\ Cardinality(Stored \cup Made) <= n + n
    <3>1. IsFiniteSet(Stored \cap Made)
      BY <1>4, FS_Subset
    <3>2. Cardinality(Stored \cap Made) \in Nat
      BY <3>1, FS_CardinalityType
    <3> HIDE DEF Stored
    <3>3. IsFiniteSet(Stored \cup Made) /\ Cardinality(Stored \cup Made)
            = Cardinality(Stored) + Cardinality(Made) - Cardinality(Stored \cap Made)
      BY <1>4, <1>5, FS_Union
    <3> QED BY <1>1, <1>4, <1>5, <3>2, <3>3
  <2>3. Cardinality(Ids) <= Cardinality(Stored \cup Made)
    BY <2>1, <2>2, FS_Subset
  <2>4. Cardinality(Ids) = 3 * n
    <3>1. 1 \in Int /\ 3 * n \in Int /\ ~(1 > 3 * n) /\ 3 * n - 1 + 1 = 3 * n
      BY <1>1
    <3> QED BY <1>3, <3>1, FS_Interval
  <2>5. Cardinality(Stored \cup Made) \in Nat
    BY <2>2, FS_CardinalityType
  <2> QED BY <1>1, <2>2, <2>3, <2>4, <2>5
<1>7. \A d \in Ids : d \notin Stored \cup Made => Unused(d)
  <2>1. \A o \in Objects, m \in Members : dynamic[o][m] \in Stored
    <3>1. \A o \in Objects, m \in Members : <<o, m>> \in Cells /\ <<o, m>>[1] = o /\ <<o, m>>[2] = m
      OBVIOUS
    <3> QED BY <3>1
  <2> QED BY <2>1, <1>5 DEF Unused
<1> DEFINE S == {d \in Ids : Unused(d)}
<1>8. S \in SUBSET Nat /\ S # {}
  BY <1>1, <1>3, <1>6, <1>7
<1> HIDE DEF S
<1>9. PICK d \in S : \A e \in S : d <= e
  BY <1>8, LeastNatural
<1>10. \A e \in 1 .. d - 1 : ~Unused(e)
  <2>1. \A e \in 1 .. d - 1 : e \in Ids /\ ~(d <= e)
    BY <1>1, <1>3, <1>8, <1>9 DEF S
  <2> QED BY <2>1, <1>9 DEF S
<1> QED BY <1>9, <1>10 DEF S, NewId

LEMMA IdFacts == 0 \notin Ids
<1>1. Ids \subseteq 1 .. 3 * Cardinality(Objects) * Cardinality(Members)
  BY DEF Ids
<1>2. \A n : 0 \notin 1 .. n
  OBVIOUS
<1> QED BY <1>1, <1>2

\* A descriptor of its own is put into a map.
LEMMA StoreKeeps == ASSUME ObjectInv, NoCopy, UNCHANGED <<copying, asks, live>>, NEW o \in Objects, NEW m \in Members,
                           NEW type \in Types \cup ValueTypes, m \in Methods => type \in Handles(o), Store(o, m, type)
    PROVE ObjectInv'
<1>1. PICK d \in Ids : d = NewId /\ Unused(d)
  BY Room DEF ObjectInv
<1>2. PICK x : x = [type |-> type, value |-> 0]
  OBVIOUS
<1>3. x \in Descriptors /\ x.type = type
  BY <1>2 DEF Descriptors
<1>4. dynamic' = [dynamic EXCEPT ![o][m] = d] /\ heap' = [heap EXCEPT ![d] = x]
  BY <1>1, <1>2 DEF Store
<1>5. dynamic \in [Objects -> MapsOf] /\ heap \in [Ids -> Descriptors] /\ live \subseteq Objects
  BY DEF ObjectInv, ObjectType
<1>6. dynamic' \in [Objects -> MapsOf] /\ heap' \in [Ids -> Descriptors]
  BY <1>3, <1>4, <1>5 DEF MapsOf
<1>7. ObjectType' /\ OneCopy' /\ Faithful'
  BY <1>6 DEF ObjectInv, ObjectType, OneCopy, Faithful, NoCopy
<1>8. \A p \in Objects, n \in Members : dynamic'[p][n] = IF p = o /\ n = m THEN d ELSE dynamic[p][n]
  BY <1>4, <1>5 DEF MapsOf
<1>9. \A p \in Objects, n \in Members : dynamic[p][n] # d
  BY <1>1 DEF Unused
<1>10. CopiesApart'
  BY <1>8, <1>9 DEF CopiesApart, ObjectInv
<1>11. Fitted'
  <2> SUFFICES ASSUME NEW p \in Objects, NEW n \in Methods, dynamic'[p][n] # 0
               PROVE heap'[dynamic'[p][n]].type \in Handles(p)
    BY DEF Fitted
  <2>1. n \in Members
    BY DEF Members
  <2>2. CASE p = o /\ n = m
    BY <2>1, <2>2, <1>3, <1>4, <1>5, <1>8
  <2>3. CASE ~(p = o /\ n = m)
    <3>1. dynamic'[p][n] = dynamic[p][n] /\ dynamic[p][n] # d
      BY <2>1, <2>3, <1>8, <1>9
    <3>2. dynamic[p][n] \in Ids
      BY <3>1, <2>1, <1>5 DEF MapsOf
    <3> QED BY <3>1, <3>2, <1>4, <1>5 DEF ObjectInv, Fitted
  <2> QED BY <2>2, <2>3
<1> QED BY <1>7, <1>10, <1>11 DEF ObjectInv

\* A value changes, as a method's own state may; no copy is under way.
LEMMA ValueKeeps == ASSUME ObjectInv, NoCopy, UNCHANGED <<dynamic, copying, live>>, asks' = [t \in Threads |-> asks'[t]],
                           NEW d, heap' = [heap EXCEPT ![d].value = 1]
    PROVE ObjectInv'
<1>1. dynamic \in [Objects -> MapsOf] /\ heap \in [Ids -> Descriptors]
  BY DEF ObjectInv, ObjectType
<1>2. heap' \in [Ids -> Descriptors] /\ \A e \in Ids : heap'[e].type = heap[e].type
  BY <1>1 DEF Descriptors
<1>3. ObjectType'
  BY <1>2 DEF ObjectInv, ObjectType
<1>4. OneCopy' /\ Faithful' /\ CopiesApart'
  BY DEF ObjectInv, OneCopy, Faithful, NoCopy, CopiesApart
<1>5. Fitted'
  <2>1. \A o \in Objects, m \in Methods : dynamic[o][m] # 0 => dynamic[o][m] \in Ids
    BY <1>1 DEF MapsOf, Members
  <2> QED BY <2>1, <1>2 DEF ObjectInv, Fitted
<1> QED BY <1>3, <1>4, <1>5 DEF ObjectInv

LEMMA RunKeeps == ASSUME ObjectInv, NoCopy, UNCHANGED <<dynamic, copying, live>>, asks' = [t \in Threads |-> asks'[t]],
                         (\E e : Run(e)) \/ UNCHANGED heap
    PROVE ObjectInv'
<1>1. CASE UNCHANGED heap
  BY <1>1 DEF ObjectInv, ObjectType, OneCopy, Faithful, NoCopy, CopiesApart, Fitted
<1>2. CASE \E d : heap' = [heap EXCEPT ![d].value = 1]
  BY <1>2, ValueKeeps
<1> QED BY <1>1, <1>2 DEF Run

LEMMA NothingKeepsObjects == ASSUME ObjectInv, UNCHANGED <<dynamic, heap, copying, live, asks>> PROVE ObjectInv'
BY DEF ObjectInv, ObjectType, OneCopy, Faithful, Same, CopiesApart, Fitted

LEMMA SetMethodKeeps == ASSUME ObjectInv, NEW t \in Threads, NEW o \in Objects, NEW h \in Types, NEW m \in Members,
                               SetMethod(t, o, h, m)
    PROVE ObjectInv'
<1>1. NoCopy /\ h \in Handles(o) /\ Store(o, m, h) /\ UNCHANGED <<copying, asks, live>>
  BY DEF SetMethod, MayEdit, NoCopy
<1> QED BY <1>1, StoreKeeps

LEMMA SetPropertyKeeps == ASSUME ObjectInv, NEW t \in Threads, NEW o \in Objects, NEW type \in ValueTypes, NEW m \in Members,
                                 SetDynamicProperty(t, o, m, type)
    PROVE ObjectInv'
<1>1. NoCopy /\ m \notin Methods /\ UNCHANGED <<copying, asks, live>>
  BY MetaAssumption DEF SetDynamicProperty, MayEdit, NoCopy
<1>2. CASE Store(o, m, type)
  BY <1>1, <1>2, StoreKeeps
<1>3. CASE heap' = [heap EXCEPT ![dynamic[o][m]].value = 1] /\ UNCHANGED dynamic
  <2>1. asks' = [u \in Threads |-> asks'[u]]
    BY <1>1 DEF ObjectInv, ObjectType
  <2> QED BY <1>1, <1>3, <2>1, ValueKeeps
<1> QED BY <1>2, <1>3 DEF SetDynamicProperty

LEMMA StartCopyKeeps == ASSUME ObjectInv, NEW t \in Threads, NEW from \in Objects, NEW to \in Objects, StartCopy(t, from, to)
    PROVE ObjectInv'
<1>1. PICK c : c = [from |-> from, to |-> to, map |-> "properties", done |-> Bare]
  OBVIOUS
<1>2. c \in Copies /\ ClassOf[c.from] = ClassOf[c.to] /\ c.map = "properties" /\ \A m \in Members : c.done[m] = 0
  BY <1>1 DEF StartCopy, Copies, MapsOf, Bare
<1>3. copying' = [copying EXCEPT ![t] = c] /\ UNCHANGED <<dynamic, heap, live, asks>> /\ NoCopy
      /\ \A u \in Threads : asks[u] = NoAsk
  BY <1>1 DEF StartCopy, MayEdit, NoCopy
<1>4. \A u \in Threads : copying'[u] # NoAsk => u = t /\ copying'[u] = c
  BY <1>3 DEF NoCopy, ObjectInv, ObjectType
<1>5. ObjectType'
  BY <1>2, <1>3 DEF ObjectInv, ObjectType
<1>6. OneCopy' /\ CopiesApart' /\ Fitted'
  BY <1>3, <1>4 DEF ObjectInv, OneCopy, CopiesApart, Fitted
<1>7. Faithful'
  BY <1>2, <1>4 DEF Faithful
<1> QED BY <1>5, <1>6, <1>7 DEF ObjectInv

\* What a thread copies, and that no other does.
LEMMA CopyFacts == ASSUME ObjectInv, NEW t \in Threads, copying[t] # NoAsk
    PROVE /\ copying[t] \in Copies /\ copying[t].from \in Objects /\ copying[t].to \in Objects
          /\ copying[t].done \in [Members -> {0} \cup Ids]
          /\ \A u \in Threads : (u # t => copying[u] = NoAsk) /\ asks[u] = NoAsk
<1>1. copying[t] \in Copies
  BY DEF ObjectInv, ObjectType
<1> QED BY <1>1 DEF Copies, MapsOf, ObjectInv, OneCopy

LEMMA CloneThrowsKeeps == ASSUME ObjectInv, NEW t \in Threads, CloneThrows(t) PROVE ObjectInv'
<1> DEFINE to == copying[t].to
<1>1. /\ copying' = [copying EXCEPT ![t] = NoAsk] /\ UNCHANGED <<heap, live, asks>>
      /\ dynamic' = dynamic \/ dynamic' = [dynamic EXCEPT ![to] = Bare]
  BY DEF CloneThrows
<1>2. \A u \in Threads : copying'[u] = NoAsk
  BY <1>1, CopyFacts DEF CloneThrows, ObjectInv, ObjectType
<1>3. Bare \in MapsOf /\ \A m \in Members : Bare[m] = 0
  BY DEF Bare, MapsOf
<1>4. dynamic \in [Objects -> MapsOf]
  BY DEF ObjectInv, ObjectType
<1> HIDE DEF to
<1>5. dynamic' \in [Objects -> MapsOf] /\ \A o \in Objects, m \in Members : dynamic'[o][m] \in {0, dynamic[o][m]}
  BY <1>1, <1>3, <1>4
<1>6. ObjectType'
  BY <1>1, <1>5 DEF ObjectInv, ObjectType
<1>7. OneCopy' /\ Faithful'
  BY <1>2 DEF OneCopy, Faithful
<1>8. CopiesApart'
  BY <1>5 DEF ObjectInv, CopiesApart
<1>9. Fitted'
  <2>1. \A o \in Objects, m \in Methods : dynamic'[o][m] \in {0, dynamic[o][m]}
    BY <1>5 DEF Members
  <2> QED BY <1>1, <2>1 DEF ObjectInv, Fitted
<1> QED BY <1>6, <1>7, <1>8, <1>9 DEF ObjectInv

\* What a swap changes: one map of one object, which is then like the original's.
LEMMA SwapFacts == ASSUME ObjectInv, NEW t \in Threads, Swap(t), UNCHANGED heap
    PROVE /\ dynamic' \in [Objects -> MapsOf] /\ CopiesApart' /\ Fitted'
          /\ \A o \in Objects, m \in Members : dynamic'[o][m] =
               IF o = copying[t].to /\ m \in MapOf(copying[t]) THEN copying[t].done[m] ELSE dynamic[o][m]
          /\ \A m \in MapOf(copying[t]) :
               /\ copying[t].done[m] = 0 <=> dynamic[copying[t].from][m] = 0
               /\ copying[t].done[m] # 0 => heap[copying[t].done[m]] = heap[dynamic[copying[t].from][m]]
<1> DEFINE c == copying[t]
           New == [m \in Members |-> IF m \in MapOf(c) THEN c.done[m] ELSE dynamic[c.to][m]]
<1>1. c = copying[t] /\ c # NoAsk
  BY DEF Swap
<1> HIDE DEF c
<1>2. c.from \in Objects /\ c.to \in Objects /\ c.done \in [Members -> {0} \cup Ids]
  BY <1>1, CopyFacts
<1>3. /\ ClassOf[c.from] = ClassOf[c.to]
      /\ \A m \in Members : c.done[m] # 0 =>
           /\ dynamic[c.from][m] # 0 /\ heap[c.done[m]] = heap[dynamic[c.from][m]]
           /\ \A o \in Objects, n \in Members : dynamic[o][n] # c.done[m]
           /\ \A n \in Members : c.done[n] = c.done[m] => n = m
  BY <1>1 DEF ObjectInv, Faithful
<1>4. dynamic \in [Objects -> MapsOf] /\ MapOf(c) \subseteq Members
  BY DEF ObjectInv, ObjectType, MapOf, Members
<1>5. dynamic' = [dynamic EXCEPT ![c.to] = New] /\ \A m \in MapOf(c) : dynamic[c.from][m] # 0 => c.done[m] # 0
  <2>1. dynamic' = [dynamic EXCEPT ![c.to] = New]
    BY <1>1, <1>2, <1>4 DEF Swap
  <2>2. Missing(c) = {}
    BY <1>1 DEF Swap
  <2> QED BY <2>1, <2>2 DEF Missing
<1>6. New \in MapsOf /\ \A m \in Members : New[m] = IF m \in MapOf(c) THEN c.done[m] ELSE dynamic[c.to][m]
  BY <1>2, <1>4 DEF MapsOf
<1> HIDE DEF New
<1>7. dynamic' \in [Objects -> MapsOf]
  BY <1>4, <1>5, <1>6
<1>8. \A o \in Objects, m \in Members :
        dynamic'[o][m] = IF o = c.to /\ m \in MapOf(c) THEN c.done[m] ELSE dynamic[o][m]
  BY <1>2, <1>4, <1>5, <1>6
<1>9. CopiesApart'
  <2> SUFFICES ASSUME NEW o \in Objects, NEW p \in Objects, NEW m \in Members, NEW n \in Members,
                      dynamic'[o][m] # 0, dynamic'[o][m] = dynamic'[p][n]
               PROVE o = p /\ m = n
    BY DEF CopiesApart
  <2>1. CASE (o = c.to /\ m \in MapOf(c)) \/ (p = c.to /\ n \in MapOf(c))
    BY <2>1, <1>3, <1>8
  <2>2. CASE ~(o = c.to /\ m \in MapOf(c)) /\ ~(p = c.to /\ n \in MapOf(c))
    BY <2>2, <1>8 DEF ObjectInv, CopiesApart
  <2> QED BY <2>1, <2>2
<1>10. Fitted'
  <2> SUFFICES ASSUME NEW o \in Objects, NEW m \in Methods, dynamic'[o][m] # 0
               PROVE heap[dynamic'[o][m]].type \in Handles(o)
    BY DEF Fitted
  <2>1. m \in Members
    BY DEF Members
  <2>2. \A p \in Objects : dynamic[p][m] # 0 => heap[dynamic[p][m]].type \in Handles(p)
    BY DEF ObjectInv, Fitted
  <2>3. Handles(c.from) = Handles(c.to)
    BY <1>3 DEF Handles
  <2> QED BY <2>1, <2>2, <2>3, <1>2, <1>3, <1>8
<1>11. \A m \in MapOf(c) :
         /\ c.done[m] = 0 <=> dynamic[c.from][m] = 0
         /\ c.done[m] # 0 => heap[c.done[m]] = heap[dynamic[c.from][m]]
  BY <1>3, <1>4, <1>5
<1>12. \A o \in Objects, m \in Members : dynamic'[o][m] =
         IF o = copying[t].to /\ m \in MapOf(copying[t]) THEN copying[t].done[m] ELSE dynamic[o][m]
  BY <1>8 DEF c
<1>13. \A m \in MapOf(copying[t]) :
         /\ copying[t].done[m] = 0 <=> dynamic[copying[t].from][m] = 0
         /\ copying[t].done[m] # 0 => heap[copying[t].done[m]] = heap[dynamic[copying[t].from][m]]
  BY <1>11 DEF c
<1> QED BY <1>7, <1>9, <1>10, <1>12, <1>13

LEMMA EndPropertiesKeeps == ASSUME ObjectInv, NEW t \in Threads, EndProperties(t) PROVE ObjectInv'
<1>1. PICK c : c = copying[t] /\ c # NoAsk /\ c.map = "properties"
  BY DEF EndProperties, Swap
<1>2. Swap(t) /\ UNCHANGED <<heap, live, asks>> /\ copying' = [copying EXCEPT ![t] = [c EXCEPT !.map = "methods", !.done = Bare]]
  BY <1>1 DEF EndProperties
<1>3. c \in Copies /\ c.from \in Objects /\ c.to \in Objects
      /\ \A u \in Threads : (u # t => copying[u] = NoAsk) /\ asks[u] = NoAsk
  BY <1>1, CopyFacts
<1>4. PICK e : e = [c EXCEPT !.map = "methods", !.done = Bare]
  OBVIOUS
<1>5. e \in Copies /\ e.from = c.from /\ e.to = c.to /\ e.map = "methods" /\ \A m \in Members : e.done[m] = 0
  BY <1>3, <1>4 DEF Copies, MapsOf, Bare
<1>6. copying' = [copying EXCEPT ![t] = e]
  BY <1>2, <1>4
<1>7. copying'[t] = e /\ \A u \in Threads : u # t => copying'[u] = NoAsk
  BY <1>3, <1>6 DEF ObjectInv, ObjectType
<1>8. /\ dynamic' \in [Objects -> MapsOf] /\ CopiesApart' /\ Fitted'
      /\ \A o \in Objects, m \in Members : dynamic'[o][m] =
           IF o = c.to /\ m \in MapOf(c) THEN c.done[m] ELSE dynamic[o][m]
      /\ \A m \in MapOf(c) : /\ c.done[m] = 0 <=> dynamic[c.from][m] = 0
                             /\ c.done[m] # 0 => heap[c.done[m]] = heap[dynamic[c.from][m]]
  BY <1>1, <1>2, SwapFacts
<1>9. ObjectType'
  BY <1>2, <1>5, <1>6, <1>8 DEF ObjectInv, ObjectType
<1>10. OneCopy'
  BY <1>2, <1>3, <1>7 DEF OneCopy
<1>11. MapOf(c) = Properties /\ Properties \subseteq Members
  BY <1>1 DEF MapOf, Members
<1>12. \A m \in Properties : Same(c.to, c.from, m)'
  <2> SUFFICES ASSUME NEW m \in Properties PROVE Same(c.to, c.from, m)'
    OBVIOUS
  <2>1. dynamic'[c.to][m] = c.done[m] /\ dynamic'[c.from][m] = IF c.from = c.to THEN c.done[m] ELSE dynamic[c.from][m]
    BY <1>3, <1>8, <1>11
  <2> QED BY <2>1, <1>2, <1>8, <1>11 DEF Same
<1>13. Faithful'
  <2>1. \A u \in Threads : copying'[u] # NoAsk => copying'[u] = e
    BY <1>7
  <2>2. ClassOf[e.from] = ClassOf[e.to]
    BY <1>1, <1>5 DEF ObjectInv, Faithful
  <2>3. \A m \in Properties : Same(e.to, e.from, m)'
    BY <1>5, <1>12
  <2> QED BY <2>1, <2>2, <2>3, <1>5 DEF Faithful
<1> QED BY <1>8, <1>9, <1>10, <1>13 DEF ObjectInv

LEMMA EndCopyKeeps == ASSUME ObjectInv, NEW t \in Threads, EndCopy(t) PROVE ObjectInv'
<1>1. copying[t] # NoAsk /\ Swap(t) /\ live' = live \cup {copying[t].to}
      /\ copying' = [copying EXCEPT ![t] = NoAsk] /\ UNCHANGED <<heap, asks>>
  BY DEF EndCopy, Swap
<1>2. copying[t].to \in Objects /\ \A u \in Threads : u # t => copying[u] = NoAsk
  BY <1>1, CopyFacts
<1>3. dynamic' \in [Objects -> MapsOf] /\ CopiesApart' /\ Fitted'
  BY <1>1, SwapFacts
<1>4. ObjectType'
  BY <1>1, <1>2, <1>3 DEF ObjectInv, ObjectType
<1>5. \A u \in Threads : copying'[u] = NoAsk
  BY <1>1, <1>2 DEF ObjectInv, ObjectType
<1>6. OneCopy' /\ Faithful'
  BY <1>5 DEF OneCopy, Faithful
<1> QED BY <1>3, <1>4, <1>6 DEF ObjectInv

LEMMA CloneOneKeeps == ASSUME ObjectInv, NEW t \in Threads, NEW m \in Members, CloneOne(t, m)
    PROVE /\ ObjectInv'
          /\ UNCHANGED dynamic
          /\ \A o \in Objects, n \in Members : dynamic[o][n] # 0 => heap'[dynamic[o][n]] = heap[dynamic[o][n]]
<1> DEFINE c == copying[t]
           old == dynamic[c.from][m]
<1>1. c # NoAsk
  BY DEF CloneOne
<1>2. c \in Copies /\ c.from \in Objects /\ c.to \in Objects /\ c.done \in [Members -> {0} \cup Ids]
      /\ \A u \in Threads : (u # t => copying[u] = NoAsk) /\ asks[u] = NoAsk
  BY <1>1, CopyFacts
<1>3. PICK d \in Ids : d = NewId /\ Unused(d)
  BY <1>2, Room DEF ObjectInv
<1>4. old # 0 /\ c.done[m] = 0 /\ m \in MapOf(c) /\ copying' = [copying EXCEPT ![t].done[m] = d]
      /\ heap' = [heap EXCEPT ![d] = heap[old]] /\ UNCHANGED <<dynamic, live, asks>>
  BY <1>3 DEF CloneOne, Missing, Cloned, Aside
<1>5. PICK e : e = [c EXCEPT !.done[m] = d]
  OBVIOUS
<1>6. e \in Copies /\ e.from = c.from /\ e.to = c.to /\ e.map = c.map /\ MapOf(e) = MapOf(c)
      /\ e.done = [c.done EXCEPT ![m] = d]
  BY <1>2, <1>5 DEF Copies, MapsOf, MapOf
<1>7. dynamic \in [Objects -> MapsOf] /\ heap \in [Ids -> Descriptors] /\ copying \in [Threads -> Copies \cup {NoAsk}]
  BY DEF ObjectInv, ObjectType
<1>8. copying' = [copying EXCEPT ![t] = e]
  BY <1>4, <1>5
<1>9. old \in Ids /\ heap' \in [Ids -> Descriptors] /\ heap'[d] = heap[old] /\ \A i \in Ids : i # d => heap'[i] = heap[i]
  BY <1>2, <1>4, <1>7 DEF MapsOf
<1>10. (\A o \in Objects, n \in Members : dynamic[o][n] # d) /\ \A n \in Members : c.done[n] # d
  BY <1>1, <1>3 DEF Unused
<1>11. \A o \in Objects, n \in Members : dynamic[o][n] # 0 => dynamic[o][n] \in Ids /\ heap'[dynamic[o][n]] = heap[dynamic[o][n]]
  BY <1>7, <1>9, <1>10 DEF MapsOf
<1>12. /\ ClassOf[c.from] = ClassOf[c.to]
       /\ \A n \in Members : c.done[n] # 0 =>
            /\ n \in MapOf(c) /\ dynamic[c.from][n] # 0 /\ heap[c.done[n]] = heap[dynamic[c.from][n]]
            /\ \A o \in Objects, k \in Members : dynamic[o][k] # c.done[n]
            /\ \A k \in Members : c.done[k] = c.done[n] => k = n
       /\ c.map = "methods" => \A n \in Properties : Same(c.to, c.from, n)
  BY <1>1 DEF ObjectInv, Faithful
<1> HIDE DEF c, old
<1>13. ObjectType'
  BY <1>4, <1>6, <1>7, <1>8, <1>9 DEF ObjectInv, ObjectType
<1>14. copying'[t] = e /\ \A u \in Threads : u # t => copying'[u] = NoAsk
  BY <1>2, <1>7, <1>8
<1>15. OneCopy'
  BY <1>2, <1>4, <1>14 DEF OneCopy
<1>16. CopiesApart' /\ Fitted'
  <2>1. \A o \in Objects, n \in Methods : dynamic[o][n] # 0 => heap'[dynamic[o][n]] = heap[dynamic[o][n]]
    BY <1>11 DEF Members
  <2> QED BY <2>1, <1>4 DEF ObjectInv, CopiesApart, Fitted
<1>17. ASSUME NEW n \in Members, e.done[n] # 0
       PROVE /\ n \in MapOf(e) /\ dynamic[e.from][n] # 0 /\ heap'[e.done[n]] = heap'[dynamic[e.from][n]]
             /\ \A o \in Objects, k \in Members : dynamic[o][k] # e.done[n]
             /\ \A k \in Members : e.done[k] = e.done[n] => k = n
  <2>1. CASE n = m
    <3>1. e.done[n] = d /\ dynamic[e.from][n] = old
      BY <2>1, <1>2, <1>6 DEF old
    <3>2. heap'[old] = heap[old]
      BY <1>2, <1>4, <1>11 DEF old
    <3>3. \A k \in Members : e.done[k] = d => k = m
      BY <1>2, <1>6, <1>10
    <3> QED BY <2>1, <3>1, <3>2, <3>3, <1>4, <1>6, <1>9, <1>10
  <2>2. CASE n # m
    <3>1. e.done[n] = c.done[n] /\ e.from = c.from /\ c.done[n] # 0 /\ c.done[n] # d /\ c.done[n] \in Ids
      BY <2>2, <1>2, <1>6, <1>10, <1>17
    <3>2. heap'[c.done[n]] = heap[c.done[n]]
      BY <3>1, <1>9
    <3>3. \A k \in Members : e.done[k] = c.done[n] => k = n
      BY <3>1, <1>2, <1>6, <1>12
    <3>4. n \in MapOf(e) /\ dynamic[c.from][n] # 0 /\ heap[c.done[n]] = heap[dynamic[c.from][n]]
          /\ \A o \in Objects, k \in Members : dynamic[o][k] # c.done[n]
      BY <3>1, <1>6, <1>12
    <3>5. heap'[dynamic[c.from][n]] = heap[dynamic[c.from][n]]
      BY <3>4, <1>2, <1>11
    <3> QED BY <3>1, <3>2, <3>3, <3>4, <3>5
  <2> QED BY <2>1, <2>2
<1>18. ASSUME e.map = "methods", NEW n \in Properties PROVE Same(e.to, e.from, n)'
  <2>1. Same(c.to, c.from, n) /\ n \in Members /\ UNCHANGED dynamic
    BY <1>4, <1>6, <1>12, <1>18 DEF Members
  <2>2. \A o \in Objects : dynamic[o][n] # 0 => heap'[dynamic[o][n]] = heap[dynamic[o][n]]
    BY <2>1, <1>11
  <2> QED BY <2>1, <2>2, <1>2, <1>6 DEF Same
<1>19. Faithful'
  <2>1. \A u \in Threads : copying'[u] # NoAsk => copying'[u] = e
    BY <1>14
  <2>2. ClassOf[e.from] = ClassOf[e.to] /\ dynamic' = dynamic
    BY <1>4, <1>6, <1>12
  <2> HIDE DEF c
  <2> QED BY <2>1, <2>2, <1>17, <1>18 DEF Faithful
<1> QED BY <1>4, <1>11, <1>13, <1>15, <1>16, <1>19 DEF ObjectInv

LEMMA UseKeepsObjects == ASSUME ObjectInv, NEW t \in Threads, Use(t) PROVE ObjectInv'
<1>1. asks = [u \in Threads |-> asks[u]]
  BY DEF ObjectInv, ObjectType
<1>2. ASSUME EndInvoke(t) PROVE ObjectInv'
  <2>1. NoCopy
    BY <1>2 DEF EndInvoke, ObjectInv, OneCopy, NoCopy
  <2>2. UNCHANGED <<dynamic, copying, live>> /\ asks' = [u \in Threads |-> asks'[u]]
    BY <1>1, <1>2 DEF EndInvoke
  <2>3. (\E e : Run(e)) \/ UNCHANGED heap
    BY <1>2 DEF EndInvoke
  <2> QED BY <2>1, <2>2, <2>3, RunKeeps
<1>3. ASSUME NEW o \in Objects, NEW h \in Types, NEW c \in Types, NEW m \in Members, Invoke(t, o, h, c, m) PROVE ObjectInv'
  <2>1. NoCopy
    BY <1>3 DEF Invoke, NoCopy
  <2>2. UNCHANGED <<dynamic, copying, live>>
    BY <1>3 DEF Invoke
  <2>3. asks' = [u \in Threads |-> asks'[u]]
    BY <1>1, <1>3 DEF Invoke
  <2>4. (\E e : Run(e)) \/ UNCHANGED heap
    BY <1>3 DEF Invoke
  <2> QED BY <2>1, <2>2, <2>3, <2>4, RunKeeps
<1> QED BY <1>2, <1>3 DEF Use

LEMMA EditKeeps == ASSUME ObjectInv, NEW t \in Threads, Edit(t) PROVE ObjectInv'
BY SetMethodKeeps, SetPropertyKeeps, StartCopyKeeps DEF Edit

LEMMA CopyKeeps == ASSUME ObjectInv, NEW t \in Threads, Copy(t) PROVE ObjectInv'
BY CloneThrowsKeeps, EndPropertiesKeeps, EndCopyKeeps, CloneOneKeeps DEF Copy

LEMMA ApplicationFrame == ASSUME NEW t \in Threads, Application(t) PROVE UNCHANGED metaVars
BY DEF Application

LEMMA MetaKeepsObjects == ASSUME ObjectInv, [MetaNext]_all PROVE ObjectInv'
<1>1. CASE UNCHANGED all
  BY <1>1, NothingKeepsObjects DEF all, metaVars, objects
<1>2. ASSUME NEW t \in Threads, (\E c \in Types : StaticMeta(t, c)) \/ Build(t) PROVE ObjectInv'
  BY <1>2, BuildFrame, NothingKeepsObjects DEF objects
<1>3. ASSUME NEW t \in Threads, Search(t) \/ Application(t) PROVE ObjectInv'
  BY <1>3, SearchFrame, ApplicationFrame, NothingKeepsObjects DEF metaVars, objects
<1> QED BY <1>1, <1>2, <1>3, EditKeeps, CopyKeeps, UseKeepsObjects DEF MetaNext

LEMMA ObjectsStart == MetaInit => ObjectInv
<1> SUFFICES ASSUME MetaInit PROVE ObjectInv
  OBVIOUS
<1>1. /\ dynamic = [o \in Objects |-> Bare] /\ heap = [d \in Ids |-> [type |-> NoClass, value |-> 0]]
      /\ asks = [t \in Threads |-> NoAsk] /\ copying = [t \in Threads |-> NoAsk] /\ live \subseteq Objects
  BY DEF MetaInit
<1>2. ObjectType
  BY <1>1 DEF ObjectType, MapsOf, Bare, Descriptors
<1>3. \A o \in Objects, m \in Members : dynamic[o][m] = 0
  BY <1>1 DEF Bare
<1> QED BY <1>1, <1>2, <1>3 DEF ObjectInv, OneCopy, Faithful, CopiesApart, Fitted, Members

LEMMA ObjectInvariant == MetaSpec => []ObjectInv
BY MetaKeepsObjects, ObjectsStart, PTL DEF MetaSpec

\* vmeta.h: no two maps share a descriptor, whatever was copied, assigned or thrown.
THEOREM CopiesApartAlways == MetaSpec => []CopiesApart
<1>1. ObjectInv => CopiesApart
  BY DEF ObjectInv
<1> QED BY <1>1, ObjectInvariant, PTL

LEMMA ViewsAlike == ASSUME NEW o, NEW q, NEW S, \A m \in S : Same(q, o, m) PROVE View(q, S) = View(o, S)
BY DEF View, Same

\* vmeta.h 128-133, 800, 809: whichever clone throws, an object that is assigned to has its
\* own members, the original's, or the original's properties with its own methods, and one
\* that is made has all of the original's.
THEOREM AssignsWholeAlways == MetaSpec => AssignsWhole
<1> DEFINE AllOfMap(o, q) ==
             /\ \A map \in {Properties, Methods} : View(q, map)' \in {View(q, map), View(o, map)}
             /\ View(q, Methods)' # View(q, Methods) => View(q, Properties)' = View(o, Properties)
           Made(o, q) == q \in live' => View(q, Members)' = View(o, Members)
           Whole == \A t \in Threads, o, q \in Objects :
             copying[t] # NoAsk /\ copying[t].from = o /\ copying[t].to = q =>
               IF q \in live THEN AllOfMap(o, q) ELSE Made(o, q)
<1>1. ObjectInv /\ [MetaNext]_all => [Whole]_all
  <2> SUFFICES ASSUME ObjectInv, MetaNext, NEW t \in Threads, NEW o \in Objects, NEW q \in Objects,
                      copying[t] # NoAsk, copying[t].from = o, copying[t].to = q
               PROVE IF q \in live THEN AllOfMap(o, q) ELSE Made(o, q)
    OBVIOUS
  <2>1. \A u \in Threads : (u # t => copying[u] = NoAsk) /\ asks[u] = NoAsk
    BY CopyFacts
  <2>2. CASE UNCHANGED <<dynamic, heap, live>>
    BY <2>2 DEF View
  <2>3. ASSUME NEW u \in Threads, (\E c \in Types : StaticMeta(u, c)) \/ Build(u) PROVE UNCHANGED <<dynamic, heap, live>>
    BY <2>3, BuildFrame DEF objects
  <2>4. ASSUME NEW u \in Threads, Search(u) \/ Application(u) PROVE UNCHANGED <<dynamic, heap, live>>
    BY <2>4, SearchFrame, ApplicationFrame DEF metaVars, objects
  <2>5. ASSUME NEW u \in Threads, Edit(u) \/ Use(u) PROVE FALSE
    <3>1. ASSUME NEW p, MayEdit(u, p) PROVE FALSE
      BY <3>1 DEF MayEdit
    <3>2. ~Edit(u)
      BY <3>1 DEF Edit, SetMethod, SetDynamicProperty, StartCopy
    <3>3. ~EndInvoke(u)
      BY <2>1 DEF EndInvoke
    <3>4. ASSUME NEW p, NEW h, NEW c, NEW m, Invoke(u, p, h, c, m) PROVE FALSE
      BY <3>4 DEF Invoke
    <3> QED BY <2>5, <3>2, <3>3, <3>4 DEF Use
  <2>6. ASSUME NEW u \in Threads, NEW m \in Members, CloneOne(u, m) PROVE IF q \in live THEN AllOfMap(o, q) ELSE Made(o, q)
    <3>1. UNCHANGED <<dynamic, live>> /\ \A n \in Members : dynamic[q][n] # 0 => heap'[dynamic[q][n]] = heap[dynamic[q][n]]
      BY <2>6, CloneOneKeeps DEF CloneOne
    <3>2. Properties \subseteq Members /\ Methods \subseteq Members
      BY DEF Members
    <3>3. ASSUME NEW S \in SUBSET Members PROVE View(q, S)' = View(q, S)
      BY <3>1 DEF View
    <3> QED BY <3>1, <3>2, <3>3
  <2>7. ASSUME NEW u \in Threads, CloneThrows(u) PROVE IF q \in live THEN AllOfMap(o, q) ELSE Made(o, q)
    <3>1. u = t
      BY <2>1, <2>7 DEF CloneThrows
    <3>2. UNCHANGED <<heap, live>> /\ (q \in live => UNCHANGED dynamic)
      BY <2>7, <3>1 DEF CloneThrows
    <3> QED BY <3>2 DEF View
  <2>8. ASSUME Swap(t), UNCHANGED heap, NEW S \in SUBSET Members
        PROVE /\ S = MapOf(copying[t]) => View(q, S)' = View(o, S)
              /\ S \cap MapOf(copying[t]) = {} => View(q, S)' = View(q, S)
    <3>1. PICK D : D = dynamic'
      OBVIOUS
    <3>2. \A m \in MapOf(copying[t]) : m \in Members =>
            /\ D[q][m] = 0 <=> dynamic[o][m] = 0
            /\ D[q][m] # 0 => heap[D[q][m]] = heap[dynamic[o][m]]
      BY <2>8, <3>1, SwapFacts
    <3>3. \A m \in Members : m \notin MapOf(copying[t]) => D[q][m] = dynamic[q][m]
      BY <2>8, <3>1, SwapFacts
    <3>4. View(q, S)' = [m \in S |-> IF D[q][m] = 0 THEN Absent ELSE heap[D[q][m]]]
      BY <2>8, <3>1 DEF View
    <3>5. ASSUME S = MapOf(copying[t]) PROVE View(q, S)' = View(o, S)
      BY <3>2, <3>4, <3>5 DEF View
    <3>6. ASSUME S \cap MapOf(copying[t]) = {} PROVE View(q, S)' = View(q, S)
      BY <3>3, <3>4, <3>6 DEF View
    <3> QED BY <3>5, <3>6
  <2>9. ASSUME NEW u \in Threads, EndProperties(u) PROVE IF q \in live THEN AllOfMap(o, q) ELSE Made(o, q)
    <3>1. u = t
      BY <2>1, <2>9 DEF EndProperties, Swap
    <3>2. Swap(t) /\ UNCHANGED <<heap, live>> /\ MapOf(copying[t]) = Properties
      BY <2>9, <3>1 DEF EndProperties, MapOf
    <3>3. Methods \in SUBSET Members /\ Properties \in SUBSET Members /\ Methods \cap Properties = {}
      BY MetaAssumption DEF Members
    <3>4. View(q, Properties)' = View(o, Properties) /\ View(q, Methods)' = View(q, Methods)
      BY <2>8, <3>2, <3>3
    <3> QED BY <3>2, <3>4
  <2>10. ASSUME NEW u \in Threads, EndCopy(u) PROVE IF q \in live THEN AllOfMap(o, q) ELSE Made(o, q)
    <3>1. u = t
      BY <2>1, <2>10 DEF EndCopy, Swap
    <3>2. Swap(t) /\ UNCHANGED heap /\ copying[t].map = "methods" /\ MapOf(copying[t]) = Methods
      BY <2>10, <3>1 DEF EndCopy, MapOf
    <3>3. Methods \in SUBSET Members /\ Properties \in SUBSET Members /\ Properties \cap Methods = {}
      BY MetaAssumption DEF Members
    <3>4. View(q, Methods)' = View(o, Methods) /\ View(q, Properties)' = View(q, Properties)
      BY <2>8, <3>2, <3>3
    <3>5. View(q, Properties) = View(o, Properties)
      BY <3>2, ViewsAlike DEF ObjectInv, Faithful
    <3>6. View(q, Members)' = View(o, Members)
      <4>1. ASSUME NEW m \in Members PROVE View(q, Members)'[m] = View(o, Members)[m]
        <5>1. CASE m \in Methods
          <6>1. View(q, Methods)'[m] = View(o, Methods)[m]
            BY <3>4
          <6> QED BY <5>1, <6>1 DEF View
        <5>2. CASE m \in Properties
          <6>1. View(q, Properties)'[m] = View(o, Properties)[m]
            BY <3>4, <3>5
          <6> QED BY <5>2, <6>1 DEF View
        <5> QED BY <5>1, <5>2 DEF Members
      <4> QED BY <4>1 DEF View
    <3> QED BY <3>4, <3>5, <3>6
  <2> HIDE DEF AllOfMap, Made
  <2> QED BY <2>3, <2>4, <2>5, <2>6, <2>7, <2>9, <2>10, <2>2 DEF MetaNext, Copy
<1> QED BY <1>1, ObjectInvariant, PTL DEF MetaSpec, AssignsWhole

-----------------------------------------------------------------------------
(* The line of a class's bases.                                            *)

LEMMA Antisymmetric == ASSUME NEW x \in Types, NEW y \in Above[x], x \in Above[y] PROVE x = y
<1> DEFINE T == {z \in Above[x] : x \in Above[z]}
<1>1. SUFFICES ASSUME x # y PROVE FALSE
  OBVIOUS
<1>2. T \in SUBSET Types /\ T # {}
  BY AboveFacts
<1>3. PICK z \in T : Base(z) \cap T = {}
  BY <1>2, InheritanceAssumption
<1>4. z \in Types /\ z \in Above[x] /\ x \in Above[z]
  BY <1>2, <1>3
<1>5. \A s \in Base(z) : s \in Types /\ s \in Above[x]
  BY <1>4, AboveFacts, BaseFacts
<1>6. CASE z = x
  <2>1. PICK s \in Base(x) : y \in Above[s]
    BY <1>1, AboveUnfolds
  <2>2. x \in Above[s]
    BY <2>1, <1>5, <1>6, AboveFacts
  <2> QED BY <2>1, <2>2, <1>3, <1>5, <1>6
<1>7. CASE z # x
  <2>1. PICK s \in Base(z) : x \in Above[s]
    BY <1>4, <1>7, AboveUnfolds
  <2> QED BY <2>1, <1>3, <1>5
<1> QED BY <1>6, <1>7

\* How many classes are on the line.
Depth(c) == Cardinality(Above[c])

LEMMA DepthFacts == ASSUME NEW c \in Types
    PROVE /\ Depth(c) \in Nat /\ Depth(c) > 0
          /\ \A x \in Above[c] : Depth(x) \in Nat /\ Depth(x) > 0 /\ Depth(x) <= Depth(c) /\ (Depth(x) = Depth(c) => x = c)
          /\ \A s \in Base(c) : Depth(c) = Depth(s) + 1
          /\ Base(c) = {} => Depth(c) = 1
<1>1. ASSUME NEW x \in Types PROVE IsFiniteSet(Above[x]) /\ Depth(x) \in Nat /\ Depth(x) > 0
  <2>1. Above[x] \subseteq Types /\ Above[x] # {}
    BY AboveFacts
  <2>2. IsFiniteSet(Above[x])
    BY <2>1, RegistryAssumption, FS_Subset
  <2>3. Cardinality(Above[x]) \in Nat /\ (Cardinality(Above[x]) = 0 <=> Above[x] = {})
    BY <2>2, FS_CardinalityType, FS_EmptySet
  <2> QED BY <2>1, <2>2, <2>3 DEF Depth
<1>2. ASSUME NEW x \in Above[c] PROVE Depth(x) <= Depth(c) /\ (Depth(x) = Depth(c) => x = c)
  <2>1. x \in Types /\ Above[x] \subseteq Above[c]
    BY AboveFacts
  <2>2. Depth(x) <= Depth(c) /\ (Depth(c) = Depth(x) => Above[c] = Above[x])
    BY <1>1, <2>1, FS_Subset DEF Depth
  <2>3. Above[c] = Above[x] => x = c
    BY <2>1, AboveFacts, Antisymmetric
  <2> QED BY <2>2, <2>3
<1>3. ASSUME NEW s \in Base(c) PROVE Depth(c) = Depth(s) + 1
  <2>1. s \in Types /\ Above[c] = {c} \cup Above[s] /\ s \in Above[s]
    BY BaseFacts, AboveFacts
  <2>2. c \notin Above[s]
    <3>1. c \in Above[s] => c = s
      BY <2>1, Antisymmetric
    <3>2. c \notin Base(c)
      <4>1. {c} \in SUBSET Types /\ {c} # {}
        OBVIOUS
      <4> QED BY <4>1, InheritanceAssumption
    <3> QED BY <3>1, <3>2
  <2>3. Cardinality(Above[s] \cup {c}) = Cardinality(Above[s]) + 1
    <3>1. IsFiniteSet(Above[s])
      BY <1>1, <2>1
    <3> HIDE DEF Depth
    <3> QED BY <2>2, <3>1, FS_AddElement
  <2>4. Above[c] = Above[s] \cup {c}
    BY <2>1
  <2> QED BY <2>3, <2>4 DEF Depth
<1>4. Base(c) = {} => Depth(c) = 1
  <2>1. Base(c) = {} => Above[c] = {c}
    BY AboveUnfolds
  <2> QED BY <2>1, FS_Singleton DEF Depth
<1>5. \A x \in Above[c] : x \in Types
  BY AboveFacts
<1> QED BY <1>1, <1>2, <1>3, <1>4, <1>5

LEMMA OneAtDepth == ASSUME NEW c \in Types, NEW x \in Above[c], NEW y \in Above[c], Depth(x) = Depth(y) PROVE x = y
<1>1. x \in Types /\ y \in Types
  BY AboveFacts
<1> QED BY <1>1, OneLine, DepthFacts

LEMMA EachDepth == ASSUME NEW c \in Types, NEW r \in 1 .. Depth(c) PROVE \E x \in Above[c] : Depth(x) = r
<1> DEFINE T == {d \in Types : \E q \in 1 .. Depth(d) : \A x \in Above[d] : Depth(x) # q}
<1>1. SUFFICES ASSUME T # {} PROVE FALSE
  OBVIOUS
<1>2. PICK d \in T : Base(d) \cap T = {}
  BY <1>1, InheritanceAssumption
<1>3. PICK q \in 1 .. Depth(d) : \A x \in Above[d] : Depth(x) # q
  BY <1>2
<1>4. d \in Above[d] /\ Depth(d) \in Nat
  BY AboveFacts, DepthFacts
<1>5. q # Depth(d) /\ q < Depth(d)
  BY <1>3, <1>4
<1>6. CASE Base(d) = {}
  BY <1>5, <1>6, DepthFacts
<1>7. ASSUME NEW s \in Base(d) PROVE FALSE
  <2>1. s \in Types /\ Depth(s) \in Nat /\ Depth(d) = Depth(s) + 1 /\ Above[s] \subseteq Above[d] /\ s \notin T
    BY <1>2, BaseFacts, DepthFacts, AboveFacts
  <2>2. q \in 1 .. Depth(s)
    BY <2>1, <1>4, <1>5
  <2> QED BY <2>1, <2>2, <1>3
<1> QED BY <1>6, <1>7

\* The class of the line at a depth.
Nth(c, r) == CHOOSE x \in Above[c] : Depth(x) = r

LEMMA NthFacts == ASSUME NEW c \in Types, NEW r \in 1 .. Depth(c)
    PROVE /\ Nth(c, r) \in Above[c] /\ Depth(Nth(c, r)) = r
          /\ \A x \in Above[c] : Depth(x) = r => x = Nth(c, r)
<1>1. Nth(c, r) \in Above[c] /\ Depth(Nth(c, r)) = r
  BY EachDepth DEF Nth
<1> QED BY <1>1, OneAtDepth

Lined(c) == [i \in 1 .. Depth(c) |-> Nth(c, Depth(c) - i + 1)]

LEMMA LinedUnfolds == ASSUME NEW c \in Types
    PROVE /\ Lined(c) \in Seq(Types) /\ Len(Lined(c)) = Depth(c)
          /\ Lined(c) = <<c>> \o (IF Base(c) = {} THEN <<>> ELSE Lined(Super[c]))
<1>1. ASSUME NEW d \in Types PROVE Lined(d) \in Seq(Types) /\ Len(Lined(d)) = Depth(d) /\ Lined(d)[1] = d
  <2>1. Depth(d) \in Nat /\ Depth(d) > 0
    BY DepthFacts
  <2>2. \A i \in 1 .. Depth(d) : Depth(d) - i + 1 \in 1 .. Depth(d)
    BY <2>1
  <2>3. \A i \in 1 .. Depth(d) : Nth(d, Depth(d) - i + 1) \in Types
    BY <2>2, NthFacts, AboveFacts
  <2>4. Lined(d)[1] = Nth(d, Depth(d))
    BY <2>1 DEF Lined
  <2>5. d = Nth(d, Depth(d))
    BY <2>1, NthFacts, AboveFacts
  <2> QED BY <2>1, <2>3, <2>4, <2>5 DEF Lined
<1>2. CASE Base(c) = {}
  <2>1. Len(Lined(c)) = 1
    BY <1>1, <1>2, DepthFacts
  <2>2. \A q \in Seq(Types) : Len(q) = 1 => q = <<q[1]>> \o <<>>
    OBVIOUS
  <2> QED BY <2>1, <2>2, <1>1, <1>2
<1>3. ASSUME NEW s, Base(c) = {s} PROVE Lined(c) = <<c>> \o Lined(s)
  <2>1. s \in Types /\ Depth(c) = Depth(s) + 1 /\ Depth(s) \in Nat /\ Above[s] \subseteq Above[c]
    BY <1>3, BaseFacts, DepthFacts, AboveFacts
  <2>2. ASSUME NEW i \in 1 .. Depth(s) PROVE Lined(c)[i + 1] = Lined(s)[i]
    <3>1. Depth(s) - i + 1 \in 1 .. Depth(s) /\ Depth(s) - i + 1 \in 1 .. Depth(c) /\ Depth(c) - (i + 1) + 1 = Depth(s) - i + 1
          /\ i + 1 \in 1 .. Depth(c)
      BY <2>1
    <3>2. Lined(c)[i + 1] = Nth(c, Depth(s) - i + 1) /\ Lined(s)[i] = Nth(s, Depth(s) - i + 1)
      BY <3>1 DEF Lined
    <3>3. Nth(s, Depth(s) - i + 1) \in Above[c] /\ Depth(Nth(s, Depth(s) - i + 1)) = Depth(s) - i + 1
      BY <2>1, <3>1, NthFacts
    <3> QED BY <3>1, <3>2, <3>3, NthFacts
  <2>3. Lined(c) \in Seq(Types) /\ Len(Lined(c)) = Depth(s) + 1 /\ Lined(c)[1] = c
        /\ Lined(s) \in Seq(Types) /\ Len(Lined(s)) = Depth(s)
    BY <1>1, <2>1
  <2>4. PICK p, q : p = Lined(c) /\ q = Lined(s)
    OBVIOUS
  <2>5. p \in Seq(Types) /\ q \in Seq(Types) /\ Len(p) = Len(q) + 1 /\ p[1] = c /\ \A i \in 1 .. Len(q) : p[i + 1] = q[i]
    BY <2>2, <2>3, <2>4
  <2>6. \A i \in 1 .. Len(p) : p[i] = (<<c>> \o q)[i]
    <3> SUFFICES ASSUME NEW i \in 1 .. Len(p) PROVE p[i] = (<<c>> \o q)[i]
      OBVIOUS
    <3>1. CASE i = 1
      BY <3>1, <2>5
    <3>2. CASE i # 1
      <4>1. i - 1 \in 1 .. Len(q) /\ (i - 1) + 1 = i
        BY <3>2, <2>5
      <4>2. p[i] = q[i - 1]
        BY <4>1, <2>5
      <4> QED BY <4>1, <4>2, <2>5
    <3> QED BY <3>1, <3>2
  <2>7. <<c>> \o q \in Seq(Types) /\ Len(<<c>> \o q) = Len(p)
    BY <2>5
  <2>8. p = <<c>> \o q
    BY <2>5, <2>6, <2>7
  <2> QED BY <2>4, <2>8
<1>4. CASE Base(c) # {}
  <2>1. PICK s : Base(c) = {s} /\ s = Super[c]
    BY <1>4, BaseFacts
  <2> QED BY <2>1, <1>1, <1>3, <1>4
<1> QED BY <1>1, <1>2, <1>4

LEMMA LineIsLined == ASSUME NEW c \in Types PROVE Line[c] = Lined(c)
<1> DEFINE F == [x \in Types |-> Lined(x)]
<1>1. F = [x \in Types |-> <<x>> \o (IF Base(x) = {} THEN <<>> ELSE F[Super[x]])]
  <2>1. \A x \in Types : Base(x) # {} => Super[x] \in Types
    BY DEF Base
  <2> HIDE DEF Lined
  <2> QED BY <2>1, LinedUnfolds
<1>2. Line = [x \in Types |-> <<x>> \o (IF Base(x) = {} THEN <<>> ELSE Line[Super[x]])]
  BY <1>1 DEF Line
<1>3. \A x \in Types : Line[x] = <<x>> \o (IF Base(x) = {} THEN <<>> ELSE Line[Super[x]])
  BY <1>2
<1> DEFINE T == {x \in Types : Line[x] # Lined(x)}
<1>4. SUFFICES ASSUME T # {} PROVE FALSE
  OBVIOUS
<1>5. PICK x \in T : Base(x) \cap T = {}
  BY <1>4, InheritanceAssumption
<1> HIDE DEF F
<1>6. Base(x) # {} => Line[Super[x]] = Lined(Super[x])
  BY <1>5, BaseFacts
<1>7. Line[x] # Lined(x) /\ x \in Types
  BY <1>5
<1> HIDE DEF T
<1>8. Lined(x) = <<x>> \o (IF Base(x) = {} THEN <<>> ELSE Lined(Super[x]))
  BY <1>7, LinedUnfolds
<1> QED BY <1>3, <1>6, <1>7, <1>8

\* The nearest class that registers a member, along the bases.
Nearest(c, m, x) == x \in Above[c] /\ m \in Declared[x] /\ \A y \in Above[c] : m \in Declared[y] => y \in Above[x]
Declarer(c, m) == IF \E x \in Types : Nearest(c, m, x) THEN CHOOSE x \in Types : Nearest(c, m, x) ELSE NoClass
Entry(c, m) == [own |-> 0, class |-> Declarer(c, m)]

LEMMA DeclarerFacts == ASSUME NEW c \in Types, NEW m
    PROVE /\ \A x : Nearest(c, m, x) => Declarer(c, m) = x
          /\ Declarer(c, m) \in Above[c] \cup {NoClass}
          /\ (\A x \in Above[c] : m \notin Declared[x]) => Declarer(c, m) = NoClass
<1>1. \A x : Nearest(c, m, x) => x \in Types /\ x \in Above[c]
  BY AboveFacts DEF Nearest
<1>2. \A x, y : Nearest(c, m, x) /\ Nearest(c, m, y) => x = y
  BY <1>1, Antisymmetric DEF Nearest
<1>3. \A x : Nearest(c, m, x) => Declarer(c, m) = x
  BY <1>1, <1>2 DEF Declarer
<1>4. (\E x \in Types : Nearest(c, m, x)) \/ Declarer(c, m) = NoClass
  BY DEF Declarer
<1> QED BY <1>1, <1>3, <1>4 DEF Nearest

LEMMA EntryUnfolds == ASSUME NEW c \in Types, NEW m \in Members
    PROVE Entry(c, m) = IF m \in Declared[c] \/ Base(c) = {} THEN ClassMap(c)[m] ELSE Entry(Super[c], m)
<1>1. CASE m \in Declared[c]
  <2>1. Nearest(c, m, c)
    BY <1>1, AboveFacts DEF Nearest
  <2>2. Declarer(c, m) = c
    BY <2>1, DeclarerFacts
  <2> QED BY <1>1, <2>2 DEF Entry, ClassMap
<1>2. CASE m \notin Declared[c] /\ Base(c) = {}
  <2>1. Above[c] = {c}
    BY <1>2, AboveUnfolds
  <2>2. Declarer(c, m) = NoClass
    BY <1>2, <2>1, DeclarerFacts
  <2> QED BY <1>2, <2>2 DEF Entry, ClassMap
<1>3. CASE m \notin Declared[c] /\ Base(c) # {}
  <2>1. PICK s \in Base(c) : s = Super[c]
    BY <1>3, BaseFacts
  <2>2. s \in Types /\ Above[c] = {c} \cup Above[s]
    BY BaseFacts, AboveFacts
  <2>3. \A x : Nearest(c, m, x) <=> Nearest(s, m, x)
    BY <1>3, <2>2 DEF Nearest
  <2>4. Declarer(c, m) = Declarer(s, m)
    <3>1. CASE \E x \in Types : Nearest(c, m, x)
      <4>1. PICK x \in Types : Nearest(c, m, x)
        BY <3>1
      <4>2. Declarer(c, m) = x
        BY <4>1, DeclarerFacts
      <4>3. Declarer(s, m) = x
        BY <4>1, <2>2, <2>3, DeclarerFacts
      <4> QED BY <4>2, <4>3
    <3>2. CASE ~\E x \in Types : Nearest(c, m, x)
      BY <3>2, <2>3 DEF Declarer
    <3> QED BY <3>1, <3>2
  <2> QED BY <1>3, <2>1, <2>4 DEF Entry
<1> QED BY <1>1, <1>2, <1>3

LEMMA FindStaticFinds == ASSUME NEW c \in Types, NEW m \in Members PROVE FindStatic[c][m] = Entry(c, m)
<1> DEFINE F == [x \in Types |-> [n \in Members |-> Entry(x, n)]]
<1>1. F = [x \in Types |-> [n \in Members |-> IF n \in Declared[x] \/ Base(x) = {} THEN ClassMap(x)[n] ELSE F[Super[x]][n]]]
  <2>1. \A x \in Types : Base(x) # {} => Super[x] \in Types
    BY DEF Base
  <2> HIDE DEF Entry
  <2>2. \A x \in Types, n \in Members : F[x][n] = IF n \in Declared[x] \/ Base(x) = {} THEN ClassMap(x)[n] ELSE F[Super[x]][n]
    BY <2>1, EntryUnfolds
  <2> QED BY <2>2
<1>2. FindStatic = [x \in Types |-> [n \in Members |->
                      IF n \in Declared[x] \/ Base(x) = {} THEN ClassMap(x)[n] ELSE FindStatic[Super[x]][n]]]
  BY <1>1 DEF FindStatic
<1>3. \A x \in Types, n \in Members :
        FindStatic[x][n] = IF n \in Declared[x] \/ Base(x) = {} THEN ClassMap(x)[n] ELSE FindStatic[Super[x]][n]
  BY <1>2
<1> DEFINE T == {x \in Types : FindStatic[x][m] # Entry(x, m)}
<1>4. SUFFICES ASSUME T # {} PROVE FALSE
  OBVIOUS
<1>5. PICK x \in T : Base(x) \cap T = {}
  BY <1>4, InheritanceAssumption
<1> HIDE DEF F
<1>6. Base(x) # {} => FindStatic[Super[x]][m] = Entry(Super[x], m)
  BY <1>5, BaseFacts
<1>7. FindStatic[x][m] # Entry(x, m) /\ x \in Types
  BY <1>5
<1> HIDE DEF T
<1>8. Entry(x, m) = IF m \in Declared[x] \/ Base(x) = {} THEN ClassMap(x)[m] ELSE Entry(Super[x], m)
  BY <1>7, EntryUnfolds
<1> QED BY <1>3, <1>6, <1>7, <1>8

-----------------------------------------------------------------------------
(* Listing.                                                                *)

LEMMA LineFacts == ASSUME NEW c \in Types
    PROVE /\ Line[c] \in Seq(Types) /\ Len(Line[c]) \in Nat
          /\ \A i \in 1 .. Len(Line[c]) : Line[c][i] \in Above[c]
          /\ \A x \in Above[c] : \E i \in 1 .. Len(Line[c]) : Line[c][i] = x
          /\ \A i, j \in 1 .. Len(Line[c]) : i <= j => Line[c][j] \in Above[Line[c][i]]
<1> DEFINE d == Depth(c)
<1>1. Line[c] \in Seq(Types) /\ Len(Line[c]) = d /\ d \in Nat /\ Line[c] = Lined(c)
  BY LineIsLined, LinedUnfolds, DepthFacts
<1> HIDE DEF d
<1>2. \A i \in 1 .. d : d - i + 1 \in 1 .. d /\ Line[c][i] = Nth(c, d - i + 1)
  BY <1>1 DEF Lined, d
<1>3. \A i \in 1 .. d : Line[c][i] \in Above[c] /\ Depth(Line[c][i]) = d - i + 1
  BY <1>2, NthFacts DEF d
<1>4. ASSUME NEW x \in Above[c] PROVE \E i \in 1 .. d : Line[c][i] = x
  <2>1. Depth(x) \in 1 .. d
    BY <1>1, DepthFacts DEF d
  <2>2. d - Depth(x) + 1 \in 1 .. d /\ d - (d - Depth(x) + 1) + 1 = Depth(x)
    BY <1>1, <2>1
  <2>3. Line[c][d - Depth(x) + 1] = Nth(c, Depth(x))
    BY <1>2, <2>2
  <2>4. x = Nth(c, Depth(x))
    BY <2>1, NthFacts DEF d
  <2> QED BY <2>2, <2>3, <2>4
<1>5. ASSUME NEW i \in 1 .. d, NEW j \in 1 .. d, i <= j PROVE Line[c][j] \in Above[Line[c][i]]
  <2> DEFINE x == Line[c][i]
             y == Line[c][j]
  <2>1. x \in Above[c] /\ y \in Above[c] /\ Depth(y) <= Depth(x) /\ Depth(x) \in Nat /\ Depth(y) \in Nat
    BY <1>1, <1>3, <1>5
  <2>2. x \in Types /\ y \in Types
    BY <2>1, AboveFacts
  <2> HIDE DEF x, y
  <2>3. CASE x \in Above[y]
    <3>1. Depth(x) <= Depth(y) /\ (Depth(x) = Depth(y) => x = y)
      BY <2>2, <2>3, DepthFacts
    <3>2. x = y
      BY <2>1, <3>1
    <3> QED BY <2>2, <3>2, AboveFacts DEF x, y
  <2> QED BY <2>1, <2>3, OneLine DEF x, y
<1> QED BY <1>1, <1>3, <1>4, <1>5

\* The first of a line's classes that registers a member, and what Collect has of it after
\* i classes.
First(s, m, j) == m \in Declared[s[j]] /\ \A k \in 1 .. j - 1 : m \notin Declared[s[k]]
FirstUpto(s, m, i) == IF \E j \in 1 .. i : First(s, m, j) THEN s[CHOOSE j \in 1 .. i : First(s, m, j)] ELSE NoClass
Walk(s, o, i) == [m \in Members |->
    IF dynamic[o][m] # 0 THEN DynamicMap(o)[m] ELSE [own |-> 0, class |-> FirstUpto(s, m, i)]]

LEMMA FirstFacts == ASSUME NEW s \in Seq(Types), NEW m, NEW i \in 0 .. Len(s)
    PROVE /\ \A j \in 1 .. i : First(s, m, j) => FirstUpto(s, m, i) = s[j]
          /\ (\A j \in 1 .. i : m \notin Declared[s[j]]) <=> FirstUpto(s, m, i) = NoClass
          /\ (\E j \in 1 .. i : First(s, m, j)) \/ \A j \in 1 .. i : m \notin Declared[s[j]]
<1>1. \A j, k \in 1 .. i : First(s, m, j) /\ First(s, m, k) => j = k
  <2> SUFFICES ASSUME NEW j \in 1 .. i, NEW k \in 1 .. i, First(s, m, j), First(s, m, k), j # k PROVE FALSE
    OBVIOUS
  <2>1. CASE j < k
    <3>1. j \in 1 .. k - 1
      BY <2>1
    <3> QED BY <3>1 DEF First
  <2>2. CASE k < j
    <3>1. k \in 1 .. j - 1
      BY <2>2
    <3> QED BY <3>1 DEF First
  <2> QED BY <2>1, <2>2
<1>2. \A j \in 1 .. i : First(s, m, j) => FirstUpto(s, m, i) = s[j]
  BY <1>1 DEF FirstUpto
<1>3. (\E j \in 1 .. i : First(s, m, j)) \/ \A j \in 1 .. i : m \notin Declared[s[j]]
  <2> DEFINE T == {j \in 1 .. i : m \in Declared[s[j]]}
  <2>1. SUFFICES ASSUME T # {} PROVE \E j \in 1 .. i : First(s, m, j)
    OBVIOUS
  <2>2. T \in SUBSET Nat
    OBVIOUS
  <2>3. PICK j \in T : \A k \in T : j <= k
    BY <2>1, <2>2, LeastNatural
  <2>4. \A k \in 1 .. j - 1 : k \in 1 .. i /\ ~(j <= k)
    BY <2>3
  <2> QED BY <2>3, <2>4 DEF First
<1>4. \A j \in 1 .. i : s[j] \in Types /\ s[j] # NoClass
  BY MetaAssumption
<1>5. (\A j \in 1 .. i : m \notin Declared[s[j]]) => FirstUpto(s, m, i) = NoClass
  BY DEF FirstUpto, First
<1> QED BY <1>2, <1>3, <1>4, <1>5

LEMMA WalkUnfolds == ASSUME NEW s \in Seq(Types), NEW o, NEW i \in 0 .. Len(s)
    PROVE Walk(s, o, i) = IF i = 0 THEN DynamicMap(o) ELSE Emplaced(Walk(s, o, i - 1), ClassMap(s[i]))
<1>1. CASE i = 0
  <2>1. \A m : FirstUpto(s, m, 0) = NoClass
    BY DEF FirstUpto
  <2> QED BY <1>1, <2>1 DEF Walk, DynamicMap
<1>2. CASE i # 0
  <2>1. i - 1 \in 0 .. Len(s) /\ i \in 1 .. Len(s) /\ i \in 1 .. i /\ 1 .. i - 1 \subseteq 1 .. i
        /\ \A j \in 1 .. i : j = i \/ j \in 1 .. i - 1
    BY <1>2
  <2>2. ASSUME NEW m \in Members PROVE Walk(s, o, i)[m] = Emplaced(Walk(s, o, i - 1), ClassMap(s[i]))[m]
    <3>w. PICK w : w = Walk(s, o, i - 1)
      OBVIOUS
    <3> SUFFICES Walk(s, o, i)[m] = Emplaced(w, ClassMap(s[i]))[m]
      BY <3>w
    <3>1. Emplaced(w, ClassMap(s[i]))[m] = IF w[m] # Absent THEN w[m] ELSE ClassMap(s[i])[m]
      BY DEF Emplaced
    <3>2. CASE dynamic[o][m] # 0
      <4>1. w[m] = DynamicMap(o)[m] /\ Walk(s, o, i)[m] = DynamicMap(o)[m]
        BY <3>w, <3>2 DEF Walk
      <4>2. DynamicMap(o)[m] # Absent
        BY <3>2 DEF DynamicMap, Absent
      <4> QED BY <3>1, <4>1, <4>2
    <3>3. CASE dynamic[o][m] = 0
      <4>1. w[m] = [own |-> 0, class |-> FirstUpto(s, m, i - 1)] /\ Walk(s, o, i)[m] = [own |-> 0, class |-> FirstUpto(s, m, i)]
        BY <3>w, <3>3 DEF Walk
      <4>2. w[m] = Absent <=> FirstUpto(s, m, i - 1) = NoClass
        BY <4>1 DEF Absent
      <4>3. CASE \E j \in 1 .. i - 1 : First(s, m, j)
        <5>1. PICK j \in 1 .. i - 1 : First(s, m, j)
          BY <4>3
        <5>2. FirstUpto(s, m, i - 1) = s[j] /\ FirstUpto(s, m, i) = s[j]
          BY <2>1, <5>1, FirstFacts
        <5>3. FirstUpto(s, m, i - 1) # NoClass
          BY <2>1, <5>1, FirstFacts DEF First
        <5> QED BY <3>1, <4>1, <4>2, <5>2, <5>3
      <4>4. CASE \A j \in 1 .. i - 1 : m \notin Declared[s[j]]
        <5>1. w[m] = Absent
          BY <2>1, <4>2, <4>4, FirstFacts
        <5>2. FirstUpto(s, m, i) = IF m \in Declared[s[i]] THEN s[i] ELSE NoClass
          <6>1. m \in Declared[s[i]] => First(s, m, i)
            BY <4>4 DEF First
          <6>2. m \notin Declared[s[i]] => \A j \in 1 .. i : m \notin Declared[s[j]]
            BY <2>1, <4>4
          <6> QED BY <2>1, <6>1, <6>2, FirstFacts
        <5>3. ClassMap(s[i])[m] = [own |-> 0, class |-> FirstUpto(s, m, i)]
          BY <5>2 DEF ClassMap
        <5> QED BY <3>1, <4>1, <5>1, <5>3
      <4> QED BY <2>1, <4>3, <4>4, FirstFacts
    <3> QED BY <3>2, <3>3
  <2> QED BY <1>2, <2>2 DEF Walk, Emplaced
<1> QED BY <1>1, <1>2

LEMMA CollectWalks == ASSUME NEW c \in Types, NEW o PROVE Collect(c, o) = Walk(Line[c], o, Len(Line[c]))
<1> DEFINE n == Len(Line[c])
           upto[i \in 0 .. Len(Line[c])] == IF i = 0 THEN DynamicMap(o) ELSE Emplaced(upto[i - 1], ClassMap(Line[c][i]))
           F == [i \in 0 .. Len(Line[c]) |-> Walk(Line[c], o, i)]
<1>1. Line[c] \in Seq(Types) /\ n \in Nat
  BY LineFacts
<1>2. F = [i \in 0 .. Len(Line[c]) |-> IF i = 0 THEN DynamicMap(o) ELSE Emplaced(F[i - 1], ClassMap(Line[c][i]))]
  <2>1. \A i \in 0 .. Len(Line[c]) : i # 0 => i - 1 \in 0 .. Len(Line[c])
    BY <1>1
  <2>2. \A i \in 0 .. Len(Line[c]) : Walk(Line[c], o, i) = IF i = 0 THEN DynamicMap(o) ELSE Emplaced(Walk(Line[c], o, i - 1), ClassMap(Line[c][i]))
    BY <1>1, WalkUnfolds
  <2> QED BY <2>1, <2>2
<1>3. upto = [i \in 0 .. Len(Line[c]) |-> IF i = 0 THEN DynamicMap(o) ELSE Emplaced(upto[i - 1], ClassMap(Line[c][i]))]
  BY <1>2
<1>4. Collect(c, o) = upto[n]
  BY DEF Collect
<1> HIDE DEF F, upto
<1>5. \A i \in 0 .. n : upto[i] = IF i = 0 THEN DynamicMap(o) ELSE Emplaced(upto[i - 1], ClassMap(Line[c][i]))
  BY <1>3
<1> DEFINE T == {i \in 0 .. n : upto[i] # Walk(Line[c], o, i)}
<1>6. T = {}
  <2>1. SUFFICES ASSUME T # {} PROVE FALSE
    OBVIOUS
  <2>2. T \in SUBSET Nat
    BY <1>1
  <2>3. PICK m \in T : \A i \in T : m <= i
    BY <2>1, <2>2, LeastNatural
  <2>4. m \in 0 .. n /\ upto[m] # Walk(Line[c], o, m)
    BY <2>3
  <2>5. m # 0 => m - 1 \in 0 .. n /\ m - 1 \notin T
    BY <1>1, <2>3, <2>4
  <2>6. m # 0 => upto[m - 1] = Walk(Line[c], o, m - 1)
    BY <2>5
  <2> HIDE DEF T
  <2> QED BY <1>1, <1>5, <2>4, <2>6, WalkUnfolds
<1>7. n \in 0 .. n
  BY <1>1
<1> QED BY <1>4, <1>6, <1>7

LEMMA ListsWhatItFinds == ASSUME NEW c \in Types, NEW o, NEW m \in Members PROVE Find(c, o, m) = Collect(c, o)[m]
<1> DEFINE s == Line[c]
           n == Len(Line[c])
<1>1. Collect(c, o)[m] = IF dynamic[o][m] # 0 THEN DynamicMap(o)[m] ELSE [own |-> 0, class |-> FirstUpto(s, m, n)]
  BY CollectWalks DEF Walk
<1>2. Find(c, o, m) = IF dynamic[o][m] # 0 THEN DynamicMap(o)[m] ELSE [own |-> 0, class |-> Declarer(c, m)]
  BY FindStaticFinds DEF Find, Entry
<1>3. Declarer(c, m) = FirstUpto(s, m, n)
  <2>1. s \in Seq(Types) /\ n \in 0 .. Len(s) /\ n = Len(s)
    BY LineFacts
  <2>2. CASE \A j \in 1 .. n : m \notin Declared[s[j]]
    <3>1. FirstUpto(s, m, n) = NoClass
      BY <2>1, <2>2, FirstFacts
    <3>2. \A x \in Above[c] : m \notin Declared[x]
      BY <2>1, <2>2, LineFacts
    <3> QED BY <3>1, <3>2, DeclarerFacts
  <2>3. CASE \E j \in 1 .. n : First(s, m, j)
    <3>1. PICK j \in 1 .. n : First(s, m, j)
      BY <2>3
    <3>2. FirstUpto(s, m, n) = s[j]
      BY <2>1, <3>1, FirstFacts
    <3>3. Nearest(c, m, s[j])
      <4>1. s[j] \in Above[c] /\ m \in Declared[s[j]]
        BY <3>1, LineFacts DEF First
      <4>2. ASSUME NEW y \in Above[c], m \in Declared[y] PROVE y \in Above[s[j]]
        <5>1. PICK k \in 1 .. n : s[k] = y
          BY LineFacts
        <5>2. k \notin 1 .. j - 1
          BY <3>1, <4>2, <5>1 DEF First
        <5>3. j <= k
          BY <2>1, <5>2
        <5> QED BY <5>1, <5>3, LineFacts
      <4> QED BY <4>1, <4>2 DEF Nearest
    <3> QED BY <3>2, <3>3, DeclarerFacts
  <2> QED BY <2>1, <2>2, <2>3, FirstFacts
<1> QED BY <1>1, <1>2, <1>3

LEMMA HandleTypes == ASSUME NEW o \in Objects
    PROVE /\ ClassOf[o] \in Types /\ Handles(o) \subseteq Types
          /\ \A x \in Handles(o) : Base(x) \subseteq Handles(o) /\ Above[x] \subseteq Handles(o) /\ x \in Above[x]
<1>1. ClassOf[o] \in Types
  BY MetaAssumption
<1> QED BY <1>1, AboveFacts DEF Handles

\* vmeta.h: properties() and methods() list what find_property and find_method find, for any
\* line of classes, whatever its classes register and the object has of its own.
THEOREM FindsWhatItListsAlways == MetaSpec => []FindsWhatItLists
<1>1. ObjectInv => FindsWhatItLists
  <2> SUFFICES ASSUME ObjectInv, NEW o \in live, NEW c \in Handles(o), NEW m \in Members
               PROVE Find(c, o, m) = Collect(c, o)[m]
    BY DEF FindsWhatItLists
  <2>1. o \in Objects
    BY DEF ObjectInv, ObjectType
  <2> QED BY <2>1, HandleTypes, ListsWhatItFinds
<1> QED BY <1>1, ObjectInvariant, PTL

-----------------------------------------------------------------------------
(* Calls through a handle that has to be converted.                        *)

\* A search between classes of an object: what it reaches is of the object's line, or
\* derived from a class of the line that it came by.
OnWay(c, o) == \A i \in 1 .. Len(c.queue) :
    /\ c.queue[i].type \in c.visited /\ Above[c.queue[i].type] \cap Handles(o) # {}
    /\ c.queue[i].type \in Handles(o) \/ Base(c.queue[i].type) \subseteq c.visited
    /\ c.queue[i].type \in Handles(o) =>
         \A j \in 1 .. Len(c.queue[i].functions) : c.queue[i].functions[j][1][1] \in Handles(o)

\* All conversions of a class and of its bases are there.
ReadyIn(reg, x) == \A y \in Above[x] : \A k \in OwnEdges(y) : reg[k] # 0

Asks(a, c) ==
    /\ a.object \in Objects /\ c.at \in {"searching", "found", "none"}
    /\ c.source \in Handles(a.object) /\ c.target \in Handles(a.object)
    /\ a.ready => ReadyIn(c.seen, c.source) /\ ReadyIn(c.seen, c.target)
    /\ c.at = "searching" => OnWay(c, a.object)
    /\ c.at = "found" => Fits(c, a.object)

AsksInv == \A t \in Threads : asks[t] # NoAsk => Asks(asks[t], call[t])

LEMMA OneWay == ASSUME OnLine, NEW o \in Objects, NEW k \in Edges, NEW V, k[2] \in V, k[1] \notin V,
                       Above[k[2]] \cap Handles(o) # {}, k[2] \in Handles(o) \/ Base(k[2]) \subseteq V
    PROVE /\ k[1] \in Handles(o) => k[2] \in Handles(o)
          /\ Above[k[1]] \cap Handles(o) # {}
          /\ k[1] \in Handles(o) \/ Base(k[1]) \subseteq V
<1>1. k[1] \in Types /\ k[2] \in Types
  BY EdgeFacts
<1>2. \A x \in Handles(o) : Base(x) \subseteq Handles(o) /\ x \in Above[x]
  BY HandleTypes
<1>3. CASE k[1] \in Base(k[2])
  <2>1. k[2] \in Handles(o)
    BY <1>3
  <2> QED BY <2>1, <1>2, <1>3
<1>4. CASE k[2] \in Base(k[1])
  <2>1. Above[k[2]] \subseteq Above[k[1]] /\ Base(k[1]) = {k[2]}
    BY <1>1, <1>4, AboveFacts, BaseFacts
  <2> QED BY <2>1, <1>2, <1>4
<1>5. CASE k \notin UNION {OwnEdges(c) : c \in Types}
  <2>1. {k[1], k[2]} \subseteq Handles(o)
    BY <1>5 DEF OnLine
  <2> QED BY <2>1, <1>2
<1>6. ASSUME NEW c \in Types, k \in OwnEdges(c) PROVE k[1] \in Base(k[2]) \/ k[2] \in Base(k[1])
  BY <1>6 DEF OwnEdges
<1> QED BY <1>3, <1>4, <1>5, <1>6

LEMMA AskVisits == ASSUME OnLine, NEW reg \in [Edges -> Nat], NEW c, Searching(reg, c), Len(c.queue) > 0,
                          NEW k \in Edges, reg[k] # 0, k[2] = c.queue[1].type, k[1] \notin c.visited,
                          NEW fs, fs = Append(c.queue[1].functions, <<k, reg[k]>>), NEW a, Asks(a, c)
    PROVE /\ k[1] = c.target => Asks(a, Result(c, fs))
          /\ k[1] # c.target => Asks(a, [c EXCEPT !.visited = @ \cup {k[1]},
                                                 !.queue = Append(@, [type |-> k[1], functions |-> fs])])
<1> DEFINE o == a.object
           H == Handles(o)
           old == c.queue[1].functions
           item == [type |-> k[1], functions |-> fs]
           q == Append(c.queue, item)
           V == c.visited \cup {k[1]}
<1>1. c.queue \in Seq(Items) /\ 1 \in 1 .. Len(c.queue) /\ c.queue[1] \in Items /\ Len(c.queue) \in Nat
      /\ InShape(c) /\ c.at = "searching"
  BY DEF Searching, Queued, InShape
<1>2. old \in Seq(Edges \X Nat)
  BY <1>1 DEF Items
<1>3. o \in Objects /\ OnWay(c, o)
  BY <1>1 DEF Asks
<1>4. /\ Len(fs) = Len(old) + 1 /\ Len(old) \in Nat /\ DOMAIN fs = 1 .. Len(fs)
      /\ fs[Len(fs)] = <<k, reg[k]>> /\ \A j \in 1 .. Len(old) : fs[j] = old[j]
  BY <1>2, SMTT(60)
<1>5. k[2] \in c.visited /\ Above[k[2]] \cap H # {} /\ (k[2] \in H \/ Base(k[2]) \subseteq c.visited)
      /\ (k[2] \in H => \A j \in 1 .. Len(old) : old[j][1][1] \in H)
  BY <1>1, <1>3 DEF OnWay
<1> HIDE DEF o, old, H
<1>6. /\ k[1] \in H => k[2] \in H
      /\ Above[k[1]] \cap H # {} /\ (k[1] \in H \/ Base(k[1]) \subseteq c.visited)
  BY <1>3, <1>5, OneWay DEF H
<1>7. k[1] \in H => \A j \in 1 .. Len(fs) : fs[j][1][1] \in H
  <2> SUFFICES ASSUME k[1] \in H, NEW j \in 1 .. Len(fs) PROVE fs[j][1][1] \in H
    OBVIOUS
  <2>1. CASE j = Len(fs)
    <3>1. fs[j] = <<k, reg[k]>>
      BY <2>1, <1>4
    <3>2. fs[j][1] = k
      BY <3>1
    <3> QED BY <3>2
  <2>2. CASE j # Len(fs)
    <3>1. j \in 1 .. Len(old)
      BY <2>2, <1>4
    <3> QED BY <3>1, <1>4, <1>5, <1>6
  <2> QED BY <2>1, <2>2
<1>8. ASSUME k[1] = c.target PROVE Asks(a, Result(c, fs))
  <2>1. k[1] \in H
    BY <1>8 DEF Asks, H, o
  <2>2. Fits(Result(c, fs), o)
    <3>1. Result(c, fs).functions = fs
      BY DEF Result
    <3>2. \A i \in DOMAIN fs : fs[i][1][1] \in H
      BY <2>1, <1>4, <1>7
    <3> QED BY <3>1, <3>2 DEF Fits, H
  <2> QED BY <2>2 DEF Asks, Result, o
<1>9. ASSUME k[1] # c.target
      PROVE Asks(a, [c EXCEPT !.visited = @ \cup {k[1]}, !.queue = Append(@, [type |-> k[1], functions |-> fs])])
  <2>1. PICK n, v, w : n = [c EXCEPT !.visited = v, !.queue = w] /\ v = V /\ w = q
    OBVIOUS
  <2>2. item.type = k[1] /\ item.functions = fs
    OBVIOUS
  <2>3. Len(w) = Len(c.queue) + 1 /\ w[Len(w)] = item /\ \A i \in 1 .. Len(c.queue) : w[i] = c.queue[i]
    BY <1>1, <2>1
  <2>4. c.visited \subseteq v /\ k[1] \in v
    BY <2>1
  <2> HIDE DEF V, q, item
  <2>5. InShape(n) /\ n.visited = v /\ n.queue = w /\ n.target = c.target /\ n.source = c.source /\ n.seen = c.seen
    <3>1. PICK m : m = [c EXCEPT !.visited = v]
      OBVIOUS
    <3>2. n = [m EXCEPT !.queue = w] /\ InShape(c)
      BY <1>1, <2>1, <3>1 DEF InShape
    <3> QED BY <3>1, <3>2 DEF InShape
  <2>6. ASSUME NEW i \in 1 .. Len(w)
        PROVE /\ w[i].type \in v /\ Above[w[i].type] \cap H # {}
              /\ w[i].type \in H \/ Base(w[i].type) \subseteq v
              /\ w[i].type \in H => \A j \in 1 .. Len(w[i].functions) : w[i].functions[j][1][1] \in H
    <3>1. CASE i = Len(w)
      BY <3>1, <1>6, <1>7, <2>2, <2>3, <2>4
    <3>2. CASE i # Len(w)
      <4>1. i \in 1 .. Len(c.queue) /\ w[i] = c.queue[i]
        BY <3>2, <1>1, <2>3
      <4> QED BY <4>1, <1>3, <2>4 DEF OnWay, H
    <3> QED BY <3>1, <3>2
  <2>7. OnWay(n, o)
    BY <2>5, <2>6 DEF OnWay, H
  <2>8. Asks(a, n)
    BY <2>5, <2>7 DEF Asks, InShape, o
  <2> QED BY <2>1, <2>8 DEF V, q, item
<1> QED BY <1>8, <1>9

LEMMA AskAdvances == ASSUME NEW reg, NEW c, Searching(reg, c), Len(c.queue) > 0, NEW a, Asks(a, c)
    PROVE Asks(a, [c EXCEPT !.queue = Tail(@)])
<1>1. PICK n, w : n = [c EXCEPT !.queue = w] /\ w = Tail(c.queue)
  OBVIOUS
<1>2. c.queue \in Seq(Items) /\ c.queue # <<>> /\ Len(c.queue) \in Nat
  <2>1. Len(<<>>) = 0
    OBVIOUS
  <2> QED BY <2>1 DEF Searching, Queued
<1>3. Len(w) = Len(c.queue) - 1 /\ \A i \in 1 .. Len(c.queue) - 1 : w[i] = c.queue[i + 1]
  BY <1>1, <1>2, HeadTailProperties
<1>4. InShape(c)
  BY DEF Searching
<1>5. InShape(n) /\ n.queue = w /\ n.visited = c.visited /\ n.target = c.target /\ n.source = c.source /\ n.seen = c.seen
  BY <1>1, <1>4 DEF InShape
<1>6. OnWay(c, a.object)
  BY <1>4 DEF Asks, InShape
<1>7. \A i \in 1 .. Len(w) : \E j \in 1 .. Len(c.queue) : w[i] = c.queue[j]
  <2>1. \A i \in 1 .. Len(w) : i + 1 \in 1 .. Len(c.queue) /\ w[i] = c.queue[i + 1]
    BY <1>2, <1>3
  <2> QED BY <2>1
<1>8. OnWay(n, a.object)
  <2> SUFFICES ASSUME NEW i \in 1 .. Len(w)
               PROVE /\ w[i].type \in c.visited /\ Above[w[i].type] \cap Handles(a.object) # {}
                     /\ w[i].type \in Handles(a.object) \/ Base(w[i].type) \subseteq c.visited
                     /\ w[i].type \in Handles(a.object) =>
                          \A j \in 1 .. Len(w[i].functions) : w[i].functions[j][1][1] \in Handles(a.object)
    BY <1>5 DEF OnWay
  <2>1. PICK j \in 1 .. Len(c.queue) : w[i] = c.queue[j]
    BY <1>7
  <2> QED BY <2>1, <1>6 DEF OnWay
<1> QED BY <1>1, <1>5, <1>8 DEF Asks, InShape

\* Two classes of one line whose conversions are there: one leads to the other.
LEMMA ReadyFinds == ASSUME NEW reg, NEW c \in Types, NEW source \in Above[c], NEW target \in Above[c],
                           ReadyIn(reg, source), ReadyIn(reg, target)
    PROVE \E n \in Nat : target \in Reached(reg, source)[n]
<1> DEFINE V == {x \in Types : \E n \in Nat : x \in Reached(reg, source)[n]}
<1>1. source \in Types /\ target \in Types
  BY AboveFacts
<1>2. source \in V
  BY <1>1, ReachedZero
<1>3. ASSUME NEW k \in Edges, reg[k] # 0, k[2] \in V PROVE k[1] \in V
  <2>1. PICK n \in Nat : k[2] \in Reached(reg, source)[n]
    BY <1>3
  <2>2. n + 1 \in Nat /\ n + 1 # 0 /\ (n + 1) - 1 = n
    OBVIOUS
  <2>3. Reached(reg, source)[n + 1] = Reached(reg, source)[n] \cup Targets(reg, Reached(reg, source)[n])
    <3> DEFINE R == Reached(reg, source)
    <3>1. \A m \in Nat : m # 0 => R[m] = R[m - 1] \cup Targets(reg, R[m - 1])
      BY ReachedUnfolds
    <3> HIDE DEF R
    <3>2. R[n + 1] = R[n] \cup Targets(reg, R[n])
      BY <2>2, <3>1
    <3> QED BY <3>2 DEF R
  <2>4. k[1] \in Reached(reg, source)[n + 1]
    BY <1>3, <2>1, <2>3 DEF Targets
  <2> QED BY <2>2, <2>4, EdgeFacts
<1> HIDE DEF V
<1>4. SUFFICES ASSUME target \notin V PROVE FALSE
  BY DEF V
<1>5. \A x \in Types : \A s \in Base(x) : /\ <<s, x>> \in OwnEdges(x) /\ <<x, s>> \in OwnEdges(x)
                                            /\ <<s, x>> \in Edges /\ <<x, s>> \in Edges
  BY ClassFacts
<1>6. CASE target \in Above[source]
  <2> DEFINE S == V \cap Above[source]
  <2>1. ASSUME NEW x \in S PROVE Base(x) \subseteq S
    <3> SUFFICES ASSUME NEW s \in Base(x) PROVE s \in V /\ s \in Above[source]
      OBVIOUS
    <3>1. x \in Types /\ s \in Above[source]
      BY <1>1, AboveFacts
    <3>2. <<s, x>> \in Edges /\ reg[<<s, x>>] # 0
      BY <3>1, <1>5 DEF ReadyIn
    <3>3. <<s, x>>[1] \in V
      BY <3>2, <1>3
    <3> QED BY <3>1, <3>3
  <2>2. S \in SUBSET Types /\ source \in S
    BY <1>1, <1>2, AboveFacts
  <2> HIDE DEF S
  <2>3. Above[source] \subseteq S
    BY <2>1, <2>2, Climbs
  <2> QED BY <2>3, <1>4, <1>6 DEF S
<1>7. CASE source \in Above[target]
  <2> DEFINE S == Above[target] \ V
  <2>1. ASSUME NEW x \in S PROVE Base(x) \subseteq S
    <3> SUFFICES ASSUME NEW s \in Base(x), s \in V PROVE FALSE
      BY <1>1, AboveFacts
    <3>1. x \in Types
      BY <1>1, AboveFacts
    <3>2. <<x, s>> \in Edges /\ reg[<<x, s>>] # 0
      BY <3>1, <1>5 DEF ReadyIn
    <3>3. <<x, s>>[1] \in V
      BY <3>2, <1>3
    <3> QED BY <3>3
  <2>2. S \in SUBSET Types /\ target \in S
    BY <1>1, <1>4, AboveFacts
  <2> HIDE DEF S
  <2>3. Above[target] \subseteq S
    BY <2>1, <2>2, Climbs
  <2> QED BY <2>3, <1>2, <1>7 DEF S
<1> QED BY <1>6, <1>7, OneLine

\* A thread's call changes, and what it asks.
LEMMA OneAsk == ASSUME RegistryInv, AsksInv, NEW t \in Threads, NEW c, call' = [call EXCEPT ![t] = c],
                       \A u \in Threads : u # t => asks'[u] = asks[u],
                       asks'[t] # NoAsk => Asks(asks'[t], c)
    PROVE AsksInv'
<1>1. call'[t] = c /\ \A u \in Threads : u # t => call'[u] = call[u]
  BY DEF RegistryInv
<1>2. \A u \in Threads : asks[u] # NoAsk => Asks(asks[u], call[u])
  BY DEF AsksInv
<1>3. ASSUME NEW u \in Threads, asks'[u] # NoAsk PROVE Asks(asks'[u], call'[u])
  <2>1. CASE u = t
    BY <2>1, <1>1, <1>3
  <2>2. CASE u # t
    <3>1. call'[u] = call[u] /\ asks'[u] = asks[u] /\ Asks(asks[u], call[u])
      BY <2>2, <1>1, <1>2, <1>3
    <3> QED BY <3>1
  <2> QED BY <2>1, <2>2
<1> QED BY <1>3 DEF AsksInv

LEMMA SearchKeepsAsks == ASSUME OnLine, RegistryInv, AsksInv, NEW t \in Threads, Search(t) PROVE AsksInv'
<1>1. asks' = asks
  BY SearchFrame DEF metaVars
<1>2. converters \in [Edges -> Nat] /\ Sound(converters, call[t])
  BY DEF RegistryInv
<1>3. asks[t] # NoAsk => Asks(asks[t], call[t])
  BY DEF AsksInv
<1>4. ASSUME NEW k \in Edges, Visit(t, k) PROVE AsksInv'
  <2> DEFINE c == call[t]
             fs == Append(Head(c.queue).functions, Converter(k))
             n == [c EXCEPT !.visited = @ \cup {k[1]}, !.queue = Append(@, [type |-> k[1], functions |-> fs])]
  <2>1. Searching(converters, c)
    BY <1>2, <1>4 DEF Visit, At, Sound
  <2>2. c.queue \in Seq(Items) /\ Len(c.queue) > 0 /\ Head(c.queue) = c.queue[1]
    BY <2>1, <1>4 DEF Visit, Searching, Queued
  <2>3. converters[k] # 0 /\ k[2] = c.queue[1].type /\ k[1] \notin c.visited
        /\ fs = Append(c.queue[1].functions, <<k, converters[k]>>)
    BY <2>2, <1>4 DEF Visit, Fresh, Registered, Converter
  <2>4. call' = [call EXCEPT ![t] = IF k[1] = c.target THEN Result(c, fs) ELSE n]
    BY <1>4 DEF Visit, Result
  <2>5. asks[t] # NoAsk => Asks(asks[t], c)
    BY <1>3
  <2> HIDE DEF fs, c
  <2>6. asks[t] # NoAsk =>
          /\ k[1] = c.target => Asks(asks[t], Result(c, fs))
          /\ k[1] # c.target => Asks(asks[t], n)
    BY <1>2, <2>1, <2>2, <2>3, <2>5, AskVisits
  <2> HIDE DEF n
  <2>7. CASE k[1] = c.target
    <3>1. call' = [call EXCEPT ![t] = Result(c, fs)]
      BY <2>4, <2>7
    <3> QED BY <3>1, <2>6, <2>7, <1>1, OneAsk
  <2>8. CASE k[1] # c.target
    <3>1. call' = [call EXCEPT ![t] = n]
      BY <2>4, <2>8
    <3> QED BY <3>1, <2>6, <2>8, <1>1, OneAsk
  <2> QED BY <2>7, <2>8
<1>5. ASSUME NextStep(t) PROVE AsksInv'
  <2> DEFINE c == call[t]
             n == [c EXCEPT !.queue = Tail(@)]
  <2>1. Searching(converters, c)
    BY <1>2, <1>5 DEF NextStep, At, Sound
  <2>2. Len(c.queue) > 0
    BY <2>1, <1>5 DEF NextStep, Searching, Queued
  <2>3. call' = [call EXCEPT ![t] = n] /\ (asks[t] # NoAsk => Asks(asks[t], c))
    BY <1>3, <1>5 DEF NextStep, RegistryInv
  <2> HIDE DEF c
  <2>4. asks[t] # NoAsk => Asks(asks[t], n)
    BY <2>1, <2>2, <2>3, AskAdvances
  <2> HIDE DEF n
  <2> QED BY <2>3, <2>4, <1>1, OneAsk
<1>6. ASSUME NoPath(t) PROVE AsksInv'
  <2>1. PICK d : d = [at |-> "none", target |-> call[t].target, source |-> call[t].source, seen |-> call[t].seen]
    OBVIOUS
  <2>2. call' = [call EXCEPT ![t] = d]
    BY <1>6, <2>1 DEF NoPath, RegistryInv
  <2>3. asks[t] # NoAsk => Asks(asks[t], d)
    BY <1>3, <2>1 DEF Asks
  <2> QED BY <2>2, <2>3, <1>1, OneAsk
<1> QED BY <1>4, <1>5, <1>6 DEF Search

\* A class whose metadata is there: so are the conversions of it and of its bases.
LEMMA BuiltIsReadyIn == ASSUME BuildInv, NEW c \in Built PROVE ReadyIn(converters, c)
<1>1. ChainEdges(c) \subseteq Registered
  BY PublishedReady DEF PublishedConverts, Known
<1> QED BY <1>1 DEF ReadyIn, ChainEdges, Registered

\* What a member has to be called through is a handle of the object.
LEMMA TargetIsHandle == ASSUME ObjectInv, NEW o \in Objects, NEW c \in Handles(o), NEW m \in Members, NEW e,
                               e = Find(c, o, m), e # Absent, m \in Methods \/ e.own = 0
    PROVE Target(e) \in Handles(o)
<1>1. CASE dynamic[o][m] # 0
  <2>1. e.own = dynamic[o][m] /\ m \in Methods
    BY <1>1 DEF Find, DynamicMap
  <2> QED BY <1>1, <2>1 DEF Target, ObjectInv, Fitted
<1>2. CASE dynamic[o][m] = 0
  <2>1. c \in Types /\ Above[c] \subseteq Handles(o)
    BY HandleTypes
  <2>2. e = Entry(c, m)
    BY <1>2, <2>1, FindStaticFinds DEF Find
  <2>3. e.own = 0 /\ e.class = Declarer(c, m) /\ Declarer(c, m) # NoClass
    BY <2>2 DEF Entry, Absent
  <2> QED BY <2>1, <2>3, DeclarerFacts DEF Target
<1> QED BY <1>1, <1>2

LEMMA InvokeAsks == ASSUME RegistryInv, BuildInv, ObjectInv, AsksInv, NEW t \in Threads, NEW o \in Objects,
                           NEW h \in Types, NEW k \in Types, NEW m \in Members, Invoke(t, o, h, k, m)
    PROVE AsksInv'
<1> DEFINE e == Find(k, o, m)
           target == Target(e)
<1>1. e # Absent /\ (m \in Methods \/ e.own = 0) /\ h \in Handles(o) /\ k \in Handles(o)
  BY DEF Invoke
<1>2. target \in Handles(o)
  BY <1>1, TargetIsHandle
<1>3. CASE target = h
  BY <1>3 DEF Invoke, vars, AsksInv
<1>4. CASE target # h
  <2> DEFINE a == [object |-> o, entry |-> e, ready |-> {h, target} \subseteq Built]
  <2>1. Convert(t, target, h) /\ asks' = [asks EXCEPT ![t] = a]
    BY <1>4 DEF Invoke
  <2>2. a.object = o /\ (a.ready => h \in Built /\ target \in Built)
    OBVIOUS
  <2>3. asks'[t] = a /\ \A u \in Threads : u # t => asks'[u] = asks[u]
    BY <2>1 DEF ObjectInv, ObjectType
  <2> HIDE DEF a, target
  <2>4. a.ready => ReadyIn(converters, h) /\ ReadyIn(converters, target)
    BY <2>2, BuiltIsReadyIn
  <2>5. CASE <<target, h>> \in Registered
    <3> DEFINE fs == <<Converter(<<target, h>>)>>
    <3>1. PICK c : c = [at |-> "found", target |-> target, source |-> h, seen |-> converters, functions |-> fs]
      OBVIOUS
    <3>2. call' = [call EXCEPT ![t] = c]
      BY <2>1, <2>5, <3>1 DEF Convert
    <3>3. DOMAIN fs = {1} /\ fs[1][1][1] = target
      BY DEF Converter
    <3> HIDE DEF fs
    <3>4. Fits(c, o)
      BY <1>2, <3>1, <3>3 DEF Fits, target
    <3>5. Asks(a, c)
      BY <1>1, <1>2, <2>2, <2>4, <3>1, <3>4 DEF Asks, target
    <3> QED BY <2>3, <3>2, <3>5, OneAsk
  <2>6. CASE <<target, h>> \notin Registered
    <3> DEFINE q == <<[type |-> h, functions |-> <<>>]>>
    <3>1. PICK c : c = [at |-> "searching", target |-> target, source |-> h, seen |-> converters,
                        queue |-> q, visited |-> {h}]
      OBVIOUS
    <3>2. call' = [call EXCEPT ![t] = c]
      BY <2>1, <2>6, <3>1 DEF Convert
    <3>3. q[1].type = h /\ q[1].functions = <<>> /\ Len(q) = 1 /\ Len(<<>>) = 0
      OBVIOUS
    <3> HIDE DEF q
    <3>4. c.at = "searching" /\ c.target = target /\ c.source = h /\ c.seen = converters /\ c.queue = q /\ c.visited = {h}
      BY <3>1
    <3>5. h \in Above[h]
      BY AboveFacts
    <3>6. OnWay(c, o)
      <4>1. \A i \in 1 .. Len(q) : i = 1
        BY <3>3
      <4>2. \A j \in 1 .. Len(q[1].functions) : FALSE
        BY <3>3
      <4> QED BY <4>1, <4>2, <1>1, <3>3, <3>4, <3>5 DEF OnWay
    <3>7. Asks(a, c)
      BY <1>1, <1>2, <2>2, <2>4, <3>4, <3>6 DEF Asks, target
    <3> QED BY <2>3, <3>2, <3>7, OneAsk
  <2> QED BY <2>5, <2>6
<1> QED BY <1>3, <1>4

LEMMA UseKeepsAsks == ASSUME RegistryInv, BuildInv, ObjectInv, AsksInv, NEW t \in Threads, Use(t) PROVE AsksInv'
<1>1. ASSUME EndInvoke(t) PROVE AsksInv'
  <2>1. call' = [call EXCEPT ![t] = Idle]
    BY <1>1 DEF EndInvoke, Return
  <2>2. asks'[t] = NoAsk /\ \A u \in Threads : u # t => asks'[u] = asks[u]
    BY <1>1 DEF EndInvoke, ObjectInv, ObjectType
  <2> QED BY <2>1, <2>2, OneAsk
<1> QED BY <1>1, InvokeAsks DEF Use

LEMMA NothingKeepsAsks == ASSUME AsksInv, UNCHANGED <<call, asks>> PROVE AsksInv'
BY DEF AsksInv

LEMMA ApplicationKeepsAsks == ASSUME RegistryInv, AsksInv, NEW t \in Threads, Application(t) PROVE AsksInv'
<1>1. asks' = asks
  BY ApplicationFrame DEF metaVars
<1>2. CASE UNCHANGED call
  BY <1>1, <1>2, NothingKeepsAsks
<1>3. ASSUME asks[t] = NoAsk, NEW c, call' = [call EXCEPT ![t] = c] PROVE AsksInv'
  BY <1>1, <1>3, OneAsk
<1>4. CASE \E k \in Edges : Add(t, k)
  BY <1>2, <1>4 DEF Add
<1>5. CASE asks[t] = NoAsk /\ Return(t)
  BY <1>3, <1>5 DEF Return
<1>6. CASE Free(t) /\ \E q \in Queries : Convert(t, q[1], q[2])
  BY <1>3, <1>6 DEF Free, Convert
<1> QED BY <1>4, <1>5, <1>6 DEF Application

LEMMA MetaKeepsAsks == ASSUME OnLine, RegistryInv, BuildInv, ObjectInv, AsksInv, [MetaNext]_all PROVE AsksInv'
<1>1. CASE UNCHANGED all
  BY <1>1, NothingKeepsAsks DEF all, metaVars, vars
<1>2. ASSUME NEW t \in Threads, (\E c \in Types : StaticMeta(t, c)) \/ Build(t) PROVE AsksInv'
  BY <1>2, BuildFrame, NothingKeepsAsks
<1>3. ASSUME NEW t \in Threads, Edit(t) \/ Copy(t) PROVE AsksInv'
  BY <1>3, EditFrame, CopyFrame, NothingKeepsAsks DEF vars
<1> QED BY <1>1, <1>2, <1>3, SearchKeepsAsks, ApplicationKeepsAsks, UseKeepsAsks DEF MetaNext

LEMMA AsksConvert == ASSUME RegistryInv, AsksInv PROVE HandlesConvert
<1> SUFFICES ASSUME NEW t \in Threads, asks[t] # NoAsk
             PROVE /\ call[t].at = "none" => ~asks[t].ready
                   /\ call[t].at = "found" => Fits(call[t], asks[t].object)
  BY DEF HandlesConvert, At
<1>1. Asks(asks[t], call[t])
  BY DEF AsksInv
<1>2. ASSUME call[t].at = "none", asks[t].ready PROVE FALSE
  <2> DEFINE c == call[t]
             o == asks[t].object
  <2>1. o \in Objects /\ c.source \in Above[ClassOf[o]] /\ c.target \in Above[ClassOf[o]]
        /\ ReadyIn(c.seen, c.source) /\ ReadyIn(c.seen, c.target)
    BY <1>1, <1>2 DEF Asks, Handles
  <2>2. ClassOf[o] \in Types
    BY <2>1, HandleTypes
  <2>3. FoundNone(c)
    BY <1>2 DEF RegistryInv, Sound
  <2> HIDE DEF c, o
  <2>4. \E n \in Nat : c.target \in Reached(c.seen, c.source)[n]
    BY <2>1, <2>2, ReadyFinds
  <2> QED BY <2>3, <2>4 DEF FoundNone
<1> QED BY <1>1, <1>2 DEF Asks

\* vmeta.h: a member that was found can be called through each handle of the object once
\* the metadata of both classes is there, and what runs is never given a null handle,
\* whatever is built, registered and edited meanwhile.  OnLine is what the application
\* has to see to: a conversion of its own from a class of the object to one that it
\* cannot be cast to may be the shorter way, and the call is refused.
THEOREM HandlesConvertAlways == ASSUME OnLine PROVE MetaSpec => []HandlesConvert
<1>1. MetaInit => AsksInv
  BY DEF MetaInit, AsksInv
<1>2. RegistryInv /\ BuildInv /\ ObjectInv /\ AsksInv /\ [MetaNext]_all => AsksInv'
  BY MetaKeepsAsks
<1>3. RegistryInv /\ AsksInv => HandlesConvert
  BY AsksConvert
<1> QED BY <1>1, <1>2, <1>3, MetaInvariant, ObjectInvariant, PTL DEF MetaSpec
=============================================================================
