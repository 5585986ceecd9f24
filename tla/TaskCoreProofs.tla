--------------------------- MODULE TaskCoreProofs ---------------------------
(***************************************************************************)
(* The safety of TaskCore for every coroutine, every number of threads and *)
(* every scheduler: one thread at a time runs the coroutine, each operation*)
(* has one ticket, a callable keeps its frame and a completed task is at   *)
(* rest.  The four hold together, with what the calls in progress may rely *)
(* on (Inv).                                                               *)
(***************************************************************************)
EXTENDS TaskCore, FiniteSetTheorems, SequenceTheorems, TLAPS

-----------------------------------------------------------------------------
(* The calls in progress, whichever thread they belong to.                 *)

Errors == {"none", "error", "cancelled", "rejected"}
CallSet == [step : Steps, op : 0 .. Len(Kinds), err : Errors \cup {"value"}]
Stacks == [Threads -> Seq(CallSet)]

\* Where the calls of the set K are in the stacks, and how many there are.
Places(st, K) == UNION {{<<t, d>> : d \in {e \in DOMAIN st[t] : st[t][e] \in K}} : t \in Threads}
Count(st, K) == Cardinality(Places(st, K))
InProgress(st) == UNION {{st[t][d] : d \in DOMAIN st[t]} : t \in Threads}

\* The calls that run the coroutine, the tickets of operation i that are being
\* delivered (0: the first resume), and the callable or predicate of operation i.
Runners == [step : BodySteps, op : 0 .. Len(Kinds), err : Errors \cup {"value"}]
TicketsOf(i) == [step : {"resume"}, op : {i}, err : Errors \cup {"value"}]
CallablesOf(i) == [step : {"work", "probe"}, op : {i}, err : Errors \cup {"value"}]

Some(S) == \E c \in InProgress(stack) : c.step \in S

-----------------------------------------------------------------------------
(* The inductive invariant.                                                *)

Aware == {"complete", "cancel", "called", "arm", "unhook", "probe", "work"}

\* Types, also of the calls.
Typed ==
    /\ Members
    /\ stack \in Stacks
    /\ \A c \in InProgress(stack) :
          /\ c.step \in Aware => c.op \in Ops
          /\ c.step = "complete" => c.err \in Errors
          /\ c.step = "settle" => c.err \in {"value", "error"}

\* The life of the coroutine, as its flags tell it.
Life ==
    /\ ~started => next = 0 /\ frame
    /\ started /\ ~running /\ ~executionFinished => awaiting # 0
    /\ awaiting # 0 => frame /\ started /\ ~executionFinished
    /\ executionFinished => ~running /\ started /\ ~frame /\ settled # "no" /\ awaiting = 0
    /\ completed => executionFinished
    /\ resumePending => awaiting # 0 /\ running
    /\ cancelRequested => settled # "no"
    /\ ~spawned => ~started /\ ~running

\* What a call that runs the coroutine relies on.
Runs(c) ==
    /\ running /\ ~executionFinished
    /\ c.step # "finish" => frame
    /\ c.step = "run" => IF started THEN awaiting # 0 ELSE next = 0
    /\ c.step \in {"wake", "arm", "leave"} => started /\ awaiting # 0
    /\ c.step \in {"body", "settle", "unhook", "destroy", "finish"} => started /\ awaiting = 0
    /\ c.step \in {"run", "wake"} => ~resumePending
    /\ c.step \in {"arm", "unhook"} => c.op = next
    /\ c.step = "unhook" => claimed[next]
    /\ c.step \in {"destroy", "finish"} => settled # "no"
    /\ c.step = "finish" => ~frame

OneRuns ==
    /\ Count(stack, Runners) <= 1
    /\ \A c \in InProgress(stack) :
          /\ c.step \in BodySteps => Runs(c)
          /\ c.step = "completeExecution" => executionFinished

\* The ticket of operation i, wherever it is.
Deferred(i) == i = awaiting /\ (resumePending \/ Some({"run", "wake"}))
TicketCount(i) ==
    Count(stack, TicketsOf(i)) + (IF i \in queued THEN 1 ELSE 0) + (IF Deferred(i) THEN 1 ELSE 0)

TicketsMatch ==
    /\ \A i \in Ops : TicketCount(i) = IF claimed[i] /\ awaiting = i THEN 1 ELSE 0
    /\ Count(stack, TicketsOf(0)) <= 1
    /\ \A c \in InProgress(stack) : c \in TicketsOf(0) => spawned /\ ~started /\ ~running

\* Operations, their registrations and the calls that are about them.
Unused == \A i \in Ops : i > next =>
    ~claimed[i] /\ hook[i] = "off" /\ ~source[i] /\ i \notin queued

Registered == \A i \in Ops :
    /\ hook[i] # "off" => awaiting = i \/ (i = next /\ Some({"unhook"}))
    /\ source[i] => awaiting = i \/ (Outlives(i) /\ claimed[i])
    /\ claimed[i] /\ Kinds[i] = "result" /\ failure[i] = "none" => target[i] # "no"

Completes(c) ==
    /\ claimed[c.op] \/ awaiting = c.op
    /\ source[c.op] => Stopping \/ claimed[c.op]
    /\ c.err = "none" /\ Kinds[c.op] = "result" => target[c.op] # "no"

None(step, i) == \A c \in InProgress(stack) : ~(c.step = step /\ c.op = i)

Executes(c) ==
    /\ awaiting = c.op /\ ~claimed[c.op] /\ executing[c.op] /\ ~source[c.op]
    /\ Kinds[c.op] = c.step
    /\ None("complete", c.op) /\ None("arm", c.op)

Operate ==
    /\ \A i \in Ops : Count(stack, CallablesOf(i)) <= 1
    /\ \A c \in InProgress(stack) :
          /\ c.step = "complete" => Completes(c)
          /\ c.step = "cancel" => claimed[c.op] \/ awaiting = c.op
          /\ c.step = "arm" => ~source[c.op] /\ None("complete", c.op)
          /\ c.step \in {"probe", "work"} => Executes(c)

Inv == Typed /\ Life /\ OneRuns /\ TicketsMatch /\ Unused /\ Registered /\ Operate
-----------------------------------------------------------------------------
(* Stacks: what entering, leaving and replacing a call does to the calls.  *)

Push(st, t, c) == [st EXCEPT ![t] = <<c>> \o @]
Pop(st, t) == [st EXCEPT ![t] = Tail(@)]

\* Finitely many calls are in progress.
LEMMA PlacesFinite ==
    ASSUME NEW st \in Stacks, NEW K
    PROVE  IsFiniteSet(Places(st, K))
PROOF
<1> DEFINE Of(t) == {<<t, d>> : d \in {e \in DOMAIN st[t] : st[t][e] \in K}}
           f == [t \in Threads |-> Of(t)]
           T == {Of(t) : t \in Threads}
<1>1. ASSUME NEW t \in Threads
      PROVE  IsFiniteSet(Of(t))
  <2> DEFINE D == {e \in DOMAIN st[t] : st[t][e] \in K}
             g == [d \in D |-> <<t, d>>]
  <2>1. st[t] \in Seq(CallSet)
    BY DEF Stacks
  <2>2. D \in SUBSET (1 .. Len(st[t])) /\ Len(st[t]) \in Nat
    BY <2>1
  <2>3. IsFiniteSet(D)
    BY <2>2, FS_Interval, FS_Subset
  <2>4. g \in Surjection(D, Of(t))
    BY DEF Surjection
  <2> QED BY <2>3, <2>4, FS_Surjection
<1>2. f \in Surjection(Threads, T)
  BY DEF Surjection
<1>3. IsFiniteSet(T)
  BY <1>2, FS_Surjection, TaskCoreAssumption
<1>4. IsFiniteSet(UNION T)
  BY <1>1, <1>3, FS_UNION
<1>5. UNION T = Places(st, K)
  BY DEF Places
<1> QED BY <1>4, <1>5

\* A call in front of a stack.
LEMMA PushParts ==
    ASSUME NEW st \in Stacks, NEW t \in Threads, NEW c \in CallSet
    PROVE  /\ Push(st, t, c) \in Stacks
           /\ \A u \in Threads : u # t => Push(st, t, c)[u] = st[u]
           /\ Len(Push(st, t, c)[t]) = Len(st[t]) + 1 /\ Len(st[t]) \in Nat
           /\ Push(st, t, c)[t][1] = c
           /\ \A d \in 1 .. Len(st[t]) : Push(st, t, c)[t][d + 1] = st[t][d]
PROOF
<1>1. st[t] \in Seq(CallSet)
  BY DEF Stacks
<1>2. <<c>> \o st[t] \in Seq(CallSet)
  BY <1>1
<1>3. Push(st, t, c)[t] = <<c>> \o st[t]
  BY DEF Push, Stacks
<1> QED BY <1>1, <1>2, <1>3 DEF Push, Stacks

\* It is in progress, and counted once more if it is in the set that is counted.
LEMMA PushCounts ==
    ASSUME NEW st \in Stacks, NEW t \in Threads, NEW c \in CallSet
    PROVE  /\ Push(st, t, c) \in Stacks
           /\ InProgress(Push(st, t, c)) = InProgress(st) \cup {c}
           /\ \A K : Count(Push(st, t, c), K) = Count(st, K) + (IF c \in K THEN 1 ELSE 0)
PROOF
<1> DEFINE new == Push(st, t, c)
<1>1. /\ new \in Stacks
      /\ \A u \in Threads : u # t => new[u] = st[u]
      /\ Len(new[t]) = Len(st[t]) + 1 /\ Len(st[t]) \in Nat
      /\ new[t][1] = c
      /\ \A d \in 1 .. Len(st[t]) : new[t][d + 1] = st[t][d]
  BY PushParts
<1>2. /\ \A u \in Threads : DOMAIN st[u] = 1 .. Len(st[u]) /\ Len(st[u]) \in Nat
      /\ \A u \in Threads : DOMAIN new[u] = 1 .. Len(new[u]) /\ Len(new[u]) \in Nat
  BY <1>1 DEF Stacks
<1> HIDE DEF new
<1>3. InProgress(new) = InProgress(st) \cup {c}
  <2>1. ASSUME NEW x \in InProgress(new)
        PROVE  x \in InProgress(st) \cup {c}
    <3>1a. PICK u \in Threads : \E d \in DOMAIN new[u] : x = new[u][d]
      BY DEF InProgress
    <3>1. PICK d \in DOMAIN new[u] : x = new[u][d]
      BY <3>1a
    <3>2. CASE u # t
      BY <1>1, <3>1, <3>2 DEF InProgress
    <3>3. CASE u = t /\ d = 1
      BY <1>1, <3>1, <3>3
    <3>4. CASE u = t /\ d # 1
      <4>1. d - 1 \in 1 .. Len(st[t]) /\ d = (d - 1) + 1
        BY <1>1, <1>2, <3>1, <3>4
      <4>2. x = st[t][d - 1] /\ d - 1 \in DOMAIN st[t]
        BY <1>1, <1>2, <3>1, <3>4, <4>1
      <4> QED BY <4>2 DEF InProgress
    <3> QED BY <3>2, <3>3, <3>4
  <2>2. c \in InProgress(new)
    <3>1. 1 \in DOMAIN new[t]
      BY <1>1, <1>2
    <3> QED BY <1>1, <3>1 DEF InProgress
  <2>3. ASSUME NEW x \in InProgress(st)
        PROVE  x \in InProgress(new)
    <3>1a. PICK u \in Threads : \E d \in DOMAIN st[u] : x = st[u][d]
      BY DEF InProgress
    <3>1. PICK d \in DOMAIN st[u] : x = st[u][d]
      BY <3>1a
    <3>2. CASE u # t
      BY <1>1, <3>1, <3>2 DEF InProgress
    <3>3. CASE u = t
      <4>1. d + 1 \in DOMAIN new[t] /\ new[t][d + 1] = x
        BY SMTT(30), <1>1, <1>2, <3>1, <3>3
      <4> QED BY <4>1 DEF InProgress
    <3> QED BY <3>2, <3>3
  <2> QED BY <2>1, <2>2, <2>3
<1>4. ASSUME NEW K
      PROVE  Count(new, K) = Count(st, K) + (IF c \in K THEN 1 ELSE 0)
  <2> DEFINE P == Places(st, K)
             Q == Places(new, K) \ {<<t, 1>>}
             f == [p \in P |-> IF p[1] = t THEN <<t, p[2] + 1>> ELSE p]
  <2>1. \A p : p \in P <=> \E u \in Threads : \E d \in 1 .. Len(st[u]) : p = <<u, d>> /\ st[u][d] \in K
    BY <1>2 DEF Places
  <2>2. \A p : p \in Q <=> /\ \E u \in Threads : \E d \in 1 .. Len(new[u]) : p = <<u, d>> /\ new[u][d] \in K
                           /\ p # <<t, 1>>
    BY <1>2 DEF Places
  <2> HIDE DEF P, Q
  <2>3. \A p \in P : f[p] \in Q
    <3> SUFFICES ASSUME NEW p \in P
                 PROVE  f[p] \in Q
      OBVIOUS
    <3>1a. PICK u \in Threads : \E d \in 1 .. Len(st[u]) : p = <<u, d>> /\ st[u][d] \in K
      BY <2>1
    <3>1. PICK d \in 1 .. Len(st[u]) : p = <<u, d>> /\ st[u][d] \in K
      BY <3>1a
    <3>2. CASE u = t
      <4>1. f[p] = <<t, d + 1>> /\ d + 1 \in 1 .. Len(new[t]) /\ d + 1 # 1
        BY <1>1, <1>2, <3>1, <3>2
      <4>2. new[t][d + 1] \in K
        BY <1>1, <3>1, <3>2
      <4> QED BY <2>2, <4>1, <4>2
    <3>3. CASE u # t
      <4>1. f[p] = <<u, d>> /\ new[u] = st[u] /\ <<u, d>> # <<t, 1>>
        BY <1>1, <3>1, <3>3
      <4> QED BY <2>2, <3>1, <4>1
    <3> QED BY <3>2, <3>3
  <2>4. \A q \in Q : \E p \in P : f[p] = q
    <3> SUFFICES ASSUME NEW q \in Q
                 PROVE  \E p \in P : f[p] = q
      OBVIOUS
    <3>1a. PICK u \in Threads : \E d \in 1 .. Len(new[u]) : q = <<u, d>> /\ new[u][d] \in K
      BY <2>2
    <3>1. PICK d \in 1 .. Len(new[u]) : q = <<u, d>> /\ new[u][d] \in K
      BY <3>1a
    <3>2. CASE u = t
      <4>1. d # 1
        BY <2>2, <3>1, <3>2
      <4>2. d - 1 \in 1 .. Len(st[t]) /\ (d - 1) + 1 = d
        BY <1>1, <1>2, <3>1, <3>2, <4>1
      <4>3. st[t][d - 1] = new[t][d]
        BY <1>1, <4>2
      <4>4. <<t, d - 1>> \in P
        BY <2>1, <3>1, <3>2, <4>2, <4>3
      <4> QED BY <3>1, <3>2, <4>2, <4>4
    <3>3. CASE u # t
      BY <1>1, <2>1, <3>1, <3>3
    <3> QED BY <3>2, <3>3
  <2>5. \A p, q \in P : f[p] = f[q] => p = q
    <3> SUFFICES ASSUME NEW p \in P, NEW q \in P, f[p] = f[q]
                 PROVE  p = q
      OBVIOUS
    <3>1a. PICK u \in Threads : \E d \in 1 .. Len(st[u]) : p = <<u, d>>
      BY <2>1
    <3>1. PICK d \in 1 .. Len(st[u]) : p = <<u, d>>
      BY <3>1a
    <3>2a. PICK v \in Threads : \E e \in 1 .. Len(st[v]) : q = <<v, e>>
      BY <2>1
    <3>2. PICK e \in 1 .. Len(st[v]) : q = <<v, e>>
      BY <3>2a
    <3> QED BY <1>2, <3>1, <3>2
  <2>6. f \in Bijection(P, Q)
    BY <2>3, <2>4, <2>5 DEF Bijection, Injection, Surjection, IsInjective
  <2>7. IsFiniteSet(P) /\ IsFiniteSet(Places(new, K))
    BY <1>1, PlacesFinite DEF P
  <2>8. Cardinality(Q) = Cardinality(P) /\ IsFiniteSet(Q)
    BY <2>6, <2>7, FS_Bijection DEF ExistsBijection
  <2>9. <<t, 1>> \in Places(new, K) <=> c \in K
    BY <1>1, <1>2 DEF Places
  <2>10. Cardinality(Q) = IF c \in K THEN Count(new, K) - 1 ELSE Count(new, K)
    BY <2>7, <2>9, FS_RemoveElement DEF Q, Count
  <2>11. Count(new, K) \in Nat
    BY <2>7, FS_CardinalityType DEF Count
  <2> QED BY <2>8, <2>10, <2>11 DEF P, Count
<1> QED BY <1>1, <1>3, <1>4 DEF new

\* What is counted is there.
LEMMA CountedIsThere ==
    ASSUME NEW st \in Stacks, NEW K
    PROVE  /\ Count(st, K) \in Nat
           /\ Count(st, K) = 0 <=> \A c \in InProgress(st) : c \notin K
PROOF
<1>1. IsFiniteSet(Places(st, K))
  BY PlacesFinite
<1>2. Count(st, K) \in Nat /\ (Count(st, K) = 0 <=> Places(st, K) = {})
  BY <1>1, FS_CardinalityType, FS_EmptySet DEF Count
<1>3. \A p : p \in Places(st, K) <=>
          \E t \in Threads : \E d \in DOMAIN st[t] : p = <<t, d>> /\ st[t][d] \in K
  BY DEF Places
<1>4. \A c : c \in InProgress(st) <=> \E t \in Threads : \E d \in DOMAIN st[t] : c = st[t][d]
  BY DEF InProgress
<1>5. ASSUME Places(st, K) = {}
      PROVE  \A c \in InProgress(st) : c \notin K
  <2> SUFFICES ASSUME NEW c \in InProgress(st), c \in K
               PROVE  FALSE
    OBVIOUS
  <2>1. PICK t \in Threads : \E d \in DOMAIN st[t] : c = st[t][d]
    BY <1>4
  <2>2. PICK d \in DOMAIN st[t] : c = st[t][d]
    BY <2>1
  <2>3. <<t, d>> \in Places(st, K)
    BY <1>3, <2>2
  <2> QED BY <1>5, <2>3
<1>6. ASSUME Places(st, K) # {}
      PROVE  \E c \in InProgress(st) : c \in K
  <2>1. PICK p : p \in Places(st, K)
    BY <1>6
  <2>2. PICK t \in Threads : \E d \in DOMAIN st[t] : st[t][d] \in K
    BY <1>3, <2>1
  <2> QED BY <1>4, <2>2
<1> QED BY <1>2, <1>5, <1>6

\* Leaving the innermost call undoes entering it.
LEMMA PopParts ==
    ASSUME NEW st \in Stacks, NEW t \in Threads, st[t] # <<>>
    PROVE  /\ Head(st[t]) \in CallSet
           /\ Pop(st, t) \in Stacks
           /\ Push(Pop(st, t), t, Head(st[t])) = st
PROOF
<1>1. st[t] \in Seq(CallSet)
  BY DEF Stacks
<1>2. Head(st[t]) \in CallSet /\ Tail(st[t]) \in Seq(CallSet) /\ <<Head(st[t])>> \o Tail(st[t]) = st[t]
  BY <1>1
<1>3. Pop(st, t) \in Stacks /\ Pop(st, t)[t] = Tail(st[t])
  BY <1>2 DEF Pop, Stacks
<1>4. \A u \in Threads : Push(Pop(st, t), t, Head(st[t]))[u] = st[u]
  BY <1>2, <1>3 DEF Push, Pop, Stacks
<1>5. Push(Pop(st, t), t, Head(st[t])) \in Stacks
  BY <1>2, <1>3, PushParts
<1>6. Push(Pop(st, t), t, Head(st[t])) = st
  BY <1>4, <1>5 DEF Stacks
<1> QED BY <1>2, <1>3, <1>6

\* Calls in front of a stack, one by one.
LEMMA TwoInFront ==
    ASSUME NEW S, NEW s \in Seq(S), NEW a \in S, NEW b \in S
    PROVE  <<a, b>> \o s = <<a>> \o (<<b>> \o s)
PROOF
<1> DEFINE l == <<a, b>> \o s
           m == <<b>> \o s
           r == <<a>> \o m
<1>0. Len(s) \in Nat
  OBVIOUS
<1>1. /\ l \in Seq(S) /\ Len(l) = Len(s) + 2 /\ l[1] = a /\ l[2] = b
      /\ \A k \in 1 .. Len(s) : l[k + 2] = s[k]
  BY <1>0
<1>2. /\ m \in Seq(S) /\ Len(m) = Len(s) + 1 /\ m[1] = b
      /\ \A k \in 1 .. Len(s) : m[k + 1] = s[k]
  BY <1>0
<1> HIDE DEF l, m
<1>3. /\ r \in Seq(S) /\ Len(r) = Len(m) + 1 /\ r[1] = a
      /\ \A k \in 1 .. Len(m) : r[k + 1] = m[k]
  BY <1>2
<1> HIDE DEF r
<1>4. ASSUME NEW k \in 1 .. Len(l)
      PROVE  l[k] = r[k]
  <2>1. CASE k = 1
    BY <1>1, <1>3, <2>1
  <2>2. CASE k = 2
    <3>1. 1 \in 1 .. Len(m) /\ r[1 + 1] = m[1]
      BY <1>0, <1>2, <1>3
    <3> QED BY <1>1, <1>2, <2>2, <3>1
  <2>3. CASE k > 2
    <3>1. k - 2 \in 1 .. Len(s) /\ k - 1 \in 1 .. Len(m)
      BY <1>0, <1>1, <1>2, <2>3
    <3>2. (k - 2) + 2 = k /\ (k - 2) + 1 = k - 1 /\ (k - 1) + 1 = k
      BY <1>0, <1>1, <2>3
    <3> QED BY <1>1, <1>2, <1>3, <3>1, <3>2
  <2> QED BY <1>0, <1>1, <2>1, <2>2, <2>3
<1>5. Len(l) = Len(r)
  BY <1>0, <1>1, <1>2, <1>3
<1>6. l = r
  BY <1>1, <1>3, <1>4, <1>5, SeqEqual
<1> QED BY <1>6 DEF l, r, m

\* Three calls in front of a stack are two in front of one.
LEMMA ThreeInFront ==
    ASSUME NEW S, NEW s \in Seq(S), NEW a \in S, NEW b \in S, NEW c \in S
    PROVE  <<a, b, c>> \o s = <<a, b>> \o (<<c>> \o s)
PROOF
<1> DEFINE l == <<a, b, c>> \o s
           m == <<c>> \o s
           r == <<a, b>> \o m
<1>0. Len(s) \in Nat
  OBVIOUS
<1>1. /\ l \in Seq(S) /\ Len(l) = Len(s) + 3 /\ l[1] = a /\ l[2] = b /\ l[3] = c
      /\ \A k \in 1 .. Len(s) : l[k + 3] = s[k]
  BY <1>0
<1>2. /\ m \in Seq(S) /\ Len(m) = Len(s) + 1 /\ m[1] = c
      /\ \A k \in 1 .. Len(s) : m[k + 1] = s[k]
  BY <1>0
<1> HIDE DEF l, m
<1>3. /\ r \in Seq(S) /\ Len(r) = Len(m) + 2 /\ r[1] = a /\ r[2] = b
      /\ \A k \in 1 .. Len(m) : r[k + 2] = m[k]
  BY <1>2
<1> HIDE DEF r
<1>4. ASSUME NEW k \in 1 .. Len(l)
      PROVE  l[k] = r[k]
  <2>1. CASE k \in {1, 2}
    BY <1>1, <1>3, <2>1
  <2>2. CASE k = 3
    <3>1. 1 \in 1 .. Len(m) /\ r[1 + 2] = m[1]
      BY <1>0, <1>2, <1>3
    <3> QED BY <1>1, <1>2, <2>2, <3>1
  <2>3. CASE k > 3
    <3>1. k - 3 \in 1 .. Len(s) /\ k - 2 \in 1 .. Len(m)
      BY <1>0, <1>1, <1>2, <2>3
    <3>2. (k - 3) + 3 = k /\ (k - 3) + 1 = k - 2 /\ (k - 2) + 2 = k
      BY <1>0, <1>1, <2>3
    <3> QED BY <1>1, <1>2, <1>3, <3>1, <3>2
  <2> QED BY <1>0, <1>1, <2>1, <2>2, <2>3
<1>5. Len(l) = Len(r)
  BY <1>0, <1>1, <1>2, <1>3
<1>6. l = r
  BY <1>1, <1>3, <1>4, <1>5, SeqEqual
<1> QED BY <1>6 DEF l, r, m

\* The calls around the innermost one of thread t: R.
Around(t, R) ==
    /\ InProgress(stack) = R \cup {Head(stack[t])}
    /\ \A K : Count(stack, K) <= 1 /\ Head(stack[t]) \in K => \A c \in R : c \notin K

Here(c, K) == IF c \in K THEN 1 ELSE 0

\* A call that returns, or is replaced by one, two or three.
LEMMA Returned ==
    ASSUME stack \in Stacks, NEW t \in Threads, stack[t] # <<>>, Return(t)
    PROVE  /\ stack' \in Stacks
           /\ Around(t, InProgress(stack'))
           /\ \A K : Count(stack', K) = Count(stack, K) - Here(Head(stack[t]), K)
PROOF
<1> DEFINE h == Head(stack[t])
<1>1. h \in CallSet /\ Pop(stack, t) \in Stacks /\ Push(Pop(stack, t), t, h) = stack
  BY PopParts
<1>2. Tail(stack[t]) \in Seq(CallSet) /\ <<>> \o Tail(stack[t]) = Tail(stack[t])
  BY DEF Stacks
<1>3. stack' = Pop(stack, t)
  BY <1>2 DEF Return, Become, Pop
<1>4. /\ InProgress(stack) = InProgress(stack') \cup {h}
      /\ \A K : Count(stack, K) = Count(stack', K) + (IF h \in K THEN 1 ELSE 0)
  BY <1>1, <1>3, PushCounts
<1>5. \A K : /\ Count(stack', K) \in Nat
             /\ Count(stack', K) = 0 <=> \A c \in InProgress(stack') : c \notin K
  BY <1>1, <1>3, CountedIsThere
<1> HIDE DEF h
<1>6. Around(t, InProgress(stack'))
  BY <1>4, <1>5 DEF Around, h
<1>7. \A K : Count(stack', K) = Count(stack, K) - Here(h, K)
  BY <1>4, <1>5 DEF Here
<1> QED BY <1>1, <1>3, <1>6, <1>7 DEF h

\* The innermost call of a thread is replaced by another one.
LEMMA BecameOne ==
    ASSUME stack \in Stacks, NEW t \in Threads, stack[t] # <<>>,
           NEW a \in CallSet, Become(t, <<a>>)
    PROVE  /\ stack' \in Stacks
           /\ \E R : Around(t, R) /\ InProgress(stack') = R \cup {a}
           /\ \A K : Count(stack', K) = Count(stack, K) - Here(Head(stack[t]), K) + Here(a, K)
PROOF
<1> DEFINE h == Head(stack[t])
<1>0. PICK rest : rest = Pop(stack, t)
  OBVIOUS
<1>1. h \in CallSet /\ rest \in Stacks /\ Push(rest, t, h) = stack
  BY <1>0, PopParts
<1>2. stack' = Push(rest, t, a)
  BY <1>0 DEF Become, Pop, Push, Stacks
<1>3. /\ InProgress(stack) = InProgress(rest) \cup {h}
      /\ \A K : Count(stack, K) = Count(rest, K) + (IF h \in K THEN 1 ELSE 0)
  BY <1>1, PushCounts
<1>4. /\ stack' \in Stacks
      /\ InProgress(stack') = InProgress(rest) \cup {a}
      /\ \A K : Count(stack', K) = Count(rest, K) + (IF a \in K THEN 1 ELSE 0)
  BY <1>1, <1>2, PushCounts
<1>5. \A K : /\ Count(rest, K) \in Nat
             /\ Count(rest, K) = 0 <=> \A c \in InProgress(rest) : c \notin K
  BY <1>1, CountedIsThere
<1> HIDE DEF h
<1>6. Around(t, InProgress(rest))
  BY <1>3, <1>5 DEF Around, h
<1>7. \A K : Count(stack', K) = Count(stack, K) - Here(h, K) + Here(a, K)
  BY <1>3, <1>4, <1>5 DEF Here
<1> QED BY <1>4, <1>6, <1>7 DEF h

\* It is replaced by two calls, one inside of the other.
LEMMA BecameTwo ==
    ASSUME stack \in Stacks, NEW t \in Threads, stack[t] # <<>>,
           NEW a \in CallSet, NEW b \in CallSet, Become(t, <<a, b>>)
    PROVE  /\ stack' \in Stacks
           /\ \E R : Around(t, R) /\ InProgress(stack') = R \cup {a, b}
           /\ \A K : Count(stack', K) = Count(stack, K) - Here(Head(stack[t]), K) + Here(a, K) + Here(b, K)
PROOF
<1> DEFINE h == Head(stack[t])
<1>0. PICK rest : rest = Pop(stack, t)
  OBVIOUS
<1>0a. PICK mid : mid = Push(rest, t, b)
  OBVIOUS
<1>1. h \in CallSet /\ rest \in Stacks /\ Push(rest, t, h) = stack
  BY <1>0, PopParts
<1>2. stack' = Push(mid, t, a)
  <2>1. stack[t] \in Seq(CallSet) /\ Tail(stack[t]) \in Seq(CallSet)
    BY DEF Stacks
  <2>2. <<a, b>> \o Tail(stack[t]) = <<a>> \o (<<b>> \o Tail(stack[t]))
    BY <2>1, TwoInFront
  <2> QED BY <1>0, <1>0a, <2>2 DEF Become, Pop, Push, Stacks
<1>3. /\ InProgress(stack) = InProgress(rest) \cup {h}
      /\ \A K : Count(stack, K) = Count(rest, K) + (IF h \in K THEN 1 ELSE 0)
  BY <1>1, PushCounts
<1>4. /\ mid \in Stacks
      /\ InProgress(mid) = InProgress(rest) \cup {b}
      /\ \A K : Count(mid, K) = Count(rest, K) + (IF b \in K THEN 1 ELSE 0)
  BY <1>0a, <1>1, PushCounts
<1>5. /\ stack' \in Stacks
      /\ InProgress(stack') = InProgress(mid) \cup {a}
      /\ \A K : Count(stack', K) = Count(mid, K) + (IF a \in K THEN 1 ELSE 0)
  BY <1>2, <1>4, PushCounts
<1>6. \A K : /\ Count(rest, K) \in Nat
             /\ Count(rest, K) = 0 <=> \A c \in InProgress(rest) : c \notin K
  BY <1>1, CountedIsThere
<1> HIDE DEF h
<1>7. Around(t, InProgress(rest))
  BY <1>3, <1>6 DEF Around, h
<1>8. \A K : Count(stack', K) = Count(stack, K) - Here(h, K) + Here(a, K) + Here(b, K)
  BY <1>3, <1>4, <1>5, <1>6 DEF Here
<1> QED BY <1>4, <1>5, <1>7, <1>8 DEF h

\* It is replaced by three.
LEMMA BecameThree ==
    ASSUME stack \in Stacks, NEW t \in Threads, stack[t] # <<>>,
           NEW a \in CallSet, NEW b \in CallSet, NEW c \in CallSet, Become(t, <<a, b, c>>)
    PROVE  /\ stack' \in Stacks
           /\ \E R : Around(t, R) /\ InProgress(stack') = R \cup {a, b, c}
           /\ \A K : Count(stack', K) = Count(stack, K) - Here(Head(stack[t]), K)
                                        + Here(a, K) + Here(b, K) + Here(c, K)
PROOF
<1> DEFINE h == Head(stack[t])
<1>0. PICK rest : rest = Pop(stack, t)
  OBVIOUS
<1>0a. PICK low : low = Push(rest, t, c)
  OBVIOUS
<1>0b. PICK mid : mid = Push(low, t, b)
  OBVIOUS
<1>1. h \in CallSet /\ rest \in Stacks /\ Push(rest, t, h) = stack
  BY <1>0, PopParts
<1>2. stack' = Push(mid, t, a)
  <2>1. stack[t] \in Seq(CallSet) /\ Tail(stack[t]) \in Seq(CallSet)
    BY DEF Stacks
  <2>2. <<a, b, c>> \o Tail(stack[t]) = <<a, b>> \o (<<c>> \o Tail(stack[t]))
    BY SMTT(30), <2>1, ThreeInFront
  <2>3. <<c>> \o Tail(stack[t]) \in Seq(CallSet)
    BY <2>1
  <2>4. <<a, b>> \o (<<c>> \o Tail(stack[t])) = <<a>> \o (<<b>> \o (<<c>> \o Tail(stack[t])))
    <3> DEFINE deeper == <<c>> \o Tail(stack[t])
    <3>1. deeper \in Seq(CallSet) /\ a \in CallSet /\ b \in CallSet
      BY <2>3
    <3> HIDE DEF deeper
    <3>2. <<a, b>> \o deeper = <<a>> \o (<<b>> \o deeper)
      BY <3>1, TwoInFront
    <3> QED BY <3>2 DEF deeper
  <2> QED BY <1>0, <1>0a, <1>0b, <2>2, <2>4 DEF Become, Pop, Push, Stacks
<1>3. /\ InProgress(stack) = InProgress(rest) \cup {h}
      /\ \A K : Count(stack, K) = Count(rest, K) + (IF h \in K THEN 1 ELSE 0)
  BY <1>1, PushCounts
<1>4. /\ low \in Stacks
      /\ InProgress(low) = InProgress(rest) \cup {c}
      /\ \A K : Count(low, K) = Count(rest, K) + (IF c \in K THEN 1 ELSE 0)
  BY <1>0a, <1>1, PushCounts
<1>5. /\ mid \in Stacks
      /\ InProgress(mid) = InProgress(low) \cup {b}
      /\ \A K : Count(mid, K) = Count(low, K) + (IF b \in K THEN 1 ELSE 0)
  BY <1>0b, <1>4, PushCounts
<1>6. /\ stack' \in Stacks
      /\ InProgress(stack') = InProgress(mid) \cup {a}
      /\ \A K : Count(stack', K) = Count(mid, K) + (IF a \in K THEN 1 ELSE 0)
  BY <1>2, <1>5, PushCounts
<1>7. \A K : /\ Count(rest, K) \in Nat
             /\ Count(rest, K) = 0 <=> \A d \in InProgress(rest) : d \notin K
  BY <1>1, CountedIsThere
<1> HIDE DEF h
<1>8. Around(t, InProgress(rest))
  BY <1>3, <1>7 DEF Around, h
<1>9. \A K : Count(stack', K) = Count(stack, K) - Here(h, K) + Here(a, K) + Here(b, K) + Here(c, K)
  BY <1>3, <1>4, <1>5, <1>6, <1>7 DEF Here
<1> QED BY <1>4, <1>5, <1>6, <1>8, <1>9 DEF h

\* A call that is entered.
LEMMA Entered ==
    ASSUME stack \in Stacks, NEW t \in Threads, NEW a \in CallSet, Enter(t, a)
    PROVE  /\ stack' \in Stacks
           /\ InProgress(stack') = InProgress(stack) \cup {a}
           /\ \A K : Count(stack', K) = Count(stack, K) + Here(a, K)
PROOF
<1>1. stack' = Push(stack, t, a)
  BY DEF Enter, Push
<1> QED BY <1>1, PushCounts DEF Here

-----------------------------------------------------------------------------
(* The parts of the invariant that the steps share.                        *)

\* Which calls are counted.
LEMMA WhatIsCounted ==
    \A c \in CallSet : /\ c \in Runners <=> c.step \in BodySteps
                       /\ \A i : c \in TicketsOf(i) <=> c.step = "resume" /\ c.op = i
                       /\ \A i : c \in CallablesOf(i) <=> c.step \in {"work", "probe"} /\ c.op = i
PROOF BY DEF CallSet, Runners, TicketsOf, CallablesOf

\* Calls are made of these.
LEMMA CallsMade ==
    /\ \A s \in Steps, i \in Ops \cup {0}, e \in Errors \cup {"value"} :
          /\ Call(s, i, e) \in CallSet
          /\ Call(s, i, e).step = s /\ Call(s, i, e).op = i /\ Call(s, i, e).err = e
    /\ \A s \in Steps :
          /\ At(s) \in CallSet
          /\ At(s).step = s /\ At(s).op = 0 /\ At(s).err = "none"
PROOF
<1>1. 0 \in 0 .. Len(Kinds) /\ Ops \subseteq 0 .. Len(Kinds) /\ "none" \in Errors
  BY TaskCoreAssumption DEF Errors, Ops
<1> QED BY <1>1 DEF Call, At, CallSet

\* The constants and the stacks, typed.
LEMMA CallsTyped ==
    ASSUME stack \in Stacks
    PROVE  /\ Len(Kinds) \in Nat
           /\ \A c \in InProgress(stack) : c \in CallSet
           /\ \A K : /\ Count(stack, K) \in Nat
                     /\ Count(stack, K) = 0 <=> \A c \in InProgress(stack) : c \notin K
           /\ \A t \in Threads : stack[t] # <<>> =>
                 Head(stack[t]) \in InProgress(stack) /\ Head(stack[t]) \in CallSet
           /\ \A t \in Threads : \A d \in DOMAIN stack[t] :
                 stack[t][d].step \in Steps /\ stack[t][d].op \in 0 .. Len(Kinds)
PROOF
<1>1. Len(Kinds) \in Nat
  BY TaskCoreAssumption
<1>2. \A t \in Threads : stack[t] \in Seq(CallSet)
  BY DEF Stacks
<1>3. \A t \in Threads : \A d \in DOMAIN stack[t] : stack[t][d] \in CallSet
  BY <1>2
<1>4. \A c \in InProgress(stack) : c \in CallSet
  BY <1>3 DEF InProgress
<1>5. \A K : /\ Count(stack, K) \in Nat
             /\ Count(stack, K) = 0 <=> \A c \in InProgress(stack) : c \notin K
  BY CountedIsThere
<1>6. ASSUME NEW t \in Threads, stack[t] # <<>>
      PROVE  Head(stack[t]) \in InProgress(stack) /\ Head(stack[t]) \in CallSet
  <2>1. Head(stack[t]) = stack[t][1] /\ 1 \in DOMAIN stack[t]
    BY <1>2, <1>6
  <2> QED BY <1>3, <2>1 DEF InProgress
<1>7. \A c \in CallSet : c.step \in Steps /\ c.op \in 0 .. Len(Kinds)
  BY DEF CallSet
<1> QED BY <1>1, <1>3, <1>4, <1>5, <1>6, <1>7

\* How often call c is counted among the runners, the tickets and the callables.
AsRunner(c) == IF c.step \in BodySteps THEN 1 ELSE 0
AsTicket(c, i) == IF c.step = "resume" /\ c.op = i THEN 1 ELSE 0
AsCallable(c, i) == IF c.step \in {"work", "probe"} /\ c.op = i THEN 1 ELSE 0

\* What is in progress once call h is replaced by the calls New: them, and what
\* there was but h; a runner, a ticket and a callable are the only ones of their kind.
After(h, New) ==
    /\ stack' \in Stacks
    /\ New \subseteq InProgress(stack')
    /\ \A c \in InProgress(stack') : c \in New \/ c \in InProgress(stack)
    /\ \A c \in InProgress(stack) : c = h \/ c \in InProgress(stack')
    /\ h.step \in BodySteps => \A c \in InProgress(stack') : c \in New \/ c.step \notin BodySteps
    /\ h.step \in {"work", "probe"} => \A c \in InProgress(stack') :
          c \in New \/ ~(c.step \in {"work", "probe"} /\ c.op = h.op)

\* What Around says of any stack, the invariant makes After.
LEMMA AroundIsAfter ==
    ASSUME Inv, NEW t \in Threads, stack[t] # <<>>, NEW R, NEW New,
           Around(t, R), InProgress(stack') = R \cup New, stack' \in Stacks
    PROVE  After(Head(stack[t]), New)
PROOF
<1> DEFINE h == Head(stack[t])
<1>1. h \in CallSet /\ h \in InProgress(stack) /\ \A c \in InProgress(stack) : c \in CallSet
  BY CallsTyped DEF Inv, Typed
<1>2. /\ InProgress(stack) = R \cup {h}
      /\ \A K : Count(stack, K) <= 1 /\ h \in K => \A c \in R : c \notin K
  BY DEF Around
<1> HIDE DEF h
<1>3. \A c \in R : c \in CallSet
  BY <1>1, <1>2
<1>4. h.step \in BodySteps => \A c \in R : c.step \notin BodySteps
  <2>1. h.step \in BodySteps => \A c \in R : c \notin Runners
    BY <1>1, <1>2, WhatIsCounted DEF Inv, OneRuns
  <2> QED BY <1>3, <2>1, WhatIsCounted
<1>5. h.step \in {"work", "probe"} => \A c \in R : ~(c.step \in {"work", "probe"} /\ c.op = h.op)
  <2>1. h.step \in {"work", "probe"} => h.op \in Ops
    BY <1>1 DEF Inv, Typed, Aware
  <2>2. h.step \in {"work", "probe"} => \A c \in R : c \notin CallablesOf(h.op)
    BY <1>1, <1>2, <2>1, WhatIsCounted DEF Inv, Operate
  <2> QED BY <1>3, <2>2, WhatIsCounted
<1>6. After(h, New)
  BY <1>2, <1>4, <1>5 DEF After
<1> QED BY <1>6 DEF h

\* A thread inside of a call.
LEMMA Inside ==
    ASSUME Inv, NEW t \in Threads, NEW s, In(t, s)
    PROVE  /\ stack \in Stacks /\ stack[t] # <<>>
           /\ Head(stack[t]) \in InProgress(stack) /\ Head(stack[t]) \in CallSet
           /\ Head(stack[t]).step = s
           /\ \A i : Count(stack, TicketsOf(i)) \in Nat /\ Count(stack, CallablesOf(i)) \in Nat
           /\ Count(stack, Runners) \in Nat
           /\ s \in BodySteps => Count(stack, Runners) = 1 /\ Runs(Head(stack[t]))
PROOF
<1> DEFINE h == Head(stack[t])
<1>1. /\ stack \in Stacks /\ stack[t] # <<>> /\ h \in InProgress(stack) /\ h \in CallSet
      /\ h.step = s
      /\ \A K : /\ Count(stack, K) \in Nat
                /\ Count(stack, K) = 0 <=> \A c \in InProgress(stack) : c \notin K
  BY CallsTyped DEF In, Inv, Typed
<1> HIDE DEF h
<1>2. s \in BodySteps => Count(stack, Runners) = 1 /\ Runs(h)
  BY <1>1, WhatIsCounted DEF Inv, OneRuns
<1> QED BY <1>1, <1>2 DEF h

\* A call returns: what is left, and what is counted.
LEMMA ReturnEffect ==
    ASSUME Inv, NEW t \in Threads, stack[t] # <<>>, Return(t)
    PROVE  LET h == Head(stack[t]) IN
           /\ After(h, {})
           /\ Count(stack', Runners) = Count(stack, Runners) - AsRunner(h)
           /\ \A i : Count(stack', TicketsOf(i)) = Count(stack, TicketsOf(i)) - AsTicket(h, i)
           /\ \A i : Count(stack', CallablesOf(i)) = Count(stack, CallablesOf(i)) - AsCallable(h, i)
PROOF
<1> DEFINE h == Head(stack[t])
<1>1. /\ stack' \in Stacks /\ Around(t, InProgress(stack'))
      /\ \A K : Count(stack', K) = Count(stack, K) - Here(h, K)
  BY Returned DEF Inv, Typed
<1>2. h \in CallSet
  BY CallsTyped DEF Inv, Typed
<1>3. InProgress(stack') = InProgress(stack') \cup {}
  OBVIOUS
<1>4. After(h, {})
  BY <1>1, <1>3, AroundIsAfter
<1> HIDE DEF h
<1> QED BY <1>1, <1>2, <1>4, WhatIsCounted DEF h, Here, AsRunner, AsTicket, AsCallable

\* A call goes on as another one.
LEMMA OneEffect ==
    ASSUME Inv, NEW t \in Threads, stack[t] # <<>>, NEW a \in CallSet, Become(t, <<a>>)
    PROVE  LET h == Head(stack[t]) IN
           /\ After(h, {a})
           /\ Count(stack', Runners) = Count(stack, Runners) - AsRunner(h) + AsRunner(a)
           /\ \A i : Count(stack', TicketsOf(i))
                       = Count(stack, TicketsOf(i)) - AsTicket(h, i) + AsTicket(a, i)
           /\ \A i : Count(stack', CallablesOf(i))
                       = Count(stack, CallablesOf(i)) - AsCallable(h, i) + AsCallable(a, i)
PROOF
<1> DEFINE h == Head(stack[t])
<1>1. /\ stack' \in Stacks
      /\ \E R : Around(t, R) /\ InProgress(stack') = R \cup {a}
      /\ \A K : Count(stack', K) = Count(stack, K) - Here(h, K) + Here(a, K)
  BY BecameOne DEF Inv, Typed
<1>2. h \in CallSet
  BY CallsTyped DEF Inv, Typed
<1>3. After(h, {a})
  BY <1>1, AroundIsAfter
<1> HIDE DEF h
<1> QED BY <1>1, <1>2, <1>3, WhatIsCounted DEF h, Here, AsRunner, AsTicket, AsCallable

\* A call goes on inside of a new one.
LEMMA TwoEffect ==
    ASSUME Inv, NEW t \in Threads, stack[t] # <<>>,
           NEW a \in CallSet, NEW b \in CallSet, Become(t, <<a, b>>)
    PROVE  LET h == Head(stack[t]) IN
           /\ After(h, {a, b})
           /\ Count(stack', Runners) = Count(stack, Runners) - AsRunner(h) + AsRunner(a) + AsRunner(b)
           /\ \A i : Count(stack', TicketsOf(i))
                       = Count(stack, TicketsOf(i)) - AsTicket(h, i) + AsTicket(a, i) + AsTicket(b, i)
           /\ \A i : Count(stack', CallablesOf(i))
                       = Count(stack, CallablesOf(i)) - AsCallable(h, i) + AsCallable(a, i) + AsCallable(b, i)
PROOF
<1> DEFINE h == Head(stack[t])
<1>1. /\ stack' \in Stacks
      /\ \E R : Around(t, R) /\ InProgress(stack') = R \cup {a, b}
      /\ \A K : Count(stack', K) = Count(stack, K) - Here(h, K) + Here(a, K) + Here(b, K)
  BY BecameTwo DEF Inv, Typed
<1>2. h \in CallSet
  BY CallsTyped DEF Inv, Typed
<1>3. After(h, {a, b})
  BY <1>1, AroundIsAfter
<1> HIDE DEF h
<1> QED BY <1>1, <1>2, <1>3, WhatIsCounted DEF h, Here, AsRunner, AsTicket, AsCallable

\* The stop token calls a callback, which cancels; none of them is counted.
LEMMA ThreeEffect ==
    ASSUME Inv, NEW t \in Threads, stack[t] # <<>>,
           NEW a \in CallSet, NEW b \in CallSet, NEW d \in CallSet, Become(t, <<a, b, d>>),
           {Head(stack[t]).step, a.step, b.step, d.step} \subseteq {"callbacks", "cancel", "called"}
    PROVE  /\ After(Head(stack[t]), {a, b, d})
           /\ Count(stack', Runners) = Count(stack, Runners)
           /\ \A i : Count(stack', TicketsOf(i)) = Count(stack, TicketsOf(i))
           /\ \A i : Count(stack', CallablesOf(i)) = Count(stack, CallablesOf(i))
PROOF
<1> DEFINE h == Head(stack[t])
<1>1. /\ stack' \in Stacks
      /\ \E R : Around(t, R) /\ InProgress(stack') = R \cup {a, b, d}
      /\ \A K : Count(stack', K) = Count(stack, K) - Here(h, K) + Here(a, K) + Here(b, K) + Here(d, K)
  BY BecameThree DEF Inv, Typed
<1>2. /\ h \in CallSet
      /\ \A K : Count(stack, K) \in Nat
  BY CallsTyped DEF Inv, Typed
<1>3. After(h, {a, b, d})
  BY <1>1, AroundIsAfter
<1> HIDE DEF h
<1>4. \A c \in {h, a, b, d} : c.step \notin BodySteps \cup {"resume", "work", "probe"}
  BY DEF h, BodySteps
<1>5. /\ Here(h, Runners) = 0 /\ Here(a, Runners) = 0 /\ Here(b, Runners) = 0 /\ Here(d, Runners) = 0
      /\ \A i : Here(h, TicketsOf(i)) = 0 /\ Here(a, TicketsOf(i)) = 0
                /\ Here(b, TicketsOf(i)) = 0 /\ Here(d, TicketsOf(i)) = 0
      /\ \A i : Here(h, CallablesOf(i)) = 0 /\ Here(a, CallablesOf(i)) = 0
                /\ Here(b, CallablesOf(i)) = 0 /\ Here(d, CallablesOf(i)) = 0
  BY <1>2, <1>4, WhatIsCounted DEF Here
<1> QED BY <1>1, <1>2, <1>3, <1>5 DEF h

\* A thread enters a call from outside, or from user code.
LEMMA EnterEffect ==
    ASSUME Inv, NEW t \in Threads, NEW a \in CallSet, Enter(t, a)
    PROVE  /\ stack' \in Stacks
           /\ InProgress(stack') = InProgress(stack) \cup {a}
           /\ Count(stack', Runners) = Count(stack, Runners) + AsRunner(a)
           /\ \A i : Count(stack', TicketsOf(i)) = Count(stack, TicketsOf(i)) + AsTicket(a, i)
           /\ \A i : Count(stack', CallablesOf(i)) = Count(stack, CallablesOf(i)) + AsCallable(a, i)
PROOF
<1>1. /\ stack' \in Stacks
      /\ InProgress(stack') = InProgress(stack) \cup {a}
      /\ \A K : Count(stack', K) = Count(stack, K) + Here(a, K)
  BY Entered DEF Inv, Typed
<1> QED BY <1>1, WhatIsCounted DEF Here, AsRunner, AsTicket, AsCallable

-----------------------------------------------------------------------------
(* What most steps leave alone.                                            *)

\* The coroutine: a step of another part, which starts and ends no runner.
LEMMA CoroutineKept ==
    ASSUME Inv, UNCHANGED <<coroutine, completed>>, spawned => spawned',
           \A i \in Ops : claimed[i] => claimed'[i],
           settled # "no" => settled' # "no", cancelRequested' => settled' # "no",
           Count(stack', Runners) = Count(stack, Runners),
           \A c \in InProgress(stack') :
              c.step \in BodySteps \cup {"completeExecution"} => c \in InProgress(stack)
    PROVE  Life' /\ OneRuns'
PROOF
<1>1. Life'
  BY DEF Inv, Life, coroutine
<1>2. \A c \in InProgress(stack) : Runs(c) /\ c.step \in BodySteps => Runs(c)'
  <2>1. \A c \in InProgress(stack) : c.step = "unhook" => c.op = next /\ next \in Ops
    BY DEF Inv, OneRuns, Runs, BodySteps, Typed, Aware
  <2> QED BY <2>1 DEF Runs, coroutine
<1>3. OneRuns'
  BY <1>2 DEF Inv, OneRuns, coroutine
<1> QED BY <1>1, <1>3

\* The tickets: none is created, delivered or dropped.
LEMMA TicketsKept ==
    ASSUME Inv, stack' \in Stacks, UNCHANGED <<claimed, awaiting, queued>>, spawned => spawned',
           \A i : Count(stack', TicketsOf(i)) = Count(stack, TicketsOf(i)),
           UNCHANGED <<started, running>> \/ \A c \in InProgress(stack) : ~(c.step = "resume" /\ c.op = 0),
           \A c \in InProgress(stack') : c.step = "resume" => c \in InProgress(stack),
           awaiting # 0 => ((resumePending \/ Some({"run", "wake"}))' <=> (resumePending \/ Some({"run", "wake"})))
    PROVE  TicketsMatch'
PROOF
<1>1. \A i \in Ops : Deferred(i)' <=> Deferred(i)
  BY DEF Deferred, Ops
<1>2. \A i \in Ops : TicketCount(i)' = TicketCount(i)
  BY <1>1 DEF TicketCount
<1>3. \A c \in InProgress(stack') : c \in CallSet
  BY DEF Stacks, InProgress
<1>4. \A c \in InProgress(stack') : c \in TicketsOf(0) => c \in InProgress(stack) /\ c.step = "resume" /\ c.op = 0
  BY <1>3, WhatIsCounted
<1> QED BY <1>2, <1>4 DEF Inv, TicketsMatch

\* The operations and the calls that are about them.
LEMMA OperateKept ==
    ASSUME Inv, UNCHANGED <<awaiting, operation, source, target>>, Stopping => Stopping',
           \A c \in InProgress(stack') :
              c.step \in {"complete", "cancel", "arm", "probe", "work"} => c \in InProgress(stack),
           \A i : Count(stack', CallablesOf(i)) = Count(stack, CallablesOf(i))
    PROVE  Operate'
PROOF
<1>1. \A c \in InProgress(stack) : Completes(c) => Completes(c)'
  BY DEF Completes, operation
<1>2. \A i : /\ None("complete", i) => None("complete", i)'
             /\ None("arm", i) => None("arm", i)'
  BY DEF None
<1>3. \A c \in InProgress(stack) : Executes(c) => Executes(c)'
  BY <1>2 DEF Executes, operation
<1> QED BY <1>1, <1>2, <1>3 DEF Inv, Operate, operation

\* The operations stay as they are if the calls about them do.
LEMMA OperationsKept ==
    ASSUME Inv, UNCHANGED <<next, awaiting, operation, hook, source, target, queued>>,
           Stopping => Stopping',
           \A c \in InProgress(stack') :
              c.step \in {"complete", "cancel", "arm", "probe", "work"} => c \in InProgress(stack),
           Some({"unhook"}) => Some({"unhook"})',
           \A i : Count(stack', CallablesOf(i)) = Count(stack, CallablesOf(i))
    PROVE  Unused' /\ Registered' /\ Operate'
PROOF
<1>1. Unused' /\ Registered'
  BY DEF Inv, Unused, Registered, Outlives, operation
<1> QED BY <1>1, OperateKept

\* The types.
LEMMA TypesKept ==
    ASSUME Inv, Members', stack' \in Stacks,
           \A c \in InProgress(stack') : c.step \in Aware \cup {"settle"} =>
              \/ c \in InProgress(stack)
              \/ /\ c.step \in Aware => c.op \in Ops
                 /\ c.step = "complete" => c.err \in Errors
                 /\ c.step = "settle" => c.err \in {"value", "error"}
    PROVE  Typed'
PROOF BY DEF Inv, Typed, Aware

-----------------------------------------------------------------------------
(* state_base::resume.                                                     *)

\* A ticket that is being delivered is the only one of its operation; the first
\* resume comes before everything else.
LEMMA TicketParts ==
    ASSUME Inv, NEW h \in InProgress(stack), h.step = "resume"
    PROVE  /\ h.op = 0 => spawned /\ ~started /\ ~running /\ awaiting = 0
           /\ h.op # 0 => /\ h.op \in Ops /\ awaiting = h.op /\ claimed[h.op] /\ started
                          /\ h.op \notin queued /\ ~Some({"run", "wake"})
           /\ Count(stack, TicketsOf(h.op)) = 1
           /\ ~resumePending /\ ~executionFinished
PROOF
<1>1. h \in CallSet /\ h \in TicketsOf(h.op) /\ h.op \in 0 .. Len(Kinds) /\ Len(Kinds) \in Nat
  BY CallsTyped, WhatIsCounted DEF CallSet, Inv, Typed
<1>2. Count(stack, TicketsOf(h.op)) \in Nat /\ Count(stack, TicketsOf(h.op)) # 0
  BY <1>1, CallsTyped DEF Inv, Typed
<1>3. CASE h.op = 0
  BY <1>1, <1>2, <1>3 DEF Inv, TicketsMatch, Life
<1>4. CASE h.op # 0
  <2>1. h.op \in Ops
    BY <1>1, <1>4 DEF Ops
  <2>2. TicketCount(h.op) = (IF claimed[h.op] /\ awaiting = h.op THEN 1 ELSE 0)
    BY <2>1 DEF Inv, TicketsMatch
  <2>3. claimed[h.op] /\ awaiting = h.op /\ h.op \notin queued /\ ~Deferred(h.op)
        /\ Count(stack, TicketsOf(h.op)) = 1
    BY <1>2, <2>2 DEF TicketCount
  <2> QED BY <1>4, <2>1, <2>3 DEF Deferred, Inv, Life
<1> QED BY <1>3, <1>4

\* A resume that meets a running coroutine defers its ticket, any other runs it.
LEMMA ResumeStep ==
    ASSUME Inv, NEW t \in Threads, Resume(t)
    PROVE  Inv'
PROOF
<1> DEFINE h == Head(stack[t])
<1>1. /\ stack \in Stacks /\ stack[t] # <<>>
      /\ h \in InProgress(stack) /\ h \in CallSet /\ h.step = "resume"
      /\ \A i : Count(stack, TicketsOf(i)) \in Nat /\ Count(stack, CallablesOf(i)) \in Nat
      /\ Count(stack, Runners) \in Nat
  BY Inside DEF Resume
<1>2. /\ h.op = 0 => spawned /\ ~started /\ ~running /\ awaiting = 0
      /\ h.op # 0 => /\ h.op \in Ops /\ awaiting = h.op /\ claimed[h.op] /\ started
                     /\ h.op \notin queued /\ ~Some({"run", "wake"})
      /\ Count(stack, TicketsOf(h.op)) = 1
      /\ ~resumePending /\ ~executionFinished
  BY <1>1, TicketParts
<1>3. At("run") \in CallSet /\ At("run").step = "run"
  BY CallsMade DEF Steps, BodySteps
<1>4. UNCHANGED <<executionFinished, started, frame, next, awaiting, result, cancellation,
                  operation, others, hook, source, queued>>
  BY DEF Resume
<1>5. CASE running
  <2>1. Return(t) /\ running' = running /\ resumePending' = TRUE
    BY <1>2, <1>5 DEF Resume, Busy, PendingIfRunning
  <2>2. /\ After(h, {})
        /\ Count(stack', Runners) = Count(stack, Runners)
        /\ \A i : Count(stack', TicketsOf(i)) = Count(stack, TicketsOf(i)) - AsTicket(h, i)
        /\ \A i : Count(stack', CallablesOf(i)) = Count(stack, CallablesOf(i))
    BY <1>1, <2>1, ReturnEffect DEF AsRunner, AsCallable, BodySteps
  <2>3. h.op \in Ops /\ awaiting = h.op /\ claimed[h.op]
    BY <1>2, <1>5
  <2>4. Typed'
    BY <1>4, <2>1, <2>2, TypesKept DEF Inv, Typed, Members, After, result, cancellation, operation, others
  <2>5. Life'
    BY <1>2, <1>4, <1>5, <2>1, <2>3 DEF Inv, Life, Ops, result, cancellation, others
  <2>6. OneRuns'
    BY <1>2, <1>4, <1>5, <2>1, <2>2, <2>3 DEF Inv, OneRuns, Runs, Some, After, result, operation, Ops
  <2>7. TicketsMatch'
    <3>1. \A i \in Ops : Deferred(i)' <=> i = h.op
      BY <1>4, <2>1, <2>3 DEF Deferred
    <3>2. \A i \in Ops : Deferred(i) <=> FALSE
      BY <1>2, <1>5 DEF Deferred, Ops
    <3>3. \A i \in Ops : TicketCount(i)' = TicketCount(i)
      BY <1>1, <1>2, <1>4, <2>2, <3>1, <3>2 DEF TicketCount, AsTicket
    <3>4. \A c \in InProgress(stack') : c \in TicketsOf(0) => c \in InProgress(stack)
      BY <2>2 DEF After
    <3> QED BY <1>1, <1>4, <2>1, <2>2, <2>3, <3>3, <3>4
            DEF Inv, TicketsMatch, AsTicket, operation, others, Ops
  <2>8. Unused' /\ Registered' /\ Operate'
    BY <1>1, <1>4, <2>2, OperationsKept DEF After, Some, Stopping, cancellation, others
  <2> QED BY <2>4, <2>5, <2>6, <2>7, <2>8 DEF Inv
<1>6. CASE ~running
  <2>1. Become(t, <<At("run")>>) /\ running' = TRUE /\ resumePending' = FALSE
    BY <1>2, <1>6 DEF Resume, Busy, PendingIfRunning
  <2>2. /\ After(h, {At("run")})
        /\ Count(stack', Runners) = Count(stack, Runners) + 1
        /\ \A i : Count(stack', TicketsOf(i)) = Count(stack, TicketsOf(i)) - AsTicket(h, i)
        /\ \A i : Count(stack', CallablesOf(i)) = Count(stack, CallablesOf(i))
    <3>1. /\ AsRunner(h) = 0 /\ AsRunner(At("run")) = 1
          /\ \A i : AsTicket(At("run"), i) = 0 /\ AsTicket(h, i) \in Nat
          /\ \A i : AsCallable(h, i) = 0 /\ AsCallable(At("run"), i) = 0
      BY <1>1, <1>3 DEF AsRunner, AsTicket, AsCallable, BodySteps
    <3>2. /\ After(h, {At("run")})
          /\ Count(stack', Runners) = Count(stack, Runners) - AsRunner(h) + AsRunner(At("run"))
          /\ \A i : Count(stack', TicketsOf(i))
                      = Count(stack, TicketsOf(i)) - AsTicket(h, i) + AsTicket(At("run"), i)
          /\ \A i : Count(stack', CallablesOf(i))
                      = Count(stack, CallablesOf(i)) - AsCallable(h, i) + AsCallable(At("run"), i)
      BY <1>1, <1>3, <2>1, OneEffect
    <3> HIDE DEF h
    <3> QED BY <1>1, <3>1, <3>2
  <2>3. Count(stack, Runners) = 0 /\ ~Some(BodySteps)
    <3>1. \A c \in InProgress(stack) : c.step \notin BodySteps /\ c \notin Runners
      BY <1>6, CallsTyped, WhatIsCounted DEF Inv, OneRuns, Runs, Typed
    <3> QED BY <1>1, <3>1, CallsTyped DEF Some
  <2>4. Typed'
    BY <1>3, <1>4, <2>1, <2>2, TypesKept
    DEF Inv, Typed, Members, After, Aware, result, cancellation, operation, others
  <2>5. Life'
    BY <1>2, <1>4, <1>6, <2>1 DEF Inv, Life, Ops, result, cancellation, others
  <2>6. OneRuns'
    <3>1. Runs(At("run"))'
      BY <1>2, <1>3, <1>4, <1>6, <2>1 DEF Inv, Life, Runs, Ops
    <3> QED BY <1>2, <1>3, <1>4, <2>1, <2>2, <2>3, <3>1 DEF Inv, OneRuns, Some, After
  <2>7. TicketsMatch'
    <3>1. \A i \in Ops : Deferred(i)' <=> i = h.op
      BY <1>2, <1>3, <1>4, <2>1, <2>2 DEF Deferred, Some, After, Ops
    <3>2. \A i \in Ops : Deferred(i) <=> FALSE
      BY <1>2, <2>3 DEF Deferred, Some, BodySteps
    <3>3. \A i \in Ops : TicketCount(i)' = TicketCount(i)
      BY <1>1, <1>2, <1>4, <2>2, <3>1, <3>2 DEF TicketCount, AsTicket
    <3>4. \A c \in InProgress(stack') : c \in TicketsOf(0) => FALSE
      <4>1. h.op # 0 => Count(stack, TicketsOf(0)) = 0
        BY <1>1, <1>2, CountedIsThere DEF Inv, TicketsMatch
      <4>2. Count(stack', TicketsOf(0)) = 0
        BY <1>1, <1>2, <2>2, <4>1 DEF AsTicket
      <4> QED BY <2>2, <4>2, CountedIsThere DEF After
    <3> QED BY <1>1, <1>4, <2>2, <3>3, <3>4 DEF Inv, TicketsMatch, AsTicket, operation
  <2>8. Unused' /\ Registered' /\ Operate'
    BY <1>1, <1>3, <1>4, <2>2, OperationsKept DEF After, Some, Stopping, cancellation, others
  <2> QED BY <2>4, <2>5, <2>6, <2>7, <2>8 DEF Inv
<1> QED BY <1>5, <1>6

-----------------------------------------------------------------------------
(* The loop that runs the coroutine.                                       *)

\* A runner that goes on to its next step stays the only one.
LEMMA RunnerMoves ==
    ASSUME Inv, NEW t \in Threads, NEW s \in BodySteps, In(t, s),
           NEW a \in CallSet, a.step \in BodySteps, Become(t, <<a>>)
    PROVE  /\ stack' \in Stacks /\ a \in InProgress(stack')
           /\ \A c \in InProgress(stack') : c = a \/ (c \in InProgress(stack) /\ c.step \notin BodySteps)
           /\ \A c \in InProgress(stack) : c.step \in BodySteps \/ c \in InProgress(stack')
           /\ \A i : Count(stack', TicketsOf(i)) = Count(stack, TicketsOf(i))
           /\ \A i : Count(stack', CallablesOf(i)) = Count(stack, CallablesOf(i))
           /\ Runs(a)' /\ (executionFinished => executionFinished') => OneRuns'
PROOF
<1> DEFINE h == Head(stack[t])
<1>1. /\ stack \in Stacks /\ stack[t] # <<>>
      /\ h \in InProgress(stack) /\ h \in CallSet /\ h.step = s
      /\ \A i : Count(stack, TicketsOf(i)) \in Nat /\ Count(stack, CallablesOf(i)) \in Nat
      /\ Count(stack, Runners) = 1
  BY Inside
<1>2. /\ After(h, {a})
      /\ Count(stack', Runners) = Count(stack, Runners) - AsRunner(h) + AsRunner(a)
      /\ \A i : Count(stack', TicketsOf(i))
                  = Count(stack, TicketsOf(i)) - AsTicket(h, i) + AsTicket(a, i)
      /\ \A i : Count(stack', CallablesOf(i))
                  = Count(stack, CallablesOf(i)) - AsCallable(h, i) + AsCallable(a, i)
  BY <1>1, OneEffect
<1>3. /\ AsRunner(h) = 1 /\ AsRunner(a) = 1
      /\ \A i : AsTicket(h, i) = 0 /\ AsTicket(a, i) = 0
      /\ \A i : AsCallable(h, i) = 0 /\ AsCallable(a, i) = 0
  BY <1>1 DEF AsRunner, AsTicket, AsCallable, BodySteps
<1> HIDE DEF h
<1>4. /\ \A i : Count(stack', TicketsOf(i)) = Count(stack, TicketsOf(i))
      /\ \A i : Count(stack', CallablesOf(i)) = Count(stack, CallablesOf(i))
      /\ Count(stack', Runners) = 1
  BY <1>1, <1>2, <1>3
<1>5. /\ stack' \in Stacks /\ a \in InProgress(stack')
      /\ \A c \in InProgress(stack') : c = a \/ (c \in InProgress(stack) /\ c.step \notin BodySteps)
      /\ \A c \in InProgress(stack) : c.step \in BodySteps \/ c \in InProgress(stack')
  BY <1>1, <1>2 DEF After
<1>6. ASSUME Runs(a)', executionFinished => executionFinished'
      PROVE  OneRuns'
  BY <1>4, <1>5, <1>6 DEF OneRuns, Inv, BodySteps
<1> QED BY <1>4, <1>5, <1>6

\* The same for one that first calls something else: a stop_callback, or its completion.
LEMMA RunnerMovesAfter ==
    ASSUME Inv, NEW t \in Threads, NEW s \in BodySteps, In(t, s),
           NEW b \in CallSet, b.step \in {"cancel", "complete"},
           NEW a \in CallSet, a.step \in BodySteps, Become(t, <<b, a>>)
    PROVE  /\ stack' \in Stacks /\ {a, b} \subseteq InProgress(stack')
           /\ \A c \in InProgress(stack') : c \in {a, b} \/ (c \in InProgress(stack) /\ c.step \notin BodySteps)
           /\ \A c \in InProgress(stack) : c.step \in BodySteps \/ c \in InProgress(stack')
           /\ \A i : Count(stack', TicketsOf(i)) = Count(stack, TicketsOf(i))
           /\ \A i : Count(stack', CallablesOf(i)) = Count(stack, CallablesOf(i))
           /\ Runs(a)' /\ (executionFinished => executionFinished') => OneRuns'
PROOF
<1> DEFINE h == Head(stack[t])
<1>1. /\ stack \in Stacks /\ stack[t] # <<>>
      /\ h \in InProgress(stack) /\ h \in CallSet /\ h.step = s
      /\ \A i : Count(stack, TicketsOf(i)) \in Nat /\ Count(stack, CallablesOf(i)) \in Nat
      /\ Count(stack, Runners) = 1
  BY Inside
<1>2. /\ After(h, {b, a})
      /\ Count(stack', Runners) = Count(stack, Runners) - AsRunner(h) + AsRunner(b) + AsRunner(a)
      /\ \A i : Count(stack', TicketsOf(i))
                  = Count(stack, TicketsOf(i)) - AsTicket(h, i) + AsTicket(b, i) + AsTicket(a, i)
      /\ \A i : Count(stack', CallablesOf(i))
                  = Count(stack, CallablesOf(i)) - AsCallable(h, i) + AsCallable(b, i) + AsCallable(a, i)
  BY <1>1, TwoEffect
<1>3. /\ AsRunner(h) = 1 /\ AsRunner(a) = 1 /\ AsRunner(b) = 0
      /\ \A i : AsTicket(h, i) = 0 /\ AsTicket(a, i) = 0 /\ AsTicket(b, i) = 0
      /\ \A i : AsCallable(h, i) = 0 /\ AsCallable(a, i) = 0 /\ AsCallable(b, i) = 0
  BY <1>1 DEF AsRunner, AsTicket, AsCallable, BodySteps
<1> HIDE DEF h
<1>4. /\ \A i : Count(stack', TicketsOf(i)) = Count(stack, TicketsOf(i))
      /\ \A i : Count(stack', CallablesOf(i)) = Count(stack, CallablesOf(i))
      /\ Count(stack', Runners) = 1
  BY <1>1, <1>2, <1>3
<1>5. /\ stack' \in Stacks /\ {a, b} \subseteq InProgress(stack')
      /\ \A c \in InProgress(stack') : c \in {a, b} \/ (c \in InProgress(stack) /\ c.step \notin BodySteps)
      /\ \A c \in InProgress(stack) : c.step \in BodySteps \/ c \in InProgress(stack')
  BY <1>1, <1>2 DEF After
<1>6. ASSUME Runs(a)', executionFinished => executionFinished'
      PROVE  OneRuns'
  BY <1>4, <1>5, <1>6 DEF OneRuns, Inv, BodySteps
<1> QED BY <1>4, <1>5, <1>6

\* The same for one that returns, or hands over to completeExecution.
LEMMA RunnerReturns ==
    ASSUME Inv, NEW t \in Threads, NEW s \in BodySteps, In(t, s), Return(t)
    PROVE  /\ stack' \in Stacks
           /\ \A c \in InProgress(stack') : c \in InProgress(stack) /\ c.step \notin BodySteps
           /\ \A c \in InProgress(stack) : c.step \in BodySteps \/ c \in InProgress(stack')
           /\ \A i : Count(stack', TicketsOf(i)) = Count(stack, TicketsOf(i))
           /\ \A i : Count(stack', CallablesOf(i)) = Count(stack, CallablesOf(i))
           /\ Count(stack', Runners) = 0
PROOF
<1> DEFINE h == Head(stack[t])
<1>1. /\ stack \in Stacks /\ stack[t] # <<>>
      /\ h \in InProgress(stack) /\ h \in CallSet /\ h.step = s
      /\ \A i : Count(stack, TicketsOf(i)) \in Nat /\ Count(stack, CallablesOf(i)) \in Nat
      /\ Count(stack, Runners) = 1
  BY Inside
<1>2. /\ AsRunner(h) = 1
      /\ \A i : AsTicket(h, i) = 0
      /\ \A i : AsCallable(h, i) = 0
  BY <1>1 DEF AsRunner, AsTicket, AsCallable, BodySteps
<1>3. /\ After(h, {})
      /\ Count(stack', Runners) = Count(stack, Runners) - AsRunner(h)
      /\ \A i : Count(stack', TicketsOf(i)) = Count(stack, TicketsOf(i)) - AsTicket(h, i)
      /\ \A i : Count(stack', CallablesOf(i)) = Count(stack, CallablesOf(i)) - AsCallable(h, i)
  BY <1>1, ReturnEffect
<1> HIDE DEF h
<1> QED BY <1>1, <1>2, <1>3 DEF After

\* The runner of the coroutine is through with it, and completes the execution.
LEMMA RunnerFinishes ==
    ASSUME Inv, NEW t \in Threads, NEW s \in BodySteps, In(t, s),
           Become(t, <<At("completeExecution")>>)
    PROVE  /\ stack' \in Stacks
           /\ \A c \in InProgress(stack') :
                 \/ c = At("completeExecution")
                 \/ c \in InProgress(stack) /\ c.step \notin BodySteps
           /\ \A c \in InProgress(stack) : c.step \in BodySteps \/ c \in InProgress(stack')
           /\ \A i : Count(stack', TicketsOf(i)) = Count(stack, TicketsOf(i))
           /\ \A i : Count(stack', CallablesOf(i)) = Count(stack, CallablesOf(i))
           /\ Count(stack', Runners) = 0
PROOF
<1> DEFINE h == Head(stack[t])
           e == At("completeExecution")
<1>1. /\ stack \in Stacks /\ stack[t] # <<>>
      /\ h \in InProgress(stack) /\ h \in CallSet /\ h.step = s
      /\ \A i : Count(stack, TicketsOf(i)) \in Nat /\ Count(stack, CallablesOf(i)) \in Nat
      /\ Count(stack, Runners) = 1
  BY Inside
<1>2. e \in CallSet /\ e.step = "completeExecution"
  BY CallsMade DEF Steps
<1>3. /\ AsRunner(h) = 1 /\ AsRunner(e) = 0
      /\ \A i : AsTicket(h, i) = 0 /\ AsTicket(e, i) = 0
      /\ \A i : AsCallable(h, i) = 0 /\ AsCallable(e, i) = 0
  BY <1>1, <1>2 DEF AsRunner, AsTicket, AsCallable, BodySteps
<1>4. /\ After(h, {e})
      /\ Count(stack', Runners) = Count(stack, Runners) - AsRunner(h) + AsRunner(e)
      /\ \A i : Count(stack', TicketsOf(i))
                  = Count(stack, TicketsOf(i)) - AsTicket(h, i) + AsTicket(e, i)
      /\ \A i : Count(stack', CallablesOf(i))
                  = Count(stack, CallablesOf(i)) - AsCallable(h, i) + AsCallable(e, i)
  BY <1>1, <1>2, OneEffect
<1> HIDE DEF h
<1>5. /\ stack' \in Stacks
      /\ \A c \in InProgress(stack') : c = e \/ (c \in InProgress(stack) /\ c.step \notin BodySteps)
      /\ \A c \in InProgress(stack) : c.step \in BodySteps \/ c \in InProgress(stack')
  BY <1>1, <1>4 DEF After
<1>6. /\ \A i : Count(stack', TicketsOf(i)) = Count(stack, TicketsOf(i))
      /\ \A i : Count(stack', CallablesOf(i)) = Count(stack, CallablesOf(i))
      /\ Count(stack', Runners) = 0
  BY <1>1, <1>3, <1>4
<1> QED BY <1>5, <1>6

\* A runner knows the state it runs in.
LEMMA RunnerParts ==
    ASSUME Inv, NEW t \in Threads, NEW s \in BodySteps, In(t, s)
    PROVE  /\ Runs(Head(stack[t])) /\ Head(stack[t]).step = s
           /\ Head(stack[t]) \in InProgress(stack) /\ Head(stack[t]) \in CallSet
           /\ \A c \in InProgress(stack) : ~(c.step = "resume" /\ c.op = 0)
           /\ \A c \in InProgress(stack) : c.step \in BodySteps => c = Head(stack[t])
PROOF
<1> DEFINE h == Head(stack[t])
           rest == Pop(stack, t)
<1>1. /\ stack \in Stacks /\ stack[t] # <<>> /\ h \in InProgress(stack) /\ h \in CallSet
      /\ h.step = s /\ Runs(h)
  BY Inside
<1>2. \A c \in InProgress(stack) : ~(c.step = "resume" /\ c.op = 0)
  BY <1>1, TicketParts DEF Runs
<1>3. rest \in Stacks /\ Push(rest, t, h) = stack
  BY <1>1, PopParts
<1>4. InProgress(stack) = InProgress(rest) \cup {h}
  BY <1>1, <1>3, PushCounts
<1>5. Count(stack, Runners) = 1 /\ Count(stack, Runners) = Count(rest, Runners) + 1
  BY <1>1, <1>3, PushCounts, WhatIsCounted, Inside
<1>6. \A c \in InProgress(rest) : c \notin Runners
  BY <1>3, <1>5, CountedIsThere
<1>7. \A c \in InProgress(stack) : c.step \in BodySteps => c = h
  BY <1>1, <1>4, <1>6, CallsTyped, WhatIsCounted
<1> QED BY <1>1, <1>2, <1>7

\* A runner that goes on without touching an operation only has to keep the
\* coroutine's own state, and its ticket if it has deferred one.
LEMMA PlainMove ==
    ASSUME Inv, NEW t \in Threads, NEW s \in BodySteps \ {"unhook"}, In(t, s),
           NEW a \in CallSet, a.step \in BodySteps \ {"arm", "unhook"}, Become(t, <<a>>),
           a.step = "settle" => a.err \in {"value", "error"},
           UNCHANGED <<executionFinished, next, awaiting, operation, others, hook, source, queued>>,
           Stopping => Stopping',
           awaiting # 0 => ((resumePending' \/ a.step \in {"run", "wake"}) <=>
                            (resumePending \/ s \in {"run", "wake"})),
           Members', Life', Runs(a)'
    PROVE  Inv'
PROOF
<1>1. /\ stack' \in Stacks /\ a \in InProgress(stack')
      /\ \A c \in InProgress(stack') : c = a \/ (c \in InProgress(stack) /\ c.step \notin BodySteps)
      /\ \A c \in InProgress(stack) : c.step \in BodySteps \/ c \in InProgress(stack')
      /\ \A i : Count(stack', TicketsOf(i)) = Count(stack, TicketsOf(i))
      /\ \A i : Count(stack', CallablesOf(i)) = Count(stack, CallablesOf(i))
      /\ Runs(a)' /\ (executionFinished => executionFinished') => OneRuns'
  BY RunnerMoves
<1>2. /\ Head(stack[t]) \in InProgress(stack) /\ Head(stack[t]).step = s
      /\ \A c \in InProgress(stack) : c.step \in BodySteps => c = Head(stack[t])
      /\ \A c \in InProgress(stack) : ~(c.step = "resume" /\ c.op = 0)
  BY RunnerParts
<1>3. Typed'
  BY <1>1, TypesKept DEF Aware, BodySteps
<1>4. TicketsMatch'
  <2>1. Some({"run", "wake"}) <=> s \in {"run", "wake"}
    BY <1>2 DEF Some, BodySteps
  <2>2. Some({"run", "wake"})' <=> a.step \in {"run", "wake"}
    BY <1>1 DEF Some, BodySteps
  <2>3. awaiting # 0 => ((resumePending \/ Some({"run", "wake"}))' <=> (resumePending \/ Some({"run", "wake"})))
    BY <2>1, <2>2
  <2> QED BY <1>1, <1>2, <2>3, TicketsKept DEF operation, others, BodySteps
<1>5. Unused' /\ Registered' /\ Operate'
  BY <1>1, <1>2, OperationsKept DEF Some, BodySteps, others
<1> QED BY <1>1, <1>3, <1>4, <1>5 DEF Inv

\* The loop starts or resumes the body, or skips it.
LEMMA RunStep ==
    ASSUME Inv, NEW t \in Threads, Run(t)
    PROVE  Inv'
PROOF
<1>1. PICK s \in {"destroy", "wake", "body"} :
         /\ Become(t, <<At(s)>>)
         /\ s = "wake" <=> started
         /\ s = "destroy" => cancelRequested
  BY DEF Run
<1>2. /\ started' = TRUE
      /\ UNCHANGED <<running, resumePending, executionFinished, frame, next, awaiting, result,
                     cancellation, operation, others, hook, source, queued>>
  BY DEF Run
<1>3. At(s) \in CallSet /\ At(s).step = s
  BY CallsMade DEF Steps, BodySteps
<1>4. In(t, "run") /\ "run" \in BodySteps \ {"unhook"} /\ s \in BodySteps \ {"arm", "unhook"}
  BY DEF Run, BodySteps
<1>5. Runs(Head(stack[t])) /\ Head(stack[t]).step = "run"
  BY <1>4, RunnerParts
<1>6. Members'
  BY <1>2 DEF Inv, Typed, Members, result, cancellation, operation, others
<1>7. Life'
  BY <1>2, <1>5 DEF Inv, Life, Runs, result, cancellation, others
<1>8. Runs(At(s))'
  BY <1>1, <1>2, <1>3, <1>5 DEF Inv, Life, Runs, result, operation, Typed, Members
<1>9. awaiting # 0 => s = "wake"
  BY <1>1 DEF Inv, Life
<1> QED BY <1>1, <1>2, <1>3, <1>4, <1>6, <1>7, <1>8, <1>9, PlainMove DEF Stopping, cancellation

\* The body returns or throws.
LEMMA BodyStep ==
    ASSUME Inv, NEW t \in Threads, Body(t)
    PROVE  Inv'
PROOF
<1>1. PICK r \in {"value", "error"} : Become(t, <<Call("settle", 0, r)>>)
  BY DEF Body
<1>2. PICK a : a = Call("settle", 0, r)
  OBVIOUS
<1>3. a \in CallSet /\ a.step = "settle" /\ a.err = r
  BY <1>2, CallsMade DEF Steps, BodySteps, Errors
<1>4. UNCHANGED <<coroutine, result, cancellation, operation, others, hook, source, queued>>
  BY DEF Body
<1>5. In(t, "body") /\ {"body", "settle"} \subseteq BodySteps \ {"arm", "unhook"}
  BY DEF Body, BodySteps
<1>6. Runs(Head(stack[t])) /\ Head(stack[t]).step = "body"
  BY <1>5, RunnerParts
<1>7. Members'
  BY <1>4 DEF Inv, Typed, Members, coroutine, result, cancellation, operation, others
<1>8. Life'
  BY <1>4 DEF Inv, Life, coroutine, result, cancellation, others
<1>9. Runs(a)'
  BY <1>3, <1>4, <1>6 DEF Runs, coroutine, result, operation
<1> QED BY <1>1, <1>2, <1>3, <1>4, <1>5, <1>7, <1>8, <1>9, PlainMove DEF Stopping, coroutine, cancellation

\* Its result is kept if it is the first.
LEMMA SettleStep ==
    ASSUME Inv, NEW t \in Threads, Settle(t)
    PROVE  Inv'
PROOF
<1>1. /\ Become(t, <<At("destroy")>>)
      /\ settled' = IF settled = "no" THEN Head(stack[t]).err ELSE settled
      /\ UNCHANGED <<coroutine, completed, cancellation, operation, others, hook, source, queued>>
  BY DEF Settle, FirstResult
<1>2. At("destroy") \in CallSet /\ At("destroy").step = "destroy"
  BY CallsMade DEF Steps, BodySteps
<1>3. In(t, "settle") /\ {"settle", "destroy"} \subseteq BodySteps \ {"arm", "unhook"}
  BY DEF Settle, BodySteps
<1>4. /\ Runs(Head(stack[t])) /\ Head(stack[t]).step = "settle"
      /\ Head(stack[t]).err \in {"value", "error"}
  BY <1>3, RunnerParts DEF Inv, Typed
<1>5. Members'
  BY <1>1, <1>4 DEF Inv, Typed, Members, coroutine, cancellation, operation, others
<1>6. settled' # "no"
  BY <1>1, <1>4
<1>7. Life'
  BY <1>1, <1>6 DEF Inv, Life, coroutine, cancellation, others
<1>8. Runs(At("destroy"))'
  BY <1>1, <1>2, <1>4, <1>6 DEF Runs, coroutine, operation
<1> QED BY <1>1, <1>2, <1>3, <1>5, <1>7, <1>8, PlainMove DEF Stopping, coroutine, cancellation

\* The frame goes.
LEMMA DestroyStep ==
    ASSUME Inv, NEW t \in Threads, Destroy(t)
    PROVE  Inv'
PROOF
<1>1. /\ Become(t, <<At("finish")>>)
      /\ frame' = FALSE
      /\ UNCHANGED <<running, resumePending, executionFinished, started, next, awaiting, result,
                     cancellation, operation, others, hook, source, queued>>
  BY DEF Destroy
<1>2. At("finish") \in CallSet /\ At("finish").step = "finish"
  BY CallsMade DEF Steps, BodySteps
<1>3. In(t, "destroy") /\ {"destroy", "finish"} \subseteq BodySteps \ {"arm", "unhook"}
  BY DEF Destroy, BodySteps
<1>4. Runs(Head(stack[t])) /\ Head(stack[t]).step = "destroy"
  BY <1>3, RunnerParts
<1>5. Members'
  BY <1>1 DEF Inv, Typed, Members, result, cancellation, operation, others
<1>6. Life'
  BY <1>1, <1>4 DEF Inv, Life, Runs, result, cancellation, others
<1>7. Runs(At("finish"))'
  BY <1>1, <1>2, <1>4 DEF Runs, result, operation
<1> QED BY <1>1, <1>2, <1>3, <1>5, <1>6, <1>7, PlainMove DEF Stopping, cancellation

\* frame.resume() returned: the loop goes on if a resume was deferred.
LEMMA LeaveStep ==
    ASSUME Inv, NEW t \in Threads, Leave(t)
    PROVE  Inv'
PROOF
<1>1. /\ In(t, "leave") /\ "leave" \in BodySteps
      /\ resumePending' = FALSE /\ (running' <=> resumePending)
      /\ running' \in BOOLEAN
      /\ UNCHANGED <<executionFinished, started, frame, next, awaiting, result, cancellation,
                     operation, others, hook, source, queued>>
  BY DEF Leave, BodySteps, Inv, Typed, Members
<1>2. /\ Runs(Head(stack[t])) /\ Head(stack[t]).step = "leave"
      /\ \A c \in InProgress(stack) : c.step \in BodySteps => c = Head(stack[t])
      /\ \A c \in InProgress(stack) : ~(c.step = "resume" /\ c.op = 0)
  BY <1>1, RunnerParts
<1>3. Members'
  BY <1>1 DEF Inv, Typed, Members, result, cancellation, operation, others
<1>4. CASE resumePending
  <2>1. Become(t, <<At("run")>>)
    BY <1>4 DEF Leave
  <2>2. At("run") \in CallSet /\ At("run").step = "run" /\ "run" \in BodySteps
    BY CallsMade DEF Steps, BodySteps
  <2>3. Life'
    BY <1>1, <1>2, <1>4 DEF Inv, Life, Runs, result, cancellation, others
  <2>4. Runs(At("run"))'
    BY <1>1, <1>2, <1>4, <2>2 DEF Runs, result, operation
  <2> QED BY <1>1, <1>3, <1>4, <2>1, <2>2, <2>3, <2>4, PlainMove DEF Stopping, cancellation
<1>5. CASE ~resumePending
  <2>1. Return(t)
    BY <1>5 DEF Leave
  <2>2. /\ stack' \in Stacks
        /\ \A c \in InProgress(stack') : c \in InProgress(stack) /\ c.step \notin BodySteps
        /\ \A c \in InProgress(stack) : c.step \in BodySteps \/ c \in InProgress(stack')
        /\ \A i : Count(stack', TicketsOf(i)) = Count(stack, TicketsOf(i))
        /\ \A i : Count(stack', CallablesOf(i)) = Count(stack, CallablesOf(i))
        /\ Count(stack', Runners) = 0
    BY <1>1, <2>1, RunnerReturns
  <2>3. Typed'
    BY <1>3, <2>2, TypesKept
  <2>4. Life'
    BY <1>1, <1>2, <1>5 DEF Inv, Life, Runs, result, cancellation, others
  <2>5. OneRuns'
    BY <1>1, <2>2 DEF Inv, OneRuns
  <2>6. TicketsMatch'
    <3>1. ~Some({"run", "wake"}) /\ ~Some({"run", "wake"})'
      BY <1>2, <2>2 DEF Some, BodySteps
    <3> QED BY <1>1, <1>2, <1>5, <2>2, <3>1, TicketsKept DEF operation, others
  <2>7. Unused' /\ Registered' /\ Operate'
    BY <1>1, <1>2, <2>2, OperationsKept DEF Some, BodySteps, others, Stopping, cancellation
  <2> QED BY <2>3, <2>4, <2>5, <2>6, <2>7 DEF Inv
<1> QED BY <1>4, <1>5

\* The execution is finished: no ticket can still be on its way.
LEMMA FinishStep ==
    ASSUME Inv, NEW t \in Threads, Finish(t)
    PROVE  Inv'
PROOF
<1>1. /\ In(t, "finish") /\ "finish" \in BodySteps
      /\ running' = FALSE /\ executionFinished' = TRUE
      /\ Become(t, <<At("completeExecution")>>)
      /\ UNCHANGED <<resumePending, started, frame, next, awaiting, result, cancellation,
                     operation, others, hook, source, queued>>
  BY DEF Finish, BodySteps
<1>2. /\ Runs(Head(stack[t])) /\ Head(stack[t]).step = "finish"
      /\ \A c \in InProgress(stack) : c.step \in BodySteps => c = Head(stack[t])
      /\ \A c \in InProgress(stack) : ~(c.step = "resume" /\ c.op = 0)
  BY <1>1, RunnerParts
<1>3. /\ stack' \in Stacks
      /\ \A c \in InProgress(stack') :
            \/ c = At("completeExecution")
            \/ c \in InProgress(stack) /\ c.step \notin BodySteps
      /\ \A c \in InProgress(stack) : c.step \in BodySteps \/ c \in InProgress(stack')
      /\ \A i : Count(stack', TicketsOf(i)) = Count(stack, TicketsOf(i))
      /\ \A i : Count(stack', CallablesOf(i)) = Count(stack, CallablesOf(i))
      /\ Count(stack', Runners) = 0
  BY <1>1, RunnerFinishes
<1>4. At("completeExecution").step = "completeExecution"
  BY CallsMade DEF Steps
<1>5. Members'
  BY <1>1 DEF Inv, Typed, Members, result, cancellation, operation, others
<1>6. Typed'
  BY <1>3, <1>4, <1>5, TypesKept DEF Aware
<1>7. Life'
  BY <1>1, <1>2 DEF Inv, Life, Runs, result, cancellation, others
<1>8. OneRuns'
  BY <1>1, <1>3, <1>4 DEF OneRuns, BodySteps
<1>9. TicketsMatch'
  BY <1>1, <1>2, <1>3, <1>4, TicketsKept DEF Runs, operation, others
<1>10. Unused' /\ Registered' /\ Operate'
  BY <1>1, <1>2, <1>3, <1>4, OperationsKept DEF Some, BodySteps, others, Stopping, cancellation
<1> QED BY <1>6, <1>7, <1>8, <1>9, <1>10 DEF Inv

\* completeExecution publishes the end.
LEMMA CompleteExecutionStep ==
    ASSUME Inv, NEW t \in Threads, CompleteExecution(t)
    PROVE  Inv'
PROOF
<1> DEFINE h == Head(stack[t])
<1>1. /\ completed' = TRUE /\ Return(t) /\ In(t, "completeExecution")
      /\ UNCHANGED <<coroutine, settled, cancellation, operation, others, hook, source, queued>>
  BY DEF CompleteExecution
<1>2. /\ stack[t] # <<>> /\ h \in InProgress(stack) /\ h.step = "completeExecution"
      /\ \A i : Count(stack, TicketsOf(i)) \in Nat /\ Count(stack, CallablesOf(i)) \in Nat
      /\ Count(stack, Runners) \in Nat
  BY <1>1, Inside
<1>3. executionFinished
  BY <1>2 DEF Inv, OneRuns
<1>4. /\ After(h, {})
      /\ Count(stack', Runners) = Count(stack, Runners)
      /\ \A i : Count(stack', TicketsOf(i)) = Count(stack, TicketsOf(i))
      /\ \A i : Count(stack', CallablesOf(i)) = Count(stack, CallablesOf(i))
  BY <1>1, <1>2, ReturnEffect DEF AsRunner, AsTicket, AsCallable, BodySteps
<1> HIDE DEF h
<1>5. Members'
  BY <1>1 DEF Inv, Typed, Members, coroutine, cancellation, operation, others
<1>6. Typed'
  BY <1>4, <1>5, TypesKept DEF After
<1>7. Life'
  BY <1>1, <1>3 DEF Inv, Life, coroutine, cancellation, others
<1>8. OneRuns'
  BY <1>1, <1>4 DEF Inv, OneRuns, After, Runs, coroutine, operation
<1>9. TicketsMatch'
  BY <1>1, <1>2, <1>4, TicketsKept DEF After, Some, coroutine, operation, others
<1>10. Unused' /\ Registered' /\ Operate'
  BY <1>1, <1>2, <1>4, OperationsKept DEF After, Some, coroutine, others, Stopping, cancellation
<1> QED BY <1>6, <1>7, <1>8, <1>9, <1>10 DEF Inv

-----------------------------------------------------------------------------
(* requestStop.                                                            *)

\* Calls that are neither counted nor run the coroutine.
Quiet == Steps \ (BodySteps \cup {"resume", "work", "probe"})

\* A quiet call returns.
LEMMA QuietReturns ==
    ASSUME Inv, NEW t \in Threads, NEW s \in Quiet, In(t, s), Return(t)
    PROVE  /\ After(Head(stack[t]), {})
           /\ Head(stack[t]) \in InProgress(stack) /\ Head(stack[t]).step = s
           /\ Count(stack', Runners) = Count(stack, Runners)
           /\ \A i : Count(stack', TicketsOf(i)) = Count(stack, TicketsOf(i))
           /\ \A i : Count(stack', CallablesOf(i)) = Count(stack, CallablesOf(i))
PROOF
<1> DEFINE h == Head(stack[t])
<1>1. /\ stack[t] # <<>> /\ h \in InProgress(stack) /\ h.step = s
      /\ \A i : Count(stack, TicketsOf(i)) \in Nat /\ Count(stack, CallablesOf(i)) \in Nat
      /\ Count(stack, Runners) \in Nat
  BY Inside
<1>2. /\ AsRunner(h) = 0
      /\ \A i : AsTicket(h, i) = 0 /\ AsCallable(h, i) = 0
  BY <1>1 DEF AsRunner, AsTicket, AsCallable, Quiet
<1>3. /\ After(h, {})
      /\ Count(stack', Runners) = Count(stack, Runners) - AsRunner(h)
      /\ \A i : Count(stack', TicketsOf(i)) = Count(stack, TicketsOf(i)) - AsTicket(h, i)
      /\ \A i : Count(stack', CallablesOf(i)) = Count(stack, CallablesOf(i)) - AsCallable(h, i)
  BY <1>1, ReturnEffect
<1> HIDE DEF h
<1>4. /\ After(h, {}) /\ h \in InProgress(stack) /\ h.step = s
      /\ Count(stack', Runners) = Count(stack, Runners)
      /\ \A i : Count(stack', TicketsOf(i)) = Count(stack, TicketsOf(i))
      /\ \A i : Count(stack', CallablesOf(i)) = Count(stack, CallablesOf(i))
  BY <1>1, <1>2, <1>3
<1> QED BY <1>4 DEF h

\* A quiet call goes on as another quiet one.
LEMMA QuietGoesOn ==
    ASSUME Inv, NEW t \in Threads, NEW s \in Quiet, In(t, s),
           NEW a \in CallSet, a.step \in Quiet, Become(t, <<a>>)
    PROVE  /\ After(Head(stack[t]), {a})
           /\ Head(stack[t]) \in InProgress(stack) /\ Head(stack[t]).step = s
           /\ Count(stack', Runners) = Count(stack, Runners)
           /\ \A i : Count(stack', TicketsOf(i)) = Count(stack, TicketsOf(i))
           /\ \A i : Count(stack', CallablesOf(i)) = Count(stack, CallablesOf(i))
PROOF
<1> DEFINE h == Head(stack[t])
<1>1. /\ stack[t] # <<>> /\ h \in InProgress(stack) /\ h.step = s
      /\ \A i : Count(stack, TicketsOf(i)) \in Nat /\ Count(stack, CallablesOf(i)) \in Nat
      /\ Count(stack, Runners) \in Nat
  BY Inside
<1>2. /\ AsRunner(h) = 0 /\ AsRunner(a) = 0
      /\ \A i : AsTicket(h, i) = 0 /\ AsCallable(h, i) = 0
      /\ \A i : AsTicket(a, i) = 0 /\ AsCallable(a, i) = 0
  BY <1>1 DEF AsRunner, AsTicket, AsCallable, Quiet
<1>3. /\ After(h, {a})
      /\ Count(stack', Runners) = Count(stack, Runners) - AsRunner(h) + AsRunner(a)
      /\ \A i : Count(stack', TicketsOf(i))
                  = Count(stack, TicketsOf(i)) - AsTicket(h, i) + AsTicket(a, i)
      /\ \A i : Count(stack', CallablesOf(i))
                  = Count(stack, CallablesOf(i)) - AsCallable(h, i) + AsCallable(a, i)
  BY <1>1, OneEffect
<1> HIDE DEF h
<1>4. /\ After(h, {a}) /\ h \in InProgress(stack) /\ h.step = s
      /\ Count(stack', Runners) = Count(stack, Runners)
      /\ \A i : Count(stack', TicketsOf(i)) = Count(stack, TicketsOf(i))
      /\ \A i : Count(stack', CallablesOf(i)) = Count(stack, CallablesOf(i))
  BY <1>1, <1>2, <1>3
<1> QED BY <1>4 DEF h

\* Any thread requests the stop: nothing but a call that does it comes of it yet.
LEMMA RequestStopStep ==
    ASSUME Inv, NEW t \in Threads, RequestStop(t)
    PROVE  Inv'
PROOF
<1>1. /\ stops < MaxStops /\ stops' = stops + 1
      /\ Enter(t, At("cancelResult"))
      /\ UNCHANGED <<coroutine, result, cancelRequested, tokenStop, operation, others, hook,
                     source, queued>>
  BY DEF RequestStop
<1>2. At("cancelResult") \in CallSet /\ At("cancelResult").step = "cancelResult"
  BY CallsMade DEF Steps
<1>3. /\ stack' \in Stacks
      /\ InProgress(stack') = InProgress(stack) \cup {At("cancelResult")}
      /\ Count(stack', Runners) = Count(stack, Runners)
      /\ \A i : Count(stack', TicketsOf(i)) = Count(stack, TicketsOf(i))
      /\ \A i : Count(stack', CallablesOf(i)) = Count(stack, CallablesOf(i))
  BY <1>1, <1>2, EnterEffect, CallsTyped DEF AsRunner, AsTicket, AsCallable, BodySteps, Inv, Typed
<1>4. Members'
  BY <1>1, TaskCoreAssumption DEF Inv, Typed, Members, coroutine, result, operation, others
<1>5. Typed'
  BY <1>2, <1>3, <1>4, TypesKept DEF Aware
<1>6. Life' /\ OneRuns'
  BY <1>1, <1>2, <1>3, CoroutineKept DEF Inv, Life, result, operation, others, BodySteps
<1>7. TicketsMatch'
  BY <1>1, <1>2, <1>3, TicketsKept DEF Some, coroutine, operation, others
<1>8. Unused' /\ Registered' /\ Operate'
  BY <1>1, <1>2, <1>3, OperationsKept DEF Some, coroutine, others, Stopping
<1> QED BY <1>5, <1>6, <1>7, <1>8 DEF Inv

\* The result is settled as cancelled, unless there is one, and the flag is raised.
LEMMA CancelResultStep ==
    ASSUME Inv, NEW t \in Threads, CancelResult(t)
    PROVE  Inv'
PROOF
<1>1. /\ In(t, "cancelResult") /\ Become(t, <<At("stopToken")>>)
      /\ settled' = (IF settled = "no" THEN "cancelled" ELSE settled) /\ cancelRequested' = TRUE
      /\ UNCHANGED <<coroutine, completed, tokenStop, stops, operation, others, hook, source, queued>>
  BY DEF CancelResult, FirstResult
<1>2. /\ At("stopToken") \in CallSet /\ At("stopToken").step = "stopToken"
      /\ {"cancelResult", "stopToken"} \subseteq Quiet
  BY CallsMade DEF Steps, Quiet, BodySteps
<1>3. /\ After(Head(stack[t]), {At("stopToken")})
      /\ Head(stack[t]).step = "cancelResult"
      /\ Count(stack', Runners) = Count(stack, Runners)
      /\ \A i : Count(stack', TicketsOf(i)) = Count(stack, TicketsOf(i))
      /\ \A i : Count(stack', CallablesOf(i)) = Count(stack, CallablesOf(i))
  BY <1>1, <1>2, QuietGoesOn
<1>4. Members'
  BY <1>1 DEF Inv, Typed, Members, coroutine, operation, others
<1>5. Typed'
  BY <1>2, <1>3, <1>4, TypesKept DEF Aware, After
<1>6. Life' /\ OneRuns'
  BY <1>1, <1>2, <1>3, CoroutineKept DEF operation, others, BodySteps, After
<1>7. TicketsMatch'
  BY <1>1, <1>2, <1>3, TicketsKept DEF Some, coroutine, operation, others, After
<1>8. Unused' /\ Registered' /\ Operate'
  BY <1>1, <1>2, <1>3, OperationsKept DEF Some, coroutine, others, Stopping, After
<1> QED BY <1>5, <1>6, <1>7, <1>8 DEF Inv

\* The token is stopped; its callbacks are run by the first who does it.
LEMMA StopTokenStep ==
    ASSUME Inv, NEW t \in Threads, StopToken(t)
    PROVE  Inv'
PROOF
<1>1. /\ In(t, "stopToken") /\ tokenStop' = TRUE
      /\ Return(t) \/ Become(t, <<At("callbacks")>>)
      /\ UNCHANGED <<coroutine, result, cancelRequested, stops, operation, others, hook, source, queued>>
  BY DEF StopToken
<1>2. /\ At("callbacks") \in CallSet /\ At("callbacks").step = "callbacks"
      /\ {"stopToken", "callbacks"} \subseteq Quiet
  BY CallsMade DEF Steps, Quiet, BodySteps
<1>3. /\ After(Head(stack[t]), {}) \/ After(Head(stack[t]), {At("callbacks")})
      /\ Head(stack[t]).step = "stopToken"
      /\ Count(stack', Runners) = Count(stack, Runners)
      /\ \A i : Count(stack', TicketsOf(i)) = Count(stack, TicketsOf(i))
      /\ \A i : Count(stack', CallablesOf(i)) = Count(stack, CallablesOf(i))
  BY <1>1, <1>2, QuietGoesOn, QuietReturns
<1>4. /\ stack' \in Stacks
      /\ \A c \in InProgress(stack') : c.step = "callbacks" \/ c \in InProgress(stack)
      /\ \A c \in InProgress(stack) : c.step = "stopToken" \/ c \in InProgress(stack')
  BY <1>2, <1>3 DEF After
<1>5. Members'
  BY <1>1 DEF Inv, Typed, Members, coroutine, result, operation, others
<1>6. Typed'
  BY <1>4, <1>5, TypesKept DEF Aware
<1>7. Life' /\ OneRuns'
  BY <1>1, <1>3, <1>4, CoroutineKept DEF Inv, Life, result, operation, others, BodySteps
<1>8. TicketsMatch'
  BY <1>1, <1>3, <1>4, TicketsKept DEF Some, coroutine, operation, others
<1>9. Unused' /\ Registered' /\ Operate'
  BY <1>1, <1>3, <1>4, OperationsKept DEF Some, coroutine, others, Stopping
<1> QED BY <1>6, <1>7, <1>8, <1>9 DEF Inv

\* A stop_callback cancels its operation, on which the coroutine still waits or which
\* it is about to leave.
LEMMA RunCallbackStep ==
    ASSUME Inv, NEW t \in Threads, RunCallback(t)
    PROVE  Inv'
PROOF
<1>1. /\ In(t, "callbacks")
      /\ UNCHANGED <<coroutine, result, cancellation, operation, others, source, queued>>
  BY DEF RunCallback
<1>2. /\ At("callbacks") \in CallSet /\ At("callbacks").step = "callbacks"
      /\ "callbacks" \in Quiet
  BY CallsMade DEF Steps, Quiet, BodySteps
<1>3. CASE Return(t) /\ hook' = hook
  <2>1. /\ After(Head(stack[t]), {})
        /\ Head(stack[t]).step = "callbacks"
        /\ Count(stack', Runners) = Count(stack, Runners)
        /\ \A i : Count(stack', TicketsOf(i)) = Count(stack, TicketsOf(i))
        /\ \A i : Count(stack', CallablesOf(i)) = Count(stack, CallablesOf(i))
    BY <1>1, <1>2, <1>3, QuietReturns
  <2>2. Members'
    BY <1>1, <1>3 DEF Inv, Typed, Members, coroutine, result, cancellation, operation, others
  <2>3. Typed'
    BY <2>1, <2>2, TypesKept DEF After
  <2>4. Life' /\ OneRuns'
    BY <1>1, <2>1, CoroutineKept DEF Inv, Life, result, cancellation, operation, others, After
  <2>5. TicketsMatch'
    BY <1>1, <2>1, TicketsKept DEF Some, coroutine, operation, others, After
  <2>6. Unused' /\ Registered' /\ Operate'
    BY <1>1, <1>3, <2>1, OperationsKept DEF Some, coroutine, others, Stopping, cancellation, After
  <2> QED BY <2>3, <2>4, <2>5, <2>6 DEF Inv
<1>4. CASE ~(Return(t) /\ hook' = hook)
  <2>1. PICK i \in Ops :
           /\ hook[i] = "on"
           /\ hook' = [hook EXCEPT ![i] = t]
           /\ Become(t, <<Call("cancel", i, "none"), Call("called", i, "none"), At("callbacks")>>)
    BY <1>4 DEF RunCallback
  <2>2. PICK a, b : a = Call("cancel", i, "none") /\ b = Call("called", i, "none")
    OBVIOUS
  <2>3. /\ a \in CallSet /\ a.step = "cancel" /\ a.op = i
        /\ b \in CallSet /\ b.step = "called" /\ b.op = i
    <3>1. /\ Call("cancel", i, "none") \in CallSet /\ Call("called", i, "none") \in CallSet
          /\ Call("cancel", i, "none").step = "cancel" /\ Call("called", i, "none").step = "called"
          /\ Call("cancel", i, "none").op = i /\ Call("called", i, "none").op = i
      <4>1. {"cancel", "called"} \subseteq Steps /\ "none" \in Errors /\ i \in Ops \cup {0}
        BY <2>1 DEF Steps, Errors
      <4> QED BY <4>1, CallsMade
    <3> QED BY <2>2, <3>1
  <2>4. stack[t] # <<>> /\ Head(stack[t]).step = "callbacks"
    BY <1>1, Inside
  <2>5. /\ After(Head(stack[t]), {a, b, At("callbacks")})
        /\ Count(stack', Runners) = Count(stack, Runners)
        /\ \A j : Count(stack', TicketsOf(j)) = Count(stack, TicketsOf(j))
        /\ \A j : Count(stack', CallablesOf(j)) = Count(stack, CallablesOf(j))
    BY <1>2, <2>1, <2>2, <2>3, <2>4, ThreeEffect
  <2>6. /\ stack' \in Stacks
        /\ \A c \in InProgress(stack') :
              c \in InProgress(stack) \/ c = a \/ c = b \/ c.step = "callbacks"
        /\ \A c \in InProgress(stack) : c.step = "callbacks" \/ c \in InProgress(stack')
    BY <1>2, <2>4, <2>5 DEF After
  <2>7. Members'
    BY <1>1, <2>1 DEF Inv, Typed, Members, coroutine, result, cancellation, operation, others
  <2>8. Typed'
    BY <2>3, <2>6, <2>7, TypesKept DEF Aware
  <2>9. Life' /\ OneRuns'
    BY <1>1, <2>3, <2>5, <2>6, CoroutineKept
    DEF Inv, Life, result, cancellation, operation, others, BodySteps
  <2>10. TicketsMatch'
    BY <1>1, <2>3, <2>5, <2>6, TicketsKept DEF Some, coroutine, operation, others
  <2>11. claimed[i] \/ awaiting = i
    BY <2>1 DEF Inv, Registered, Some, OneRuns, Runs, BodySteps
  <2>12. Unused' /\ Registered'
    <3>1. Some({"unhook"}) => Some({"unhook"})'
      BY <2>6 DEF Some
    <3> QED BY <1>1, <2>1, <2>6, <3>1
            DEF Inv, Typed, Members, Unused, Registered, Outlives, coroutine, operation, others
  <2>13. Operate'
    <3>1. \A c \in InProgress(stack) : Completes(c) => Completes(c)'
      BY <1>1 DEF Completes, coroutine, operation, others, Stopping, cancellation
    <3>2. \A j : /\ None("complete", j) => None("complete", j)'
                 /\ None("arm", j) => None("arm", j)'
      BY <2>3, <2>6 DEF None
    <3>3. \A c \in InProgress(stack) : Executes(c) => Executes(c)'
      BY <1>1, <3>2 DEF Executes, coroutine, operation
    <3> QED BY <1>1, <2>3, <2>5, <2>6, <2>11, <3>1, <3>2, <3>3 DEF Inv, Operate, coroutine, operation
  <2> QED BY <2>8, <2>9, <2>10, <2>12, <2>13 DEF Inv
<1> QED BY <1>3, <1>4

\* A stop_callback has returned and is deregistered.
LEMMA CallbackDoneStep ==
    ASSUME Inv, NEW t \in Threads, CallbackDone(t)
    PROVE  Inv'
PROOF
<1> DEFINE h == Head(stack[t])
<1>1. /\ In(t, "called") /\ Return(t)
      /\ hook' = [hook EXCEPT ![h.op] = "off"]
      /\ UNCHANGED <<coroutine, result, cancellation, operation, others, source, queued>>
  BY DEF CallbackDone, Op
<1>2. "called" \in Quiet
  BY DEF Quiet, Steps, BodySteps
<1>3. /\ After(h, {}) /\ h.step = "called"
      /\ Count(stack', Runners) = Count(stack, Runners)
      /\ \A i : Count(stack', TicketsOf(i)) = Count(stack, TicketsOf(i))
      /\ \A i : Count(stack', CallablesOf(i)) = Count(stack, CallablesOf(i))
  BY <1>1, <1>2, QuietReturns
<1> HIDE DEF h
<1>4. /\ stack' \in Stacks
      /\ \A c \in InProgress(stack') : c \in InProgress(stack)
      /\ \A c \in InProgress(stack) : c.step = "called" \/ c \in InProgress(stack')
  BY <1>3 DEF After
<1>5. Members'
  BY <1>1 DEF Inv, Typed, Members, coroutine, result, cancellation, operation, others
<1>6. Typed'
  BY <1>4, <1>5, TypesKept
<1>7. Life' /\ OneRuns'
  BY <1>1, <1>3, <1>4, CoroutineKept DEF Inv, Life, result, cancellation, operation, others
<1>8. TicketsMatch'
  BY <1>1, <1>3, <1>4, TicketsKept DEF Some, coroutine, operation, others
<1>9. Unused' /\ Registered'
  <2>1. Some({"unhook"}) => Some({"unhook"})'
    BY <1>4 DEF Some
  <2> QED BY <1>1, <2>1 DEF Inv, Typed, Members, Unused, Registered, Outlives, coroutine, operation, others
<1>10. Operate'
  BY <1>1, <1>3, <1>4, OperateKept DEF coroutine, others, Stopping, cancellation
<1> QED BY <1>6, <1>7, <1>8, <1>9, <1>10 DEF Inv

-----------------------------------------------------------------------------
(* operation::complete and cancel, and the dispatch of the ticket.         *)

\* A quiet call that becomes the delivery of a ticket.
LEMMA QuietDelivers ==
    ASSUME Inv, NEW t \in Threads, NEW s \in Quiet, In(t, s),
           NEW i \in Ops, Become(t, <<Call("resume", i, "none")>>)
    PROVE  /\ stack' \in Stacks
           /\ \A c \in InProgress(stack') : (c.step = "resume" /\ c.op = i) \/ c \in InProgress(stack)
           /\ \A c \in InProgress(stack) : c.step = s \/ c \in InProgress(stack')
           /\ Count(stack', Runners) = Count(stack, Runners)
           /\ \A j : Count(stack', TicketsOf(j)) = Count(stack, TicketsOf(j)) + (IF j = i THEN 1 ELSE 0)
           /\ \A j : Count(stack', CallablesOf(j)) = Count(stack, CallablesOf(j))
PROOF
<1> DEFINE h == Head(stack[t])
<1>1. PICK a : a = Call("resume", i, "none")
  OBVIOUS
<1>2. a \in CallSet /\ a.step = "resume" /\ a.op = i
  <2>1. "resume" \in Steps /\ "none" \in Errors /\ i \in Ops \cup {0}
    BY DEF Steps, Errors
  <2> QED BY <1>1, <2>1, CallsMade
<1>3. /\ stack[t] # <<>> /\ h \in InProgress(stack) /\ h.step = s
      /\ \A j : Count(stack, TicketsOf(j)) \in Nat /\ Count(stack, CallablesOf(j)) \in Nat
      /\ Count(stack, Runners) \in Nat
  BY Inside
<1>4. /\ AsRunner(h) = 0 /\ AsRunner(a) = 0
      /\ \A j : AsTicket(h, j) = 0 /\ AsTicket(a, j) = IF j = i THEN 1 ELSE 0
      /\ \A j : AsCallable(h, j) = 0 /\ AsCallable(a, j) = 0
  BY <1>2, <1>3 DEF AsRunner, AsTicket, AsCallable, Quiet, BodySteps
<1>5. /\ After(h, {a})
      /\ Count(stack', Runners) = Count(stack, Runners) - AsRunner(h) + AsRunner(a)
      /\ \A j : Count(stack', TicketsOf(j))
                  = Count(stack, TicketsOf(j)) - AsTicket(h, j) + AsTicket(a, j)
      /\ \A j : Count(stack', CallablesOf(j))
                  = Count(stack, CallablesOf(j)) - AsCallable(h, j) + AsCallable(a, j)
  BY <1>1, <1>2, <1>3, OneEffect
<1> HIDE DEF h
<1>6. /\ Count(stack', Runners) = Count(stack, Runners)
      /\ \A j : Count(stack', TicketsOf(j)) = Count(stack, TicketsOf(j)) + (IF j = i THEN 1 ELSE 0)
      /\ \A j : Count(stack', CallablesOf(j)) = Count(stack, CallablesOf(j))
  BY <1>3, <1>4, <1>5
<1>7. /\ stack' \in Stacks
      /\ \A c \in InProgress(stack') : (c.step = "resume" /\ c.op = i) \/ c \in InProgress(stack)
      /\ \A c \in InProgress(stack) : c.step = s \/ c \in InProgress(stack')
  BY <1>2, <1>3, <1>5 DEF After
<1> QED BY <1>6, <1>7

\* The operation is claimed and its one ticket is made: the coroutine still waits on
\* it, and no callable runs for it.
LEMMA DispatchKeeps ==
    ASSUME Inv, NEW t \in Threads, NEW s \in {"complete", "cancel"}, In(t, s),
           NEW i \in Ops, ~claimed[i], awaiting = i,
           \A c \in InProgress(stack) : c.step \in {"probe", "work"} => c.op # i,
           NEW e \in Errors, e = "none" /\ Kinds[i] = "result" => target[i] # "no",
           Dispatch(t, i, e),
           UNCHANGED <<coroutine, result, cancellation, executing, others, hook, source>>
    PROVE  Inv'
PROOF
<1>1. s \in Quiet
  BY DEF Quiet, Steps, BodySteps
<1>2. PICK f \in Errors :
         /\ claimed' = [claimed EXCEPT ![i] = TRUE]
         /\ failure' = [failure EXCEPT ![i] = f]
         /\ f = "none" /\ Kinds[i] = "result" => target[i] # "no"
         /\ \/ Become(t, <<Call("resume", i, "none")>>) /\ queued' = queued
            \/ Return(t) /\ queued' = queued \cup {i}
  <2>1. "rejected" \in Errors /\ "rejected" # "none"
    BY DEF Errors
  <2> QED BY <2>1 DEF Dispatch, Claim
<1>3. /\ \A j \in Ops : claimed'[j] <=> (claimed[j] \/ j = i)
      /\ \A j \in Ops : failure'[j] = IF j = i THEN f ELSE failure[j]
      /\ claimed' \in [Ops -> BOOLEAN]
      /\ failure' \in [Ops -> {"none", "error", "cancelled", "rejected"}]
      /\ i <= next /\ i \in Nat /\ i # 0
  <2>1. claimed \in [Ops -> BOOLEAN] /\ failure \in [Ops -> {"none", "error", "cancelled", "rejected"}]
    BY DEF Inv, Typed, Members
  <2>2. next = i /\ i \in Nat /\ i # 0
    BY TaskCoreAssumption DEF Inv, Typed, Members, Ops
  <2> QED BY <1>2, <2>1, <2>2 DEF Errors
<1>4. /\ stack' \in Stacks
      /\ \A c \in InProgress(stack') :
            \/ c \in InProgress(stack)
            \/ c.step = "resume" /\ c.op = i /\ queued' = queued
      /\ \A c \in InProgress(stack) : c.step = s \/ c \in InProgress(stack')
      /\ Count(stack', Runners) = Count(stack, Runners)
      /\ \A j : Count(stack', TicketsOf(j))
                  = Count(stack, TicketsOf(j)) + (IF j = i /\ i \notin queued' THEN 1 ELSE 0)
      /\ \A j : Count(stack', CallablesOf(j)) = Count(stack, CallablesOf(j))
      /\ i \notin queued /\ queued' \in {queued, queued \cup {i}}
      /\ Count(stack, TicketsOf(i)) = 0 /\ ~Deferred(i)
  <2>1. TicketCount(i) = 0 /\ Count(stack, TicketsOf(i)) \in Nat
    BY CallsTyped DEF Inv, TicketsMatch, Typed
  <2>2. i \notin queued /\ Count(stack, TicketsOf(i)) = 0 /\ ~Deferred(i)
    BY <2>1 DEF TicketCount
  <2>3. CASE Become(t, <<Call("resume", i, "none")>>) /\ queued' = queued
    BY <1>1, <2>2, <2>3, QuietDelivers
  <2>4. CASE Return(t) /\ queued' = queued \cup {i}
    <3>1. /\ After(Head(stack[t]), {}) /\ Head(stack[t]).step = s
          /\ Count(stack', Runners) = Count(stack, Runners)
          /\ \A j : Count(stack', TicketsOf(j)) = Count(stack, TicketsOf(j))
          /\ \A j : Count(stack', CallablesOf(j)) = Count(stack, CallablesOf(j))
      BY <1>1, <2>4, QuietReturns
    <3>2. \A j : Count(stack, TicketsOf(j)) \in Nat
      BY CallsTyped DEF Inv, Typed
    <3> QED BY <2>2, <2>4, <3>1, <3>2 DEF After
  <2> QED BY <1>2, <2>3, <2>4
<1>5. Members'
  BY <1>3, <1>4 DEF Inv, Typed, Members, coroutine, result, cancellation, others
<1>6. Typed'
  BY <1>4, <1>5, TypesKept DEF Aware
<1>7. Life' /\ OneRuns'
  BY <1>3, <1>4, CoroutineKept DEF Inv, Life, result, cancellation, others, BodySteps
<1>8. TicketsMatch'
  <2>1. \A j \in Ops : Deferred(j)' <=> Deferred(j)
    BY <1>4 DEF Deferred, Some, coroutine
  <2>2. ASSUME NEW j \in Ops
        PROVE  TicketCount(j)' = IF claimed'[j] /\ awaiting' = j THEN 1 ELSE 0
    <3>1. CASE j = i
      BY <1>3, <1>4, <2>1, <3>1 DEF TicketCount, coroutine
    <3>2. CASE j # i
      <4>1. TicketCount(j)' = TicketCount(j)
        <5>1. /\ Count(stack', TicketsOf(j)) = Count(stack, TicketsOf(j)) + 0
              /\ Count(stack, TicketsOf(j)) \in Nat
              /\ j \in queued' <=> j \in queued
          BY <1>4, <3>2, CallsTyped DEF Inv, Typed
        <5> QED BY <2>1, <5>1 DEF TicketCount
      <4> QED BY <1>3, <3>2, <4>1 DEF Inv, TicketsMatch, coroutine
    <3> QED BY <3>1, <3>2
  <2>3. \A c \in InProgress(stack') : c \in TicketsOf(0) => c \in InProgress(stack)
    BY <1>3, <1>4 DEF TicketsOf
  <2>4. Count(stack', TicketsOf(0)) = Count(stack, TicketsOf(0))
    BY <1>3, <1>4, CallsTyped DEF Inv, Typed
  <2> QED BY <2>2, <2>3, <2>4 DEF Inv, TicketsMatch, coroutine, others
<1>9. Unused' /\ Registered'
  <2>1. Some({"unhook"}) => Some({"unhook"})'
    BY <1>4 DEF Some
  <2>2. Unused'
    BY <1>3, <1>4, TaskCoreAssumption DEF Inv, Typed, Members, Unused, coroutine, Ops
  <2>3. Registered'
    BY <1>2, <1>3, <2>1 DEF Inv, Registered, Outlives, coroutine, others
  <2> QED BY <2>2, <2>3
<1>10. Operate'
  <2>1. \A c \in InProgress(stack) : c.step = "complete" => Completes(c)'
    BY <1>3 DEF Inv, Operate, Completes, coroutine, others, Stopping, cancellation, Typed, Aware
  <2>2. \A j : /\ None("complete", j) => None("complete", j)'
               /\ None("arm", j) => None("arm", j)'
    BY <1>4 DEF None
  <2>3. \A c \in InProgress(stack) : c.step \in {"probe", "work"} => Executes(c)'
    BY <1>3, <2>2 DEF Inv, Operate, Executes, coroutine, Typed, Aware
  <2>4. \A c \in InProgress(stack) : c.step = "cancel" => claimed'[c.op] \/ awaiting' = c.op
    BY <1>3 DEF Inv, Operate, coroutine, Typed, Aware
  <2> QED BY <1>4, <2>1, <2>2, <2>3, <2>4 DEF Inv, Operate
<1> QED BY <1>6, <1>7, <1>8, <1>9, <1>10 DEF Inv

\* Nothing happens to an operation that is claimed, or whose callable runs.
LEMMA QuietEnd ==
    ASSUME Inv, NEW t \in Threads, NEW s \in Quiet, In(t, s), Return(t),
           UNCHANGED <<coroutine, result, cancellation, operation, others, hook, source, queued>>
    PROVE  Inv'
PROOF
<1>1. /\ After(Head(stack[t]), {}) /\ Head(stack[t]).step = s
      /\ Count(stack', Runners) = Count(stack, Runners)
      /\ \A i : Count(stack', TicketsOf(i)) = Count(stack, TicketsOf(i))
      /\ \A i : Count(stack', CallablesOf(i)) = Count(stack, CallablesOf(i))
  BY QuietReturns
<1>2. Members'
  BY DEF Inv, Typed, Members, coroutine, result, cancellation, operation, others
<1>3. Typed'
  BY <1>1, <1>2, TypesKept DEF After
<1>4. Life' /\ OneRuns'
  BY <1>1, CoroutineKept DEF Inv, Life, result, cancellation, operation, others, After
<1>5. TicketsMatch'
  BY <1>1, TicketsKept DEF Some, coroutine, operation, others, After, Quiet, BodySteps
<1>6. Unused' /\ Registered' /\ Operate'
  BY <1>1, OperationsKept DEF Some, coroutine, others, Stopping, cancellation, After, Quiet, BodySteps
<1> QED BY <1>3, <1>4, <1>5, <1>6 DEF Inv

\* complete claims the operation and dispatches its ticket, or comes too late.
LEMMA CompleteStep ==
    ASSUME Inv, NEW t \in Threads, Complete(t)
    PROVE  Inv'
PROOF
<1> DEFINE h == Head(stack[t])
           i == h.op
<1>1. /\ In(t, "complete")
      /\ UNCHANGED <<coroutine, result, cancellation, executing, others, hook, source>>
  BY DEF Complete
<1>2. h \in InProgress(stack) /\ h.step = "complete"
  BY <1>1, Inside
<1>3. i \in Ops /\ h.err \in Errors /\ Completes(h)
  BY <1>2 DEF Inv, Typed, Aware, Operate
<1>4. CASE ~claimed[i]
  <2>1. Dispatch(t, i, h.err)
    BY <1>4 DEF Complete, CanComplete, Op
  <2>2. awaiting = i /\ (h.err = "none" /\ Kinds[i] = "result" => target[i] # "no")
    BY <1>3, <1>4 DEF Completes
  <2>3. \A c \in InProgress(stack) : c.step \in {"probe", "work"} => c.op # i
    BY <1>2 DEF Inv, Operate, Executes, None
  <2> HIDE DEF h
  <2> QED BY <1>1, <1>3, <1>4, <2>1, <2>2, <2>3, DispatchKeeps
<1>5. CASE claimed[i]
  <2>1. Return(t) /\ UNCHANGED <<claimed, failure, queued>>
    BY <1>5 DEF Complete, CanComplete, Op
  <2>2. "complete" \in Quiet
    BY DEF Quiet, Steps, BodySteps
  <2> QED BY <1>1, <2>1, <2>2, QuietEnd DEF operation
<1> QED BY <1>4, <1>5

\* cancel does so too, unless a callable runs for the operation.
LEMMA CancelStep ==
    ASSUME Inv, NEW t \in Threads, Cancel(t)
    PROVE  Inv'
PROOF
<1> DEFINE h == Head(stack[t])
           i == h.op
<1>1. /\ In(t, "cancel")
      /\ UNCHANGED <<coroutine, result, cancellation, executing, others, hook, source>>
  BY DEF Cancel
<1>2. h \in InProgress(stack) /\ h.step = "cancel"
  BY <1>1, Inside
<1>3. i \in Ops /\ (claimed[i] \/ awaiting = i)
  BY <1>2 DEF Inv, Typed, Aware, Operate
<1>4. CASE ~claimed[i] /\ ~executing[i]
  <2>1. Dispatch(t, i, "cancelled") /\ "cancelled" \in Errors /\ "cancelled" # "none"
    BY <1>4 DEF Cancel, CanCancel, Op, Errors
  <2>2. \A c \in InProgress(stack) : c.step \in {"probe", "work"} => c.op # i
    BY <1>4 DEF Inv, Operate, Executes
  <2> HIDE DEF h
  <2> QED BY <1>1, <1>3, <1>4, <2>1, <2>2, DispatchKeeps
<1>5. CASE ~(~claimed[i] /\ ~executing[i])
  <2>1. Return(t) /\ UNCHANGED <<claimed, failure, queued>>
    BY <1>5 DEF Cancel, CanCancel, Op
  <2>2. "cancel" \in Quiet
    BY DEF Quiet, Steps, BodySteps
  <2> QED BY <1>1, <2>1, <2>2, QuietEnd DEF operation
<1> QED BY <1>4, <1>5

\* A queued ticket is delivered, or dropped and then delivered all the same.
LEMMA DeliverStep ==
    ASSUME Inv, NEW t \in Threads, NEW i \in Ops, Deliver(t, i)
    PROVE  Inv'
PROOF
<1>1. PICK f \in {failure, [failure EXCEPT ![i] = "rejected"]} :
         /\ failure' = f
         /\ i \in queued /\ queued' = queued \ {i}
         /\ Enter(t, Call("resume", i, "none"))
         /\ UNCHANGED <<coroutine, result, cancellation, claimed, executing, others, hook, source>>
  BY DEF Deliver
<1>2. PICK a : a = Call("resume", i, "none")
  OBVIOUS
<1>3. a \in CallSet /\ a.step = "resume" /\ a.op = i /\ i # 0
  <2>1. "resume" \in Steps /\ "none" \in Errors /\ i \in Ops \cup {0} /\ i # 0
    BY TaskCoreAssumption DEF Steps, Errors, Ops
  <2> QED BY <1>2, <2>1, CallsMade
<1>4. /\ stack' \in Stacks
      /\ InProgress(stack') = InProgress(stack) \cup {a}
      /\ Count(stack', Runners) = Count(stack, Runners)
      /\ \A j : Count(stack', TicketsOf(j)) = Count(stack, TicketsOf(j)) + (IF j = i THEN 1 ELSE 0)
      /\ \A j : Count(stack', CallablesOf(j)) = Count(stack, CallablesOf(j))
      /\ \A j : Count(stack, TicketsOf(j)) \in Nat
  <2>1. /\ \A j : Count(stack, TicketsOf(j)) \in Nat /\ Count(stack, CallablesOf(j)) \in Nat
        /\ Count(stack, Runners) \in Nat
    BY CallsTyped DEF Inv, Typed
  <2> QED BY <1>1, <1>2, <1>3, <2>1, EnterEffect DEF AsRunner, AsTicket, AsCallable, BodySteps
<1>5. claimed[i] /\ awaiting = i
  <2>1. TicketCount(i) # 0
    BY <1>1, <1>4 DEF TicketCount
  <2> QED BY <2>1 DEF Inv, TicketsMatch
<1>6. \A j \in Ops : failure'[j] = "none" => failure[j] = "none"
  BY <1>1 DEF Inv, Typed, Members
<1>7. Members'
  <2>1. failure' \in [Ops -> {"none", "error", "cancelled", "rejected"}]
    BY <1>1 DEF Inv, Typed, Members
  <2>2. \A j \in Ops : failure'[j] # "none" => claimed[j]
    BY <1>1, <1>5 DEF Inv, Typed, Members
  <2> QED BY <1>1, <2>1, <2>2 DEF Inv, Typed, Members, coroutine, result, cancellation, others
<1>8. Typed'
  BY <1>3, <1>4, <1>7, TypesKept DEF Aware
<1>9. Life' /\ OneRuns'
  BY <1>1, <1>3, <1>4, CoroutineKept DEF Inv, Life, result, cancellation, others, BodySteps
<1>10. TicketsMatch'
  <2>1. \A j \in Ops : Deferred(j)' <=> Deferred(j)
    BY <1>1, <1>3, <1>4 DEF Deferred, Some, coroutine
  <2>2. \A j \in Ops : TicketCount(j)' = TicketCount(j)
    BY <1>1, <1>4, <2>1 DEF TicketCount
  <2>3. \A c \in InProgress(stack') : c \in TicketsOf(0) => c \in InProgress(stack)
    BY <1>3, <1>4 DEF TicketsOf
  <2>4. Count(stack', TicketsOf(0)) = Count(stack, TicketsOf(0))
    BY <1>3, <1>4
  <2> QED BY <1>1, <2>2, <2>3, <2>4 DEF Inv, TicketsMatch, coroutine, others
<1>11. Unused' /\ Registered'
  <2>1. Some({"unhook"}) => Some({"unhook"})'
    BY <1>4 DEF Some
  <2> QED BY <1>1, <1>6, <2>1 DEF Inv, Unused, Registered, Outlives, coroutine, others
<1>12. Operate'
  <2>1. \A c \in InProgress(stack) : Completes(c) => Completes(c)'
    BY <1>1 DEF Completes, coroutine, others, Stopping, cancellation
  <2>2. \A j : /\ None("complete", j) => None("complete", j)'
               /\ None("arm", j) => None("arm", j)'
    BY <1>3, <1>4 DEF None
  <2>3. \A c \in InProgress(stack) : Executes(c) => Executes(c)'
    BY <1>1, <2>2 DEF Executes, coroutine
  <2> QED BY <1>1, <1>3, <1>4, <2>1, <2>2, <2>3 DEF Inv, Operate, coroutine
<1> QED BY <1>8, <1>9, <1>10, <1>11, <1>12 DEF Inv

\* The first resume.
LEMMA SpawnStep ==
    ASSUME Inv, NEW t \in Threads, Spawn(t)
    PROVE  Inv'
PROOF
<1>1. /\ ~spawned /\ spawned' = TRUE /\ Enter(t, At("resume"))
      /\ UNCHANGED <<coroutine, result, cancellation, operation, hook, source, target, queued>>
  BY DEF Spawn
<1>2. PICK a : a = At("resume")
  OBVIOUS
<1>3. a \in CallSet /\ a.step = "resume" /\ a.op = 0
  BY <1>2, CallsMade DEF Steps
<1>4. /\ stack' \in Stacks
      /\ InProgress(stack') = InProgress(stack) \cup {a}
      /\ Count(stack', Runners) = Count(stack, Runners)
      /\ \A j : Count(stack', TicketsOf(j)) = Count(stack, TicketsOf(j)) + (IF j = 0 THEN 1 ELSE 0)
      /\ \A j : Count(stack', CallablesOf(j)) = Count(stack, CallablesOf(j))
      /\ \A j : Count(stack, TicketsOf(j)) \in Nat
  <2>1. /\ \A j : Count(stack, TicketsOf(j)) \in Nat /\ Count(stack, CallablesOf(j)) \in Nat
        /\ Count(stack, Runners) \in Nat
    BY CallsTyped DEF Inv, Typed
  <2> QED BY <1>1, <1>2, <1>3, <2>1, EnterEffect DEF AsRunner, AsTicket, AsCallable, BodySteps
<1>5. Members'
  BY <1>1 DEF Inv, Typed, Members, coroutine, result, cancellation, operation
<1>6. Typed'
  BY <1>3, <1>4, <1>5, TypesKept DEF Aware
<1>7. Life' /\ OneRuns'
  BY <1>1, <1>3, <1>4, CoroutineKept DEF Inv, Life, result, cancellation, operation, BodySteps
<1>8. TicketsMatch'
  <2>1. Count(stack, TicketsOf(0)) = 0
    BY <1>1, CountedIsThere DEF Inv, TicketsMatch, Typed
  <2>2. Count(stack', TicketsOf(0)) = 1
    BY <1>4, <2>1
  <2>3. \A j \in Ops : j # 0 /\ (Deferred(j)' <=> Deferred(j))
    BY <1>1, <1>3, <1>4, TaskCoreAssumption DEF Deferred, Some, coroutine, Ops
  <2>4. \A j \in Ops : TicketCount(j)' = TicketCount(j)
    BY <1>1, <1>4, <2>3 DEF TicketCount
  <2>5. spawned' /\ ~started' /\ ~running'
    BY <1>1 DEF Inv, Life, coroutine
  <2> QED BY <1>1, <2>2, <2>4, <2>5 DEF Inv, TicketsMatch, coroutine, operation
<1>9. Unused' /\ Registered' /\ Operate'
  BY <1>1, <1>3, <1>4, OperationsKept DEF Some, coroutine, Stopping, cancellation
<1> QED BY <1>6, <1>7, <1>8, <1>9 DEF Inv

-----------------------------------------------------------------------------
(* The co_awaits of the body.                                              *)

\* A handle whose task has its result: no suspension.
LEMMA AwaitReadyStep ==
    ASSUME Inv, NEW t \in Threads, AwaitReady(t)
    PROVE  Inv'
PROOF
<1>1. /\ In(t, "body") /\ {"body", "settle"} \subseteq BodySteps
      /\ next + 1 \in Ops /\ next' = next + 1
      /\ UNCHANGED <<running, resumePending, executionFinished, started, frame, awaiting, result,
                     cancellation, operation, others, hook, source, queued>>
  BY DEF AwaitReady, BodySteps
<1>2. PICK a \in {At("body"), Call("settle", 0, "error")} : Become(t, <<a>>)
  BY DEF AwaitReady
<1>3. a \in CallSet /\ a.step \in {"body", "settle"} /\ (a.step = "settle" => a.err = "error")
  <2>1. {"body", "settle"} \subseteq Steps /\ "error" \in Errors
    BY DEF Steps, BodySteps, Errors
  <2> QED BY <1>2, <2>1, CallsMade
<1>4. /\ Runs(Head(stack[t])) /\ Head(stack[t]).step = "body"
      /\ \A c \in InProgress(stack) : c.step \in BodySteps => c = Head(stack[t])
      /\ \A c \in InProgress(stack) : ~(c.step = "resume" /\ c.op = 0)
  BY <1>1, RunnerParts
<1>5. /\ stack' \in Stacks /\ a \in InProgress(stack')
      /\ \A c \in InProgress(stack') : c = a \/ (c \in InProgress(stack) /\ c.step \notin BodySteps)
      /\ \A c \in InProgress(stack) : c.step \in BodySteps \/ c \in InProgress(stack')
      /\ \A i : Count(stack', TicketsOf(i)) = Count(stack, TicketsOf(i))
      /\ \A i : Count(stack', CallablesOf(i)) = Count(stack, CallablesOf(i))
      /\ Runs(a)' /\ (executionFinished => executionFinished') => OneRuns'
  BY <1>1, <1>2, <1>3, RunnerMoves
<1>6. awaiting = 0 /\ started /\ next \in Nat /\ Len(Kinds) \in Nat
  BY <1>4, TaskCoreAssumption DEF Runs, Inv, Typed, Members
<1>7. Members'
  <2>1. next' \in 0 .. Len(Kinds) /\ awaiting' = 0
    BY <1>1, <1>6 DEF Ops
  <2> QED BY <1>1, <2>1 DEF Inv, Typed, Members, result, cancellation, operation, others
<1>8. Typed'
  BY <1>3, <1>5, <1>7, TypesKept DEF Aware, BodySteps
<1>9. Life'
  BY <1>1, <1>6 DEF Inv, Life, result, cancellation, others
<1>10. OneRuns'
  <2>1. Runs(a)'
    BY <1>1, <1>3, <1>4 DEF Runs, result
  <2> QED BY <1>1, <1>5, <2>1
<1>11. TicketsMatch'
  BY <1>1, <1>4, <1>5, <1>3, <1>6, TicketsKept DEF operation, others
<1>12. Unused' /\ Registered'
  <2>1. ~Some({"unhook"})
    BY <1>4 DEF Some, BodySteps
  <2>2. \A i \in Ops : i # 0 /\ i \in Nat
    BY TaskCoreAssumption DEF Ops
  <2>3. Unused'
    BY <1>1, <1>6, <2>2 DEF Inv, Unused, operation
  <2>4. Registered'
    BY <1>1, <1>6, <2>1, <2>2 DEF Inv, Registered, Outlives, operation, others
  <2> QED BY <2>3, <2>4
<1>13. Operate'
  BY <1>1, <1>3, <1>4, <1>5, OperateKept DEF BodySteps, others, Stopping, cancellation
<1> QED BY <1>8, <1>9, <1>10, <1>11, <1>12, <1>13 DEF Inv

\* A new operation: nobody knows it but the stop_callback.
LEMMA SuspendStep ==
    ASSUME Inv, NEW t \in Threads, Suspend(t)
    PROVE  Inv'
PROOF
<1>1. PICK i : i = next + 1
  OBVIOUS
<1>2. /\ In(t, "body") /\ {"body", "arm"} \subseteq BodySteps
      /\ i \in Ops /\ target[i] = "no" /\ next' = i /\ awaiting' = i
      /\ UNCHANGED <<running, resumePending, executionFinished, started, frame, result,
                     cancellation, operation, others, source, queued>>
  BY <1>1 DEF Suspend, BodySteps
<1>3. PICK a, b : a = Call("arm", i, "none") /\ b = Call("cancel", i, "none")
  OBVIOUS
<1>4. /\ a \in CallSet /\ a.step = "arm" /\ a.op = i
      /\ b \in CallSet /\ b.step = "cancel" /\ b.op = i
  <2>1. {"arm", "cancel"} \subseteq Steps /\ "none" \in Errors /\ i \in Ops \cup {0}
    BY <1>2 DEF Steps, BodySteps, Errors
  <2> QED BY <1>3, <2>1, CallsMade
<1>5. \/ Become(t, <<b, a>>) /\ hook' = hook
      \/ Become(t, <<a>>) /\ hook' = [hook EXCEPT ![i] = "on"]
  BY <1>1, <1>3 DEF Suspend
<1>6. /\ Runs(Head(stack[t])) /\ Head(stack[t]).step = "body"
      /\ \A c \in InProgress(stack) : c.step \in BodySteps => c = Head(stack[t])
      /\ \A c \in InProgress(stack) : ~(c.step = "resume" /\ c.op = 0)
  BY <1>2, RunnerParts
<1>7. /\ stack' \in Stacks /\ a \in InProgress(stack')
      /\ \A c \in InProgress(stack') :
            c \in {a, b} \/ (c \in InProgress(stack) /\ c.step \notin BodySteps)
      /\ \A c \in InProgress(stack) : c.step \in BodySteps \/ c \in InProgress(stack')
      /\ \A j : Count(stack', TicketsOf(j)) = Count(stack, TicketsOf(j))
      /\ \A j : Count(stack', CallablesOf(j)) = Count(stack, CallablesOf(j))
      /\ Runs(a)' /\ (executionFinished => executionFinished') => OneRuns'
  <2>1. CASE Become(t, <<b, a>>)
    BY <1>2, <1>4, <2>1, RunnerMovesAfter
  <2>2. CASE Become(t, <<a>>)
    BY <1>2, <1>4, <2>2, RunnerMoves
  <2> QED BY <1>5, <2>1, <2>2
<1>8. /\ awaiting = 0 /\ started /\ ~resumePending
      /\ next \in Nat /\ i \in Nat /\ i # 0 /\ i > next
      /\ \A j \in Ops : j \in Nat /\ j # 0
  BY <1>1, <1>2, <1>6, TaskCoreAssumption DEF Runs, Inv, Life, Typed, Members, Ops
<1>9. ~claimed[i] /\ hook[i] = "off" /\ ~source[i] /\ i \notin queued
  BY <1>2, <1>8 DEF Inv, Unused
<1>10. Members'
  BY <1>2, <1>5, <1>8 DEF Inv, Typed, Members, result, cancellation, operation, others, Ops
<1>11. Typed'
  BY <1>2, <1>4, <1>7, <1>10, TypesKept DEF Aware, BodySteps
<1>12. Life'
  BY <1>2, <1>6, <1>8 DEF Inv, Life, Runs, result, cancellation, others
<1>13. OneRuns'
  <2>1. Runs(a)'
    BY <1>2, <1>4, <1>6, <1>8 DEF Runs, result
  <2> QED BY <1>2, <1>7, <2>1
<1>14. TicketsMatch'
  <2>1. ~Some({"run", "wake"})'
    BY <1>4, <1>7 DEF Some, BodySteps
  <2>2. \A j \in Ops : ~Deferred(j) /\ ~Deferred(j)'
    BY <1>2, <1>8, <2>1 DEF Deferred
  <2>3. \A j \in Ops : TicketCount(j)' = TicketCount(j)
    BY <1>2, <1>7, <2>2 DEF TicketCount
  <2>4. \A j \in Ops : TicketCount(j) = 0
    BY <1>8 DEF Inv, TicketsMatch
  <2>5. \A c \in InProgress(stack') : c \notin TicketsOf(0)
    BY <1>4, <1>6, <1>7 DEF TicketsOf
  <2> QED BY <1>2, <1>7, <1>9, <2>3, <2>4, <2>5 DEF Inv, TicketsMatch, operation
<1>15. Unused' /\ Registered'
  <2>1. ~Some({"unhook"})
    BY <1>6 DEF Some, BodySteps
  <2>2. \A j \in Ops : hook[j] = "off" /\ (j # i => hook'[j] = "off")
    BY <1>5, <1>8, <2>1 DEF Inv, Registered, Typed, Members
  <2>3. Unused'
    BY <1>2, <1>8, <2>2 DEF Inv, Unused, operation
  <2>4. Registered'
    BY <1>2, <1>8, <2>2 DEF Inv, Registered, Outlives, operation, others
  <2> QED BY <2>3, <2>4
<1>16. Operate'
  <2>1. \A c \in InProgress(stack) : c.step \in {"complete", "cancel"} => c.op \in Ops /\ claimed[c.op] /\ c.op # i
    BY <1>8, <1>9 DEF Inv, Operate, Completes, Typed, Aware
  <2>2. \A c \in InProgress(stack) : c.step \notin {"probe", "work"}
    BY <1>8 DEF Inv, Operate, Executes, Typed, Aware
  <2>3. \A c \in InProgress(stack) : c.step = "complete" => Completes(c)'
    BY <1>2, <2>1 DEF Inv, Operate, Completes, operation, others, Stopping, cancellation
  <2>4. None("complete", i)'
    BY <1>4, <1>7, <2>1 DEF None
  <2>5. \A c \in InProgress(stack') :
           \/ c = b
           \/ c = a
           \/ c.step \in {"complete", "cancel"} /\ c \in InProgress(stack)
           \/ c.step \notin {"complete", "cancel", "arm", "probe", "work"}
    BY <1>7, <2>2 DEF BodySteps
  <2> QED BY <1>2, <1>4, <1>7, <1>9, <2>1, <2>3, <2>4, <2>5 DEF Inv, Operate, operation
<1> QED BY <1>11, <1>12, <1>13, <1>14, <1>15, <1>16 DEF Inv

\* The rest of await_suspend: the operation is registered, or complete already.
LEMMA ArmStep ==
    ASSUME Inv, NEW t \in Threads, Arm(t)
    PROVE  Inv'
PROOF
<1> DEFINE h == Head(stack[t])
<1>1. PICK i : i = h.op
  OBVIOUS
<1>2. /\ In(t, "arm") /\ {"arm", "leave"} \subseteq BodySteps
      /\ UNCHANGED <<coroutine, result, cancellation, operation, others, hook, queued>>
  BY DEF Arm, BodySteps
<1>3. /\ Runs(h) /\ h.step = "arm" /\ h \in InProgress(stack)
      /\ \A c \in InProgress(stack) : c.step \in BodySteps => c = h
      /\ \A c \in InProgress(stack) : ~(c.step = "resume" /\ c.op = 0)
  BY <1>2, RunnerParts
<1>4. /\ i \in Ops /\ i = next /\ awaiting = i /\ started /\ ~source[i]
      /\ None("complete", i)
  BY <1>1, <1>3 DEF Inv, Typed, Members, Aware, Operate, Runs
<1>5. \A c \in InProgress(stack) : c.step \in {"probe", "work"} => c.op # i
  BY <1>1, <1>3 DEF Inv, Operate, Executes, None
<1>6. /\ At("leave") \in CallSet /\ At("leave").step = "leave"
  BY CallsMade DEF Steps, BodySteps
<1>7. Members'
  <2>1. source' = source \/ source' = [source EXCEPT ![i] = TRUE]
    BY <1>1 DEF Arm, Op
  <2> QED BY <1>2, <2>1 DEF Inv, Typed, Members, coroutine, result, cancellation, operation, others
<1>8. Life'
  BY <1>2 DEF Inv, Life, coroutine, result, cancellation, others
<1>9. Runs(At("leave"))'
  BY <1>2, <1>3, <1>6 DEF Runs, coroutine, result, operation
<1> HIDE DEF h
<1>10. CASE Become(t, <<At("leave")>>) /\ source' = [source EXCEPT ![i] = TRUE]
  <2>1. /\ stack' \in Stacks /\ At("leave") \in InProgress(stack')
        /\ \A c \in InProgress(stack') :
              c = At("leave") \/ (c \in InProgress(stack) /\ c.step \notin BodySteps)
        /\ \A c \in InProgress(stack) : c.step \in BodySteps \/ c \in InProgress(stack')
        /\ \A j : Count(stack', TicketsOf(j)) = Count(stack, TicketsOf(j))
        /\ \A j : Count(stack', CallablesOf(j)) = Count(stack, CallablesOf(j))
        /\ Runs(At("leave"))' /\ (executionFinished => executionFinished') => OneRuns'
    BY <1>2, <1>6, <1>10, RunnerMoves
  <2>2. Typed'
    BY <1>6, <1>7, <2>1, TypesKept DEF Aware
  <2>3. OneRuns'
    BY <1>2, <1>9, <2>1 DEF coroutine
  <2>4. ~Some({"run", "wake", "unhook"}) /\ ~Some({"run", "wake", "unhook"})'
    BY <1>3, <1>6, <2>1 DEF Some, BodySteps
  <2>5. TicketsMatch'
    BY <1>2, <1>3, <1>6, <2>1, <2>4, TicketsKept DEF Some, coroutine, operation, others
  <2>6. Unused' /\ Registered'
    <3>1. source \in [Ops -> BOOLEAN] /\ i \in Nat /\ Len(Kinds) \in Nat
      BY <1>4, TaskCoreAssumption DEF Inv, Typed, Members, Ops
    <3> QED BY <1>2, <1>4, <1>10, <2>4, <3>1
            DEF Inv, Unused, Registered, Outlives, Some, coroutine, operation, others, Ops
  <2>7. Operate'
    <3>1. \A c \in InProgress(stack) : c.step = "complete" => Completes(c) /\ c.op \in Ops /\ c.op # i
      BY <1>4 DEF Inv, Operate, None, Typed, Aware
    <3>2. \A c \in InProgress(stack) : c.step = "complete" => Completes(c)'
      BY <1>2, <1>10, <3>1
      DEF Inv, Typed, Members, Completes, coroutine, operation, others, Stopping, cancellation
    <3>3. \A j : /\ None("complete", j) => None("complete", j)'
                 /\ None("arm", j)'
      BY <1>6, <2>1 DEF None, BodySteps
    <3>4. \A c \in InProgress(stack) : c.step \in {"probe", "work"} => Executes(c)'
      BY <1>2, <1>5, <1>10, <3>3 DEF Inv, Operate, Typed, Members, Aware, Executes, coroutine, operation
    <3> QED BY <1>2, <1>6, <2>1, <3>2, <3>3, <3>4 DEF Inv, Operate, coroutine, operation, BodySteps
  <2> QED BY <1>8, <2>2, <2>3, <2>5, <2>6, <2>7 DEF Inv
<1>11. ASSUME NEW e \in {"none", "rejected"}, e = "none" => Kinds[i] = "post" \/ target[i] # "no",
              Become(t, <<Call("complete", i, e), At("leave")>>), source' = source
       PROVE  Inv'
  <2>1. PICK b : b = Call("complete", i, e)
    OBVIOUS
  <2>2. b \in CallSet /\ b.step = "complete" /\ b.op = i /\ b.err = e /\ e \in Errors
    <3>1. "complete" \in Steps /\ e \in Errors /\ i \in Ops \cup {0}
      BY <1>4, <1>11 DEF Steps, Errors
    <3> QED BY <2>1, <3>1, CallsMade
  <2>3. /\ stack' \in Stacks /\ {At("leave"), b} \subseteq InProgress(stack')
        /\ \A c \in InProgress(stack') :
              c \in {At("leave"), b} \/ (c \in InProgress(stack) /\ c.step \notin BodySteps)
        /\ \A c \in InProgress(stack) : c.step \in BodySteps \/ c \in InProgress(stack')
        /\ \A j : Count(stack', TicketsOf(j)) = Count(stack, TicketsOf(j))
        /\ \A j : Count(stack', CallablesOf(j)) = Count(stack, CallablesOf(j))
        /\ Runs(At("leave"))' /\ (executionFinished => executionFinished') => OneRuns'
    BY <1>2, <1>6, <1>11, <2>1, <2>2, RunnerMovesAfter
  <2>4. Typed'
    BY <1>4, <1>6, <1>7, <2>2, <2>3, TypesKept DEF Aware
  <2>5. OneRuns'
    BY <1>2, <1>9, <2>3 DEF coroutine
  <2>6. ~Some({"run", "wake", "unhook"}) /\ ~Some({"run", "wake", "unhook"})'
    BY <1>3, <1>6, <2>2, <2>3 DEF Some, BodySteps
  <2>7. TicketsMatch'
    BY <1>2, <1>3, <1>6, <2>2, <2>3, <2>6, TicketsKept DEF Some, coroutine, operation, others
  <2>8. Unused' /\ Registered'
    BY <1>2, <1>11, <2>6 DEF Inv, Unused, Registered, Outlives, Some, coroutine, operation, others
  <2>9. Operate'
    <3>1. \A c \in InProgress(stack) : c.step = "complete" => Completes(c)'
      BY <1>2, <1>11 DEF Inv, Operate, Completes, coroutine, operation, others, Stopping, cancellation
    <3>2. Completes(b)'
      BY <1>2, <1>4, <1>11, <2>2 DEF Completes, coroutine, operation, others
    <3>3. \A j : /\ j # i /\ None("complete", j) => None("complete", j)'
                 /\ None("arm", j)'
      BY <1>6, <2>2, <2>3 DEF None, BodySteps
    <3>4. \A c \in InProgress(stack) : c.step \in {"probe", "work"} => Executes(c)'
      BY <1>2, <1>5, <1>11, <3>3 DEF Inv, Operate, Executes, coroutine, operation
    <3> QED BY <1>2, <1>6, <2>2, <2>3, <3>1, <3>2, <3>3, <3>4
            DEF Inv, Operate, coroutine, operation, BodySteps
  <2> QED BY <1>8, <2>4, <2>5, <2>7, <2>8, <2>9 DEF Inv
<1>12. \/ Become(t, <<At("leave")>>) /\ source' = [source EXCEPT ![i] = TRUE]
       \/ \E e \in {"none", "rejected"} :
             /\ e = "none" => Kinds[i] = "post" \/ target[i] # "no"
             /\ Become(t, <<Call("complete", i, e), At("leave")>>)
             /\ source' = source
  <2>1. Op(t) = i
    BY <1>1 DEF Op, h
  <2> QED BY <2>1 DEF Arm
<1> QED BY <1>10, <1>11, <1>12

\* Leaving the co_await: the ticket has arrived, and there is no other.
LEMMA WakeStep ==
    ASSUME Inv, NEW t \in Threads, Wake(t)
    PROVE  Inv'
PROOF
<1>1. PICK e \in {"none", "error"} : Become(t, <<Call("unhook", next, e)>>)
  BY DEF Wake
<1>2. /\ In(t, "wake") /\ {"wake", "unhook"} \subseteq BodySteps
      /\ awaiting' = 0 /\ source' = Disconnected(next)
      /\ UNCHANGED <<running, resumePending, executionFinished, started, frame, next, result,
                     cancellation, operation, others, hook, queued>>
  BY DEF Wake, BodySteps
<1>3. /\ Runs(Head(stack[t])) /\ Head(stack[t]).step = "wake" /\ Head(stack[t]) \in InProgress(stack)
      /\ \A c \in InProgress(stack) : c.step \in BodySteps => c = Head(stack[t])
      /\ \A c \in InProgress(stack) : ~(c.step = "resume" /\ c.op = 0)
  BY <1>2, RunnerParts
<1>4. /\ awaiting = next /\ next \in Ops /\ started /\ ~resumePending /\ running
      /\ \A j \in Ops : j # 0
  BY <1>3, TaskCoreAssumption DEF Runs, Inv, Typed, Members, Ops
<1>5. PICK a : a = Call("unhook", next, e)
  OBVIOUS
<1>6. a \in CallSet /\ a.step = "unhook" /\ a.op = next
  <2>1. "unhook" \in Steps /\ e \in Errors /\ next \in Ops \cup {0}
    BY <1>4 DEF Steps, BodySteps, Errors
  <2> QED BY <1>5, <2>1, CallsMade
<1>7. /\ stack' \in Stacks /\ a \in InProgress(stack')
      /\ \A c \in InProgress(stack') : c = a \/ (c \in InProgress(stack) /\ c.step \notin BodySteps)
      /\ \A c \in InProgress(stack) : c.step \in BodySteps \/ c \in InProgress(stack')
      /\ \A i : Count(stack', TicketsOf(i)) = Count(stack, TicketsOf(i))
      /\ \A i : Count(stack', CallablesOf(i)) = Count(stack, CallablesOf(i))
      /\ Runs(a)' /\ (executionFinished => executionFinished') => OneRuns'
  BY <1>1, <1>2, <1>5, <1>6, RunnerMoves
<1>8. /\ Deferred(next) /\ claimed[next] /\ next \notin queued
      /\ Count(stack, TicketsOf(next)) = 0
  <2>1. Deferred(next)
    BY <1>3, <1>4 DEF Deferred, Some
  <2>2. Count(stack, TicketsOf(next)) \in Nat
    BY CallsTyped DEF Inv, Typed
  <2>3. TicketCount(next) = IF claimed[next] /\ awaiting = next THEN 1 ELSE 0
    BY <1>4 DEF Inv, TicketsMatch
  <2> QED BY <2>1, <2>2, <2>3 DEF TicketCount
<1>9. /\ source' \in [Ops -> BOOLEAN]
      /\ \A j \in Ops : source'[j] => source[j] /\ (j = next => Outlives(j))
  BY <1>2, <1>4 DEF Disconnected, Inv, Typed, Members
<1>10. Members'
  BY <1>2, <1>9 DEF Inv, Typed, Members, result, cancellation, operation, others
<1>11. Typed'
  BY <1>4, <1>6, <1>7, <1>10, TypesKept DEF Aware
<1>12. Life'
  BY <1>2, <1>4 DEF Inv, Life, result, cancellation, others
<1>13. OneRuns'
  <2>1. Runs(a)'
    BY <1>2, <1>3, <1>6, <1>8 DEF Runs, result, operation
  <2> QED BY <1>2, <1>7, <2>1
<1>14. TicketsMatch'
  <2>1. \A j \in Ops : ~Deferred(j)' /\ (j # next => ~Deferred(j))
    BY <1>2, <1>4 DEF Deferred
  <2>2. ASSUME NEW j \in Ops
        PROVE  TicketCount(j)' = 0
    <3>1. CASE j = next
      BY <1>2, <1>7, <1>8, <2>1, <3>1 DEF TicketCount
    <3>2. CASE j # next
      <4>1. TicketCount(j) = 0
        BY <1>4, <3>2 DEF Inv, TicketsMatch
      <4> QED BY <1>2, <1>7, <2>1, <3>2, <4>1 DEF TicketCount
    <3> QED BY <3>1, <3>2
  <2>3. \A c \in InProgress(stack') : c \notin TicketsOf(0)
    BY <1>3, <1>6, <1>7 DEF TicketsOf
  <2> QED BY <1>2, <1>4, <1>7, <2>2, <2>3 DEF Inv, TicketsMatch
<1>15. Unused' /\ Registered'
  <2>1. Some({"unhook"})'
    BY <1>6, <1>7 DEF Some
  <2>2. Unused'
    BY <1>2, <1>9 DEF Inv, Unused, operation
  <2>3. Registered'
    BY <1>2, <1>4, <1>8, <1>9, <2>1 DEF Inv, Registered, Outlives, operation, others
  <2> QED BY <2>2, <2>3
<1>16. Operate'
  <2>1. \A c \in InProgress(stack) : c.step \in {"complete", "cancel"} => c.op \in Ops /\ claimed[c.op]
    BY <1>4, <1>8 DEF Inv, Operate, Completes, Typed, Aware
  <2>2. \A c \in InProgress(stack) : c.step \notin {"probe", "work"}
    BY <1>4, <1>8 DEF Inv, Operate, Executes
  <2>3. \A c \in InProgress(stack) : c.step = "complete" => Completes(c)'
    BY <1>2, <2>1 DEF Inv, Operate, Completes, operation, others
  <2>4. \A c \in InProgress(stack') :
           \/ c.step \in {"complete", "cancel"} /\ c \in InProgress(stack)
           \/ c.step \notin {"complete", "cancel", "arm", "probe", "work"}
    BY <1>6, <1>7, <2>2 DEF BodySteps
  <2> QED BY <1>2, <1>7, <2>1, <2>3, <2>4 DEF Inv, Operate, operation
<1> QED BY <1>11, <1>12, <1>13, <1>14, <1>15, <1>16 DEF Inv

\* The stop_callback is gone, and the body goes on or ends.
LEMMA UnhookStep ==
    ASSUME Inv, NEW t \in Threads, Unhook(t)
    PROVE  Inv'
PROOF
<1> DEFINE h == Head(stack[t])
<1>1. PICK a \in {At("body"), Call("settle", 0, "error")} : Become(t, <<a>>)
  BY DEF Unhook
<1>2. /\ In(t, "unhook") /\ {"unhook", "body", "settle"} \subseteq BodySteps
      /\ hook' = [hook EXCEPT ![h.op] = "off"]
      /\ UNCHANGED <<coroutine, result, cancellation, operation, others, source, queued>>
  BY DEF Unhook, BodySteps, Op
<1>3. a \in CallSet /\ a.step \in {"body", "settle"} /\ (a.step = "settle" => a.err = "error")
  <2>1. {"body", "settle"} \subseteq Steps /\ "error" \in Errors
    BY DEF Steps, BodySteps, Errors
  <2> QED BY <1>1, <2>1, CallsMade
<1>4. /\ Runs(h) /\ h.step = "unhook" /\ h \in InProgress(stack)
      /\ \A c \in InProgress(stack) : c.step \in BodySteps => c = h
      /\ \A c \in InProgress(stack) : ~(c.step = "resume" /\ c.op = 0)
  BY <1>2, RunnerParts
<1>5. h.op = next /\ awaiting = 0 /\ next \in Ops /\ \A j \in Ops : j # 0
  BY <1>4, TaskCoreAssumption DEF Runs, Inv, Typed, Aware, Ops
<1>6. /\ stack' \in Stacks /\ a \in InProgress(stack')
      /\ \A c \in InProgress(stack') : c = a \/ (c \in InProgress(stack) /\ c.step \notin BodySteps)
      /\ \A c \in InProgress(stack) : c.step \in BodySteps \/ c \in InProgress(stack')
      /\ \A i : Count(stack', TicketsOf(i)) = Count(stack, TicketsOf(i))
      /\ \A i : Count(stack', CallablesOf(i)) = Count(stack, CallablesOf(i))
      /\ Runs(a)' /\ (executionFinished => executionFinished') => OneRuns'
  BY <1>1, <1>2, <1>3, RunnerMoves
<1> HIDE DEF h
<1>7. \A j \in Ops : hook'[j] = "off"
  BY <1>2, <1>5 DEF Inv, Registered, Typed, Members
<1>8. Members'
  BY <1>2 DEF Inv, Typed, Members, coroutine, result, cancellation, operation, others
<1>9. Typed'
  BY <1>3, <1>6, <1>8, TypesKept DEF Aware
<1>10. Life'
  BY <1>2 DEF Inv, Life, coroutine, result, cancellation, others
<1>11. OneRuns'
  <2>1. Runs(a)'
    BY <1>2, <1>3, <1>4 DEF Runs, coroutine, result
  <2> QED BY <1>2, <1>6, <2>1 DEF coroutine
<1>12. TicketsMatch'
  BY <1>2, <1>3, <1>4, <1>5, <1>6, TicketsKept DEF coroutine, operation, others
<1>13. Unused' /\ Registered'
  BY <1>2, <1>5, <1>7 DEF Inv, Unused, Registered, Outlives, coroutine, operation, others
<1>14. Operate'
  BY <1>2, <1>3, <1>6, OperateKept DEF coroutine, others, Stopping, cancellation, BodySteps
<1> QED BY <1>9, <1>10, <1>11, <1>12, <1>13, <1>14 DEF Inv

-----------------------------------------------------------------------------
(* What completes an operation: the loop, the pool or another task.        *)

\* A step that touches only registrations, callables and calls of complete leaves
\* the coroutine and the tickets as they were.
LEMMA CompletionKept ==
    ASSUME Inv, Members', stack' \in Stacks,
           UNCHANGED <<coroutine, result, cancellation, claimed, failure, spawned, hook, queued>>,
           \A j \in Ops : target[j] # "no" => target'[j] # "no",
           \A j \in Ops : source'[j] => source[j] \/ awaiting = j,
           Count(stack', Runners) = Count(stack, Runners),
           \A j : Count(stack', TicketsOf(j)) = Count(stack, TicketsOf(j)),
           \A c \in InProgress(stack) : c.step \in {"probe", "work"} \/ c \in InProgress(stack'),
           \A c \in InProgress(stack') :
              \/ c \in InProgress(stack)
              \/ c.step \in {"complete", "probe", "work"} /\ c.op \in Ops /\ c.err \in Errors
    PROVE  Typed' /\ Life' /\ OneRuns' /\ TicketsMatch' /\ Unused' /\ Registered'
PROOF
<1>1. Typed'
  BY TypesKept
<1>2. Life' /\ OneRuns'
  BY CoroutineKept DEF Inv, Life, result, cancellation, BodySteps
<1>3. TicketsMatch'
  BY TicketsKept DEF Some, coroutine
<1>4. Unused'
  BY TaskCoreAssumption DEF Inv, Typed, Members, Unused, coroutine, Ops
<1>5. Registered'
  <2>1. Some({"unhook"}) => Some({"unhook"})'
    BY DEF Some
  <2> QED BY <2>1 DEF Inv, Registered, Outlives, coroutine
<1> QED BY <1>1, <1>2, <1>3, <1>4, <1>5

\* What was registered with the loop, the pool or a handle completes the operation.
LEMMA EnterCompletes ==
    ASSUME Inv, NEW t \in Threads, NEW i \in Ops, NEW e \in Errors, source[i],
           Enter(t, Call("complete", i, e)), source' = [source EXCEPT ![i] = FALSE],
           e = "none" /\ Kinds[i] = "result" => target'[i] # "no",
           \A j \in Ops : target[j] # "no" => target'[j] # "no",
           target' \in [Ops -> {"no", "value", "error"}],
           UNCHANGED <<coroutine, result, cancellation, operation, spawned, hook, queued>>
    PROVE  Inv'
PROOF
<1>1. PICK a : a = Call("complete", i, e)
  OBVIOUS
<1>2. a \in CallSet /\ a.step = "complete" /\ a.op = i /\ a.err = e
  <2>1. "complete" \in Steps /\ i \in Ops \cup {0}
    BY DEF Steps
  <2> QED BY <1>1, <2>1, CallsMade
<1>3. /\ stack' \in Stacks
      /\ InProgress(stack') = InProgress(stack) \cup {a}
      /\ Count(stack', Runners) = Count(stack, Runners)
      /\ \A j : Count(stack', TicketsOf(j)) = Count(stack, TicketsOf(j))
      /\ \A j : Count(stack', CallablesOf(j)) = Count(stack, CallablesOf(j))
  <2>1. /\ \A j : Count(stack, TicketsOf(j)) \in Nat /\ Count(stack, CallablesOf(j)) \in Nat
        /\ Count(stack, Runners) \in Nat
    BY CallsTyped DEF Inv, Typed
  <2>2. AsRunner(a) = 0 /\ \A j : AsTicket(a, j) = 0 /\ AsCallable(a, j) = 0
    BY <1>2 DEF AsRunner, AsTicket, AsCallable, BodySteps
  <2>3. /\ stack' \in Stacks
        /\ InProgress(stack') = InProgress(stack) \cup {a}
        /\ Count(stack', Runners) = Count(stack, Runners) + AsRunner(a)
        /\ \A j : Count(stack', TicketsOf(j)) = Count(stack, TicketsOf(j)) + AsTicket(a, j)
        /\ \A j : Count(stack', CallablesOf(j)) = Count(stack, CallablesOf(j)) + AsCallable(a, j)
    BY <1>1, <1>2, EnterEffect
  <2> QED BY <2>1, <2>2, <2>3
<1>4. source' \in [Ops -> BOOLEAN] /\ ~source'[i] /\ \A j \in Ops : source'[j] => source[j]
  BY DEF Inv, Typed, Members
<1>5. Members'
  BY <1>4 DEF Inv, Typed, Members, coroutine, result, cancellation, operation
<1>6. Typed' /\ Life' /\ OneRuns' /\ TicketsMatch' /\ Unused' /\ Registered'
  BY <1>2, <1>3, <1>4, <1>5, CompletionKept DEF operation
<1>7. Operate'
  <2>1. \A c \in InProgress(stack) : c.step = "complete" => Completes(c)'
    BY <1>4 DEF Inv, Typed, Aware, Operate, Completes, coroutine, operation, Stopping, cancellation
  <2>2. Completes(a)'
    BY <1>2, <1>4 DEF Inv, Registered, Completes, coroutine, operation
  <2>3. \A j : /\ j # i /\ None("complete", j) => None("complete", j)'
               /\ None("arm", j) => None("arm", j)'
    BY <1>2, <1>3 DEF None
  <2>4. \A c \in InProgress(stack) : c.step \in {"arm", "probe", "work"} => c.op # i /\ c.op \in Ops
    BY DEF Inv, Typed, Aware, Operate, Executes
  <2>5. \A c \in InProgress(stack) : c.step \in {"probe", "work"} => Executes(c)'
    BY <1>4, <2>3, <2>4 DEF Inv, Operate, Executes, coroutine, operation
  <2>6. \A c \in InProgress(stack) : c.step = "arm" => ~source'[c.op] /\ None("complete", c.op)'
    BY <1>4, <2>3, <2>4 DEF Inv, Operate
  <2>7. \A c \in InProgress(stack) : c.step = "cancel" => claimed'[c.op] \/ awaiting' = c.op
    BY DEF Inv, Operate, coroutine, operation
  <2> QED BY <1>2, <1>3, <2>1, <2>2, <2>5, <2>6, <2>7 DEF Inv, Operate
<1> QED BY <1>6, <1>7 DEF Inv

\* A registration that goes without completing anything.
LEMMA SourceDropped ==
    ASSUME Inv, NEW i \in Ops, source' = [source EXCEPT ![i] = FALSE], stack' = stack,
           \A j \in Ops : target[j] # "no" => target'[j] # "no",
           target' \in [Ops -> {"no", "value", "error"}],
           UNCHANGED <<coroutine, result, cancellation, operation, spawned, hook, queued>>
    PROVE  Inv'
PROOF
<1>1. source' \in [Ops -> BOOLEAN] /\ \A j \in Ops : source'[j] => source[j]
  BY DEF Inv, Typed, Members
<1>2. Members'
  BY <1>1 DEF Inv, Typed, Members, coroutine, result, cancellation, operation
<1>3. Typed' /\ Life' /\ OneRuns' /\ TicketsMatch' /\ Unused' /\ Registered'
  BY <1>1, <1>2, CompletionKept DEF operation, Inv, Typed
<1>4. Operate'
  <2>1. \A c \in InProgress(stack) : c.step = "complete" => Completes(c)'
    BY <1>1 DEF Inv, Typed, Aware, Operate, Completes, coroutine, operation, Stopping, cancellation
  <2>2. \A j : (None("complete", j) => None("complete", j)') /\ (None("arm", j) => None("arm", j)')
    BY DEF None
  <2>3. \A c \in InProgress(stack) : c.step \in {"probe", "work"} => Executes(c)'
    BY <1>1, <2>2 DEF Inv, Typed, Aware, Operate, Executes, coroutine, operation
  <2>4. \A c \in InProgress(stack) : c.step = "arm" => ~source'[c.op] /\ None("complete", c.op)'
    BY <1>1, <2>2 DEF Inv, Typed, Aware, Operate
  <2>5. \A c \in InProgress(stack) : c.step = "cancel" => claimed'[c.op] \/ awaiting' = c.op
    BY DEF Inv, Operate, coroutine, operation
  <2> QED BY <2>1, <2>3, <2>4, <2>5 DEF Inv, Operate
<1> QED BY <1>3, <1>4 DEF Inv

\* A callable or a predicate begins: its operation is neither claimed nor being
\* cancelled, and from now on only its end completes it.
LEMMA BeginsCallable ==
    ASSUME Inv, NEW t \in Threads, NEW i \in Ops, NEW s \in {"probe", "work"},
           Kinds[i] = s, source[i], CanBegin(i), Enter(t, Call(s, i, "none")),
           source' = [source EXCEPT ![i] = FALSE],
           executing' = [executing EXCEPT ![i] = TRUE],
           UNCHANGED <<coroutine, result, cancellation, claimed, failure, others, hook, queued>>
    PROVE  Inv'
PROOF
<1>1. PICK a : a = Call(s, i, "none")
  OBVIOUS
<1>2. a \in CallSet /\ a.step = s /\ a.op = i /\ a.err = "none"
  <2>1. s \in Steps /\ i \in Ops \cup {0} /\ "none" \in Errors
    BY DEF Steps, Errors
  <2> QED BY <1>1, <2>1, CallsMade
<1>3. Count(stack, CallablesOf(i)) = 0
  BY CallsTyped, WhatIsCounted DEF Inv, Operate, Executes, Typed
<1>4. /\ stack' \in Stacks
      /\ InProgress(stack') = InProgress(stack) \cup {a}
      /\ Count(stack', Runners) = Count(stack, Runners)
      /\ \A j : Count(stack', TicketsOf(j)) = Count(stack, TicketsOf(j))
      /\ \A j \in Ops : Count(stack', CallablesOf(j)) <= 1
  <2>1. /\ \A j : Count(stack, TicketsOf(j)) \in Nat /\ Count(stack, CallablesOf(j)) \in Nat
        /\ Count(stack, Runners) \in Nat
    BY CallsTyped DEF Inv, Typed
  <2>2. AsRunner(a) = 0 /\ \A j : AsTicket(a, j) = 0 /\ AsCallable(a, j) = IF j = i THEN 1 ELSE 0
    BY <1>2 DEF AsRunner, AsTicket, AsCallable, BodySteps
  <2>3. /\ stack' \in Stacks
        /\ InProgress(stack') = InProgress(stack) \cup {a}
        /\ Count(stack', Runners) = Count(stack, Runners) + AsRunner(a)
        /\ \A j : Count(stack', TicketsOf(j)) = Count(stack, TicketsOf(j)) + AsTicket(a, j)
        /\ \A j : Count(stack', CallablesOf(j)) = Count(stack, CallablesOf(j)) + AsCallable(a, j)
    BY <1>1, <1>2, EnterEffect
  <2>4. \A j \in Ops : Count(stack, CallablesOf(j)) <= 1
    BY DEF Inv, Operate
  <2> QED BY <1>3, <2>1, <2>2, <2>3, <2>4
<1>5. /\ source' \in [Ops -> BOOLEAN] /\ ~source'[i] /\ \A j \in Ops : source'[j] => source[j]
      /\ executing' \in [Ops -> BOOLEAN] /\ executing'[i] /\ \A j \in Ops : executing[j] => executing'[j]
  BY DEF Inv, Typed, Members
<1>6. Members'
  BY <1>5 DEF Inv, Typed, Members, coroutine, result, cancellation, others
<1>7. Typed' /\ Life' /\ OneRuns' /\ TicketsMatch' /\ Unused' /\ Registered'
  <2>1. a.err \in Errors
    BY <1>2 DEF Errors
  <2> QED BY <1>2, <1>4, <1>5, <1>6, <2>1, CompletionKept DEF others
<1>8. Operate'
  <2>1. \A c \in InProgress(stack) : c.step = "complete" => Completes(c)'
    BY <1>5 DEF Inv, Typed, Aware, Operate, Completes, coroutine, others, Stopping, cancellation
  <2>2. \A j : (None("complete", j) => None("complete", j)') /\ (None("arm", j) => None("arm", j)')
    BY <1>2, <1>4 DEF None
  <2>3. None("complete", i) /\ None("arm", i)
    BY DEF Inv, Operate, Completes, None, CanBegin
  <2>4. Executes(a)'
    BY <1>2, <1>5, <2>2, <2>3 DEF Executes, Inv, Registered, CanBegin, coroutine
  <2>5. \A c \in InProgress(stack) : c.step \in {"probe", "work"} => Executes(c)'
    BY <1>5, <2>2 DEF Inv, Typed, Aware, Operate, Executes, coroutine
  <2>6. \A c \in InProgress(stack) : c.step = "arm" => ~source'[c.op] /\ None("complete", c.op)'
    BY <1>5, <2>2 DEF Inv, Typed, Aware, Operate
  <2>7. \A c \in InProgress(stack) : c.step = "cancel" => claimed'[c.op] \/ awaiting' = c.op
    BY DEF Inv, Operate, coroutine
  <2> QED BY <1>2, <1>4, <2>1, <2>4, <2>5, <2>6, <2>7 DEF Inv, Operate
<1> QED BY <1>7, <1>8 DEF Inv

\* A callable or a predicate is over: what completes the operation from now on are the
\* calls that take its place, or its registration if there are none.
LEMMA CallableEnds ==
    ASSUME Inv, NEW t \in Threads, NEW s \in {"probe", "work"}, In(t, s),
           NEW New, After(Head(stack[t]), New),
           \A c \in New : c.step = "complete" /\ c.op = Head(stack[t]).op /\ c.err \in Errors,
           Count(stack', Runners) = Count(stack, Runners),
           \A j : Count(stack', TicketsOf(j)) = Count(stack, TicketsOf(j)),
           \A j \in Ops : Count(stack', CallablesOf(j)) <= 1,
           executing' \in {executing, [executing EXCEPT ![Head(stack[t]).op] = FALSE]},
           source' = source \/ (source' = [source EXCEPT ![Head(stack[t]).op] = TRUE] /\ (New = {} \/ Stopping)),
           UNCHANGED <<coroutine, result, cancellation, claimed, failure, others, hook, queued>>
    PROVE  Inv'
PROOF
<1> DEFINE h == Head(stack[t])
           i == h.op
<1>1. h \in InProgress(stack) /\ h.step = s
  BY Inside
<1>2. i \in Ops /\ Executes(h)
  BY <1>1 DEF Inv, Typed, Aware, Operate
<1>3. /\ stack' \in Stacks
      /\ \A c \in InProgress(stack') : c \in New \/ c \in InProgress(stack)
      /\ \A c \in InProgress(stack) : c = h \/ c \in InProgress(stack')
      /\ \A c \in InProgress(stack') : c \in New \/ ~(c.step \in {"work", "probe"} /\ c.op = i)
  BY <1>1 DEF After
<1>4. \A c \in New : c.step = "complete" /\ c.op = i /\ c.err \in Errors
  OBVIOUS
<1>5. /\ source' \in [Ops -> BOOLEAN] /\ executing' \in [Ops -> BOOLEAN]
      /\ \A j \in Ops : j # i => (source'[j] <=> source[j]) /\ (executing'[j] <=> executing[j])
      /\ source'[i] => source[i] \/ New = {} \/ Stopping
  <2>1. source \in [Ops -> BOOLEAN] /\ executing \in [Ops -> BOOLEAN]
    BY DEF Inv, Typed, Members
  <2>2. executing' = executing \/ executing' = [executing EXCEPT ![i] = FALSE]
    OBVIOUS
  <2>3. source' = source \/ (source' = [source EXCEPT ![i] = TRUE] /\ (New = {} \/ Stopping))
    OBVIOUS
  <2> HIDE DEF h
  <2>4. executing' \in [Ops -> BOOLEAN] /\ \A j \in Ops : j # i => (executing'[j] <=> executing[j])
    BY <1>2, <2>1, <2>2
  <2>5. source' \in [Ops -> BOOLEAN] /\ \A j \in Ops : j # i => (source'[j] <=> source[j])
    BY <1>2, <2>1, <2>3
  <2> QED BY <2>3, <2>4, <2>5
<1> HIDE DEF h
<1>6. Members'
  BY <1>5 DEF Inv, Typed, Members, coroutine, result, cancellation, others
<1>7. Typed' /\ Life' /\ OneRuns' /\ TicketsMatch' /\ Unused' /\ Registered'
  <2>1. \A j \in Ops : source'[j] => source[j] \/ awaiting = j
    BY <1>2, <1>5 DEF Executes
  <2>2. \A c \in InProgress(stack) : c.step \in {"probe", "work"} \/ c \in InProgress(stack')
    BY <1>1, <1>3
  <2> QED BY <1>2, <1>3, <1>4, <1>6, <2>1, <2>2, CompletionKept DEF others
<1>8. Operate'
  <2>1. \A c \in InProgress(stack) : c.step \in {"complete", "arm"} => c.op \in Ops \ {i}
    BY <1>2 DEF Inv, Typed, Aware, Executes, None
  <2>2. \A c \in InProgress(stack) : c.step = "complete" => Completes(c)'
    BY <1>5, <2>1 DEF Inv, Operate, Completes, coroutine, others, Stopping, cancellation
  <2>3. \A c \in New : Completes(c)'
    BY <1>1, <1>2, <1>4, <1>5 DEF Executes, Completes, coroutine, Stopping, cancellation
  <2>4. \A j : /\ j # i /\ None("complete", j) => None("complete", j)'
               /\ None("arm", j) => None("arm", j)'
    BY <1>3, <1>4 DEF None
  <2>5. \A c \in InProgress(stack') : c.step = "arm" => ~source'[c.op] /\ None("complete", c.op)'
    BY <1>3, <1>4, <1>5, <2>1, <2>4 DEF Inv, Operate
  <2>6. \A c \in InProgress(stack') : c.step = "cancel" => claimed'[c.op] \/ awaiting' = c.op
    BY <1>3, <1>4 DEF Inv, Operate, coroutine
  <2>7. ASSUME NEW c \in InProgress(stack'), c.step \in {"probe", "work"}
        PROVE  Executes(c)'
    <3>1. c \in InProgress(stack) /\ c.op # i
      BY <1>3, <1>4, <2>7
    <3>2. c.op \in Ops /\ Executes(c)
      BY <2>7, <3>1 DEF Inv, Typed, Aware, Operate
    <3> QED BY <1>5, <2>4, <3>1, <3>2 DEF Executes, coroutine
  <2> QED BY <1>3, <1>4, <2>2, <2>3, <2>5, <2>6, <2>7 DEF Operate
<1> QED BY <1>7, <1>8 DEF Inv

\* What the end of a callable does to the calls in progress: it goes, or one or two
\* calls of complete take its place.
LEMMA CallableGoes ==
    ASSUME Inv, NEW t \in Threads, NEW s \in {"probe", "work"}, In(t, s),
           NEW a \in CallSet, NEW b \in CallSet, a.step = "complete", b.step = "complete",
           NEW New, \/ Return(t) /\ New = {}
                    \/ Become(t, <<a>>) /\ New = {a}
                    \/ Become(t, <<a, b>>) /\ New = {a, b}
    PROVE  /\ After(Head(stack[t]), New)
           /\ Count(stack', Runners) = Count(stack, Runners)
           /\ \A j : Count(stack', TicketsOf(j)) = Count(stack, TicketsOf(j))
           /\ \A j \in Ops : Count(stack', CallablesOf(j)) <= 1
PROOF
<1> DEFINE h == Head(stack[t])
<1>1. /\ stack[t] # <<>> /\ h.step = s
      /\ \A j : Count(stack, TicketsOf(j)) \in Nat /\ Count(stack, CallablesOf(j)) \in Nat
      /\ Count(stack, Runners) \in Nat
  BY Inside
<1>2. /\ AsRunner(h) = 0 /\ AsRunner(a) = 0 /\ AsRunner(b) = 0
      /\ \A j : AsTicket(h, j) = 0 /\ AsTicket(a, j) = 0 /\ AsTicket(b, j) = 0
      /\ \A j : AsCallable(h, j) \in {0, 1} /\ AsCallable(a, j) = 0 /\ AsCallable(b, j) = 0
  BY <1>1 DEF AsRunner, AsTicket, AsCallable, BodySteps
<1>3. \A j \in Ops : Count(stack, CallablesOf(j)) <= 1
  BY DEF Inv, Operate
<1>4. CASE Return(t) /\ New = {}
  <2>1. /\ After(h, {})
        /\ Count(stack', Runners) = Count(stack, Runners) - AsRunner(h)
        /\ \A j : Count(stack', TicketsOf(j)) = Count(stack, TicketsOf(j)) - AsTicket(h, j)
        /\ \A j : Count(stack', CallablesOf(j)) = Count(stack, CallablesOf(j)) - AsCallable(h, j)
    BY <1>1, <1>4, ReturnEffect
  <2> HIDE DEF h
  <2>2. /\ After(h, New)
        /\ Count(stack', Runners) = Count(stack, Runners)
        /\ \A j : Count(stack', TicketsOf(j)) = Count(stack, TicketsOf(j))
        /\ \A j \in Ops : Count(stack', CallablesOf(j)) <= 1
    BY <1>1, <1>2, <1>3, <1>4, <2>1
  <2> QED BY <2>2 DEF h
<1>5. CASE Become(t, <<a>>) /\ New = {a}
  <2>1. /\ After(h, {a})
        /\ Count(stack', Runners) = Count(stack, Runners) - AsRunner(h) + AsRunner(a)
        /\ \A j : Count(stack', TicketsOf(j))
                    = Count(stack, TicketsOf(j)) - AsTicket(h, j) + AsTicket(a, j)
        /\ \A j : Count(stack', CallablesOf(j))
                    = Count(stack, CallablesOf(j)) - AsCallable(h, j) + AsCallable(a, j)
    BY <1>1, <1>5, OneEffect
  <2> HIDE DEF h
  <2>2. /\ After(h, New)
        /\ Count(stack', Runners) = Count(stack, Runners)
        /\ \A j : Count(stack', TicketsOf(j)) = Count(stack, TicketsOf(j))
        /\ \A j \in Ops : Count(stack', CallablesOf(j)) <= 1
    BY <1>1, <1>2, <1>3, <1>5, <2>1
  <2> QED BY <2>2 DEF h
<1>6. CASE Become(t, <<a, b>>) /\ New = {a, b}
  <2>1. /\ After(h, {a, b})
        /\ Count(stack', Runners) = Count(stack, Runners) - AsRunner(h) + AsRunner(a) + AsRunner(b)
        /\ \A j : Count(stack', TicketsOf(j))
                    = Count(stack, TicketsOf(j)) - AsTicket(h, j) + AsTicket(a, j) + AsTicket(b, j)
        /\ \A j : Count(stack', CallablesOf(j))
                    = Count(stack, CallablesOf(j)) - AsCallable(h, j) + AsCallable(a, j) + AsCallable(b, j)
    BY <1>1, <1>6, TwoEffect
  <2> HIDE DEF h
  <2>2. /\ After(h, New)
        /\ Count(stack', Runners) = Count(stack, Runners)
        /\ \A j : Count(stack', TicketsOf(j)) = Count(stack, TicketsOf(j))
        /\ \A j \in Ops : Count(stack', CallablesOf(j)) <= 1
    BY <1>1, <1>2, <1>3, <1>6, <2>1
  <2> QED BY <2>2 DEF h
<1> QED BY <1>4, <1>5, <1>6

\* A call of complete.
LEMMA CompleteCall ==
    \A i \in Ops, e \in Errors :
       /\ Call("complete", i, e) \in CallSet
       /\ Call("complete", i, e).step = "complete" /\ Call("complete", i, e).op = i
       /\ Call("complete", i, e).err = e
PROOF
<1>1. "complete" \in Steps /\ Ops \subseteq Ops \cup {0} /\ Errors \subseteq Errors \cup {"value"}
  BY DEF Steps
<1> QED BY <1>1, CallsMade

\* A timer or the next frame completes its operation.
LEMMA FireStep ==
    ASSUME Inv, NEW t \in Threads, NEW i \in Ops, Fire(t, i)
    PROVE  Inv'
PROOF
<1>1. /\ source[i] /\ Kinds[i] # "result"
      /\ Enter(t, Call("complete", i, "none")) /\ source' = [source EXCEPT ![i] = FALSE]
      /\ UNCHANGED <<coroutine, result, cancellation, operation, others, hook, queued>>
  BY DEF Fire
<1>2. "none" \in Errors /\ target' \in [Ops -> {"no", "value", "error"}]
  BY <1>1 DEF Errors, Inv, Typed, Members, others
<1> QED BY <1>1, <1>2, EnterCompletes DEF others

\* The awaited task is settled, and completes the operation that waits for it.
LEMMA TargetSettlesStep ==
    ASSUME Inv, NEW t \in Threads, NEW i \in Ops, TargetSettles(t, i)
    PROVE  Inv'
PROOF
<1>1. PICK r \in {"value", "error"} : target' = [target EXCEPT ![i] = r]
  BY DEF TargetSettles
<1>2. /\ source' = [source EXCEPT ![i] = FALSE]
      /\ IF source[i] THEN Enter(t, Call("complete", i, "none")) ELSE stack' = stack
      /\ UNCHANGED <<coroutine, result, cancellation, operation, spawned, hook, queued>>
  BY DEF TargetSettles
<1>3. /\ target' \in [Ops -> {"no", "value", "error"}] /\ target'[i] # "no"
      /\ \A j \in Ops : target[j] # "no" => target'[j] # "no"
      /\ "none" \in Errors
  BY <1>1 DEF Inv, Typed, Members, Errors
<1>4. CASE source[i]
  BY <1>2, <1>3, <1>4, EnterCompletes
<1>5. CASE ~source[i]
  BY <1>2, <1>3, <1>5, SourceDropped
<1> QED BY <1>4, <1>5

\* A predicate begins, or its operation is claimed or being cancelled.
LEMMA BeginProbeStep ==
    ASSUME Inv, NEW t \in Threads, NEW i \in Ops, BeginProbe(t, i)
    PROVE  Inv'
PROOF
<1>1. /\ source[i] /\ Kinds[i] = "probe" /\ source' = [source EXCEPT ![i] = FALSE]
      /\ UNCHANGED <<coroutine, result, cancellation, claimed, failure, others, hook, queued>>
  BY DEF BeginProbe
<1>2. "none" \in Errors /\ target' \in [Ops -> {"no", "value", "error"}]
  BY <1>1 DEF Errors, Inv, Typed, Members, others
<1>3. CASE CanBegin(i)
  <2>1. executing' = [executing EXCEPT ![i] = TRUE] /\ Enter(t, Call("probe", i, "none"))
    BY <1>3 DEF BeginProbe
  <2> QED BY <1>1, <1>3, <2>1, BeginsCallable
<1>4. CASE ~CanBegin(i)
  <2>1. Enter(t, Call("complete", i, "none")) /\ executing' = executing
    BY <1>4 DEF BeginProbe
  <2> QED BY <1>1, <1>2, <2>1, EnterCompletes DEF operation, others
<1> QED BY <1>3, <1>4

\* A predicate ends: met, not met, or by an exception; a cancellation it was not to
\* miss comes first.
LEMMA EndProbeStep ==
    ASSUME Inv, NEW t \in Threads, EndProbe(t)
    PROVE  Inv'
PROOF
<1> DEFINE i == Head(stack[t]).op
<1>1. /\ In(t, "probe")
      /\ UNCHANGED <<coroutine, result, cancellation, claimed, failure, others, hook, queued>>
  BY DEF EndProbe
<1>2. i \in Ops
  BY <1>1, Inside DEF Inv, Typed, Aware
<1>3. PICK met, late, failed :
         /\ met = Call("complete", i, "none") /\ late = Call("complete", i, "cancelled")
         /\ failed = Call("complete", i, "error")
  OBVIOUS
<1>4. /\ {met, late, failed} \subseteq CallSet
      /\ \A c \in {met, late, failed} : c.step = "complete" /\ c.op = i /\ c.err \in Errors
  BY <1>2, <1>3, CompleteCall DEF Errors
<1>5. \/ /\ executing' = [executing EXCEPT ![i] = FALSE] /\ source' = source
         /\ IF Stopping THEN Become(t, <<late>> \o <<met>>) ELSE Become(t, <<>> \o <<met>>)
      \/ /\ executing' = [executing EXCEPT ![i] = FALSE]
         /\ source' = [source EXCEPT ![i] = TRUE]
         /\ IF Stopping THEN Become(t, <<late>>) ELSE Become(t, <<>>)
      \/ /\ executing' = executing /\ source' = source
         /\ Become(t, <<failed>> \o <<met>>)
  BY <1>3 DEF EndProbe, Op, ProbeCancelled
<1>6. <<late>> \o <<met>> = <<late, met>> /\ <<failed>> \o <<met>> = <<failed, met>> /\ <<>> \o <<met>> = <<met>>
  <2>1. \A a \in CallSet : <<>> \o <<a>> = <<a>> /\ <<a>> \o <<>> = <<a>>
    OBVIOUS
  <2>2. ASSUME NEW a \in CallSet, NEW b \in CallSet
        PROVE  <<a>> \o <<b>> = <<a, b>>
    <3>1. <<a, b>> \in Seq(CallSet) /\ <<b>> \in Seq(CallSet) /\ <<>> \in Seq(CallSet)
      OBVIOUS
    <3>2. <<a, b>> \o <<>> = <<a, b>> /\ <<b>> \o <<>> = <<b>>
      BY <3>1, ConcatEmptySeq
    <3>3. <<a, b>> \o <<>> = <<a>> \o (<<b>> \o <<>>)
      BY <3>1, TwoInFront
    <3> QED BY <3>2, <3>3
  <2> QED BY <1>4, <2>1, <2>2
<1> DEFINE Ends(New) ==
       /\ \A c \in New : c \in {met, late, failed}
       /\ After(Head(stack[t]), New)
       /\ Count(stack', Runners) = Count(stack, Runners)
       /\ \A j : Count(stack', TicketsOf(j)) = Count(stack, TicketsOf(j))
       /\ \A j \in Ops : Count(stack', CallablesOf(j)) <= 1
       /\ executing' \in {executing, [executing EXCEPT ![i] = FALSE]}
       /\ source' = source \/ (source' = [source EXCEPT ![i] = TRUE] /\ (New = {} \/ Stopping))
<1>7. CASE Stopping /\ source' = source /\ executing' = [executing EXCEPT ![i] = FALSE]
           /\ Become(t, <<late, met>>)
  <2>1. Ends({late, met})
    BY <1>1, <1>4, <1>7, CallableGoes
  <2> QED BY <1>1, <1>4, <2>1, CallableEnds
<1>8. CASE source' = source /\ executing' = [executing EXCEPT ![i] = FALSE] /\ Become(t, <<met>>)
  <2>1. Ends({met})
    BY <1>1, <1>4, <1>8, CallableGoes
  <2> QED BY <1>1, <1>4, <2>1, CallableEnds
<1>9. CASE Stopping /\ source' = [source EXCEPT ![i] = TRUE] /\ executing' = [executing EXCEPT ![i] = FALSE]
           /\ Become(t, <<late>>)
  <2>1. Ends({late})
    BY <1>1, <1>4, <1>9, CallableGoes
  <2> QED BY <1>1, <1>4, <2>1, CallableEnds
<1>10. CASE source' = [source EXCEPT ![i] = TRUE] /\ executing' = [executing EXCEPT ![i] = FALSE]
            /\ Return(t)
  <2>1. Ends({})
    BY <1>1, <1>4, <1>10, CallableGoes
  <2> QED BY <1>1, <1>4, <2>1, CallableEnds
<1>11. CASE executing' = executing /\ source' = source /\ Become(t, <<failed, met>>)
  <2>1. Ends({failed, met})
    BY <1>1, <1>4, <1>11, CallableGoes
  <2> QED BY <1>1, <1>4, <2>1, CallableEnds
<1> QED BY <1>5, <1>6, <1>7, <1>8, <1>9, <1>10, <1>11 DEF Return

\* The pool takes the callable, drops it, or finds its operation claimed.
LEMMA BeginWorkStep ==
    ASSUME Inv, NEW t \in Threads, NEW i \in Ops, BeginWork(t, i)
    PROVE  Inv'
PROOF
<1>1. /\ source[i] /\ Kinds[i] = "work" /\ source' = [source EXCEPT ![i] = FALSE]
      /\ UNCHANGED <<coroutine, result, cancellation, claimed, failure, others, hook, queued>>
  BY DEF BeginWork
<1>2. "rejected" \in Errors /\ target' \in [Ops -> {"no", "value", "error"}]
  BY <1>1 DEF Errors, Inv, Typed, Members, others
<1>3. CASE CanBegin(i) /\ executing' = [executing EXCEPT ![i] = TRUE] /\ Enter(t, Call("work", i, "none"))
  BY <1>1, <1>3, BeginsCallable
<1>4. CASE executing' = executing /\ stack' = stack
  BY <1>1, <1>2, <1>4, SourceDropped DEF operation, others
<1>5. CASE executing' = executing /\ Enter(t, Call("complete", i, "rejected"))
  BY <1>1, <1>2, <1>5, EnterCompletes DEF operation, others
<1> QED BY <1>3, <1>4, <1>5 DEF BeginWork

\* The callable has returned or thrown.
LEMMA EndWorkStep ==
    ASSUME Inv, NEW t \in Threads, EndWork(t)
    PROVE  Inv'
PROOF
<1> DEFINE i == Head(stack[t]).op
<1>1. /\ In(t, "work")
      /\ UNCHANGED <<coroutine, result, cancellation, operation, others, hook, source, queued>>
  BY DEF EndWork
<1>2. i \in Ops
  BY <1>1, Inside DEF Inv, Typed, Aware
<1>3. PICK e \in {"none", "error"} : Become(t, <<Call("complete", i, e)>>)
  BY DEF EndWork, Op
<1>4. PICK a : a = Call("complete", i, e)
  OBVIOUS
<1>5. a \in CallSet /\ a.step = "complete" /\ a.op = i /\ a.err \in Errors
  BY <1>2, <1>4, CompleteCall DEF Errors
<1>6. /\ After(Head(stack[t]), {a})
      /\ Count(stack', Runners) = Count(stack, Runners)
      /\ \A j : Count(stack', TicketsOf(j)) = Count(stack, TicketsOf(j))
      /\ \A j \in Ops : Count(stack', CallablesOf(j)) <= 1
  BY <1>1, <1>3, <1>4, <1>5, CallableGoes
<1> QED BY <1>1, <1>5, <1>6, CallableEnds DEF operation, others

-----------------------------------------------------------------------------
(* The invariant holds from the beginning, and every step keeps it.        *)

\* No call is in progress at first, and nothing is registered.
LEMMA InitInv ==
    ASSUME Init
    PROVE  Inv
PROOF
<1>1. /\ stack \in Stacks /\ InProgress(stack) = {}
      /\ \A K : Count(stack, K) = 0
  <2>1. \A t \in Threads : stack[t] = <<>> /\ DOMAIN stack[t] = {}
    BY DEF Init
  <2>2. stack \in Stacks
    BY DEF Init, Stacks
  <2>3. InProgress(stack) = {}
    BY <2>1 DEF InProgress
  <2>4. \A K : Places(stack, K) = {}
    BY <2>1 DEF Places
  <2> QED BY <2>2, <2>3, <2>4, FS_EmptySet DEF Count
<1>2. Len(Kinds) \in Nat /\ MaxStops \in Nat /\ \A i \in Ops : i # 0 /\ i \in Nat
  BY TaskCoreAssumption DEF Ops
<1>3. Members
  <2>1. /\ {running, resumePending, executionFinished, started} \subseteq BOOLEAN
        /\ {completed, cancelRequested, tokenStop, spawned, frame} \subseteq BOOLEAN
        /\ settled \in {"no", "value", "error", "cancelled"}
    BY DEF Init
  <2>2. next \in 0 .. Len(Kinds) /\ awaiting \in {0, next} /\ stops \in 0 .. MaxStops /\ queued \subseteq Ops
    BY <1>2 DEF Init
  <2>3. /\ claimed \in [Ops -> BOOLEAN] /\ executing \in [Ops -> BOOLEAN]
        /\ failure \in [Ops -> {"none", "error", "cancelled", "rejected"}]
        /\ source \in [Ops -> BOOLEAN] /\ target \in [Ops -> {"no", "value", "error"}]
    BY DEF Init
  <2>4. hook \in [Ops -> {"off", "on"} \cup Threads] /\ \A i \in Ops : failure[i] = "none"
    BY DEF Init
  <2> QED BY <2>1, <2>2, <2>3, <2>4 DEF Members
<1>4. Typed /\ Life /\ OneRuns
  BY <1>1, <1>3 DEF Init, Typed, Life, OneRuns
<1>5. TicketsMatch
  <2>1. \A i \in Ops : ~Deferred(i)
    BY <1>2 DEF Init, Deferred
  <2> QED BY <1>1, <2>1 DEF Init, TicketsMatch, TicketCount
<1>6. Unused /\ Registered /\ Operate
  BY <1>1 DEF Init, Unused, Registered, Operate
<1> QED BY <1>4, <1>5, <1>6 DEF Inv

\* A step that changes nothing keeps the invariant.
LEMMA StutterStep ==
    ASSUME Inv, UNCHANGED vars
    PROVE  Inv'
PROOF
<1>1. /\ UNCHANGED <<coroutine, result, cancellation, operation, others, hook, source, queued>>
      /\ stack' = stack
  BY DEF vars
<1>2. Members'
  BY <1>1 DEF Inv, Typed, Members, coroutine, result, cancellation, operation, others
<1>3. Typed'
  BY <1>1, <1>2, TypesKept DEF Inv, Typed
<1>4. Life' /\ OneRuns'
  BY <1>1, CoroutineKept DEF Inv, Life, result, cancellation, operation, others
<1>5. TicketsMatch'
  BY <1>1, TicketsKept DEF Some, coroutine, operation, others, Inv, Typed
<1>6. Unused' /\ Registered' /\ Operate'
  BY <1>1, OperationsKept DEF Some, coroutine, others, Stopping, cancellation
<1> QED BY <1>3, <1>4, <1>5, <1>6 DEF Inv

\* Every step keeps it.
LEMMA InvStep ==
    ASSUME Inv, [Next]_vars
    PROVE  Inv'
PROOF
<1>1. ASSUME NEW t \in Threads, Continue(t) \/ Spawn(t) \/ RequestStop(t)
      PROVE  Inv'
  <2>1. CASE Complete(t) \/ Cancel(t) \/ Resume(t) \/ Run(t) \/ Leave(t) \/ Destroy(t)
             \/ Finish(t) \/ CompleteExecution(t)
    BY <2>1, CompleteStep, CancelStep, ResumeStep, RunStep, LeaveStep, DestroyStep, FinishStep,
       CompleteExecutionStep
  <2>2. CASE Body(t) \/ Settle(t) \/ AwaitReady(t) \/ Suspend(t) \/ Arm(t) \/ Wake(t) \/ Unhook(t)
    BY <2>2, BodyStep, SettleStep, AwaitReadyStep, SuspendStep, ArmStep, WakeStep, UnhookStep
  <2>3. CASE EndProbe(t) \/ EndWork(t)
    BY <2>3, EndProbeStep, EndWorkStep
  <2>4. CASE CancelResult(t) \/ StopToken(t) \/ RunCallback(t) \/ CallbackDone(t)
    BY <2>4, CancelResultStep, StopTokenStep, RunCallbackStep, CallbackDoneStep
  <2>5. CASE Spawn(t) \/ RequestStop(t)
    BY <2>5, SpawnStep, RequestStopStep
  <2> QED BY <1>1, <2>1, <2>2, <2>3, <2>4, <2>5 DEF Continue
<1>2. ASSUME NEW t \in Threads, NEW i \in Ops,
             Fire(t, i) \/ TargetSettles(t, i) \/ BeginProbe(t, i) \/ BeginWork(t, i) \/ Deliver(t, i)
      PROVE  Inv'
  BY <1>2, FireStep, TargetSettlesStep, BeginProbeStep, BeginWorkStep, DeliverStep
<1>3. CASE UNCHANGED vars
  BY <1>3, StutterStep
<1> QED BY <1>1, <1>2, <1>3 DEF Next, Delivered

\* The calls in progress are what their steps allow, in every reachable state.
THEOREM Invariance == Safe => []Inv
PROOF
<1>1. Init => Inv
  BY InitInv
<1>2. Inv /\ [Next]_vars => Inv'
  BY InvStep
<1> QED BY <1>1, <1>2, PTL DEF Safe

-----------------------------------------------------------------------------
(* The properties.                                                         *)

\* Calls, as the properties count them, are the places of such calls.
LEMMA CallsArePlaces ==
    ASSUME stack \in Stacks, NEW S, NEW K, \A c \in CallSet : c \in K <=> c.step \in S
    PROVE  /\ Calls(S) = Places(stack, K)
           /\ Calls(S) # {} <=> Some(S)
           /\ \A c \in Calls(S) : stack[c[1]][c[2]] \in InProgress(stack) /\ stack[c[1]][c[2]].step \in S
PROOF
<1>1. \A t \in Threads : \A d \in DOMAIN stack[t] : stack[t][d] \in CallSet
  BY DEF Stacks
<1>2. \A t \in Threads : Frames(t, S) = {d \in DOMAIN stack[t] : stack[t][d] \in K}
  BY <1>1 DEF Frames
<1>3. Calls(S) = Places(stack, K)
  BY <1>2 DEF Calls, Places
<1>4. \A p : p \in Calls(S) <=>
          \E t \in Threads : \E d \in DOMAIN stack[t] : p = <<t, d>> /\ stack[t][d].step \in S
  BY DEF Calls, Frames
<1>5. \A c \in Calls(S) : stack[c[1]][c[2]] \in InProgress(stack) /\ stack[c[1]][c[2]].step \in S
  BY <1>4 DEF InProgress
<1>6. ASSUME Some(S)
      PROVE  Calls(S) # {}
  <2>1. PICK x \in InProgress(stack) : x.step \in S
    BY <1>6 DEF Some
  <2>2. PICK t \in Threads : x \in {stack[t][d] : d \in DOMAIN stack[t]}
    BY <2>1 DEF InProgress
  <2>3. PICK d \in DOMAIN stack[t] : x = stack[t][d]
    BY <2>2
  <2> QED BY <1>4, <2>1, <2>3
<1>7. Calls(S) # {} => Some(S)
  BY <1>5 DEF Some
<1> QED BY <1>3, <1>5, <1>6, <1>7

\* Each part of the invariant gives one of the properties.
LEMMA InvOneRunner == Inv => OneRunner
PROOF
<1> SUFFICES ASSUME Inv
             PROVE  OneRunner
  OBVIOUS
<1>1. /\ Calls(BodySteps) = Places(stack, Runners)
      /\ Calls(BodySteps) # {} <=> Some(BodySteps)
  BY CallsArePlaces, WhatIsCounted DEF Inv, Typed
<1>2. TypeOK
  BY CallsTyped DEF Inv, Typed, TypeOK
<1> QED BY <1>1, <1>2 DEF Inv, OneRuns, OneRunner, Some, Runs, Count

\* The tickets are counted by the invariant as by the property.
LEMMA InvOneTicketEach == Inv => OneTicketEach
PROOF
<1> SUFFICES ASSUME Inv, NEW i \in Ops
             PROVE  /\ Tickets(i) = IF claimed[i] /\ awaiting = i THEN 1 ELSE 0
                    /\ claimed[i] /\ Kinds[i] = "result" /\ failure[i] = "none" => target[i] # "no"
  BY DEF OneTicketEach
<1>1. {c \in Calls({"resume"}) : stack[c[1]][c[2]].op = i} = Places(stack, TicketsOf(i))
  <2>1. \A t \in Threads : \A d \in DOMAIN stack[t] : stack[t][d] \in CallSet
    BY DEF Inv, Typed, Stacks
  <2>2. \A p : p \in {c \in Calls({"resume"}) : stack[c[1]][c[2]].op = i} <=>
            \E t \in Threads : \E d \in DOMAIN stack[t] :
               p = <<t, d>> /\ stack[t][d].step = "resume" /\ stack[t][d].op = i
    BY DEF Calls, Frames
  <2>3. \A p : p \in Places(stack, TicketsOf(i)) <=>
            \E t \in Threads : \E d \in DOMAIN stack[t] : p = <<t, d>> /\ stack[t][d] \in TicketsOf(i)
    BY DEF Places
  <2> QED BY <2>1, <2>2, <2>3, WhatIsCounted
<1>2. Calls({"run", "wake"}) # {} <=> Some({"run", "wake"})
  <2> DEFINE K == {c \in CallSet : c.step \in {"run", "wake"}}
  <2>1. \A c \in CallSet : c \in K <=> c.step \in {"run", "wake"}
    OBVIOUS
  <2> HIDE DEF K
  <2> QED BY <2>1, CallsArePlaces DEF Inv, Typed
<1>3. Tickets(i) = TicketCount(i)
  BY <1>1, <1>2 DEF Tickets, TicketCount, Deferred, Count
<1> QED BY <1>3 DEF Inv, TicketsMatch, Registered

\* A callable that runs is the invariant's Executes.
LEMMA InvCallableKeepsFrame == Inv => CallableKeepsFrame
PROOF
<1> SUFFICES ASSUME Inv
             PROVE  CallableKeepsFrame
  OBVIOUS
<1> DEFINE K == {c \in CallSet : c.step \in {"work", "probe"}}
<1>1. \A c \in CallSet : c \in K <=> c.step \in {"work", "probe"}
  OBVIOUS
<1> HIDE DEF K
<1>2. \A c \in Calls({"work", "probe"}) :
         stack[c[1]][c[2]] \in InProgress(stack) /\ stack[c[1]][c[2]].step \in {"work", "probe"}
  BY <1>1, CallsArePlaces DEF Inv, Typed
<1>3. \A c \in InProgress(stack) : c.step \in {"work", "probe"} =>
         awaiting = c.op /\ ~claimed[c.op] /\ awaiting # 0
  BY TaskCoreAssumption DEF Inv, Operate, Executes, Typed, Aware, Ops
<1> QED BY <1>2, <1>3 DEF CallableKeepsFrame, Inv, Life

\* Once the execution is finished every call that the property excludes has gone.
LEMMA InvCompletedIsQuiet == Inv => CompletedIsQuiet
PROOF
<1> SUFFICES ASSUME Inv, completed
             PROVE  /\ settled # "no"
                    /\ ~frame /\ ~running
                    /\ queued = {} /\ Calls({"resume"} \cup BodySteps) = {}
                    /\ \A i \in Ops : hook[i] = "off" /\ (source[i] => Outlives(i) /\ claimed[i])
  BY DEF CompletedIsQuiet
<1>1. executionFinished /\ ~running /\ ~frame /\ settled # "no" /\ awaiting = 0 /\ started
  BY DEF Inv, Life
<1>2. \A i \in Ops : i # 0
  BY TaskCoreAssumption DEF Ops
<1>3. \A c \in InProgress(stack) : c.step \notin BodySteps
  BY <1>1 DEF Inv, OneRuns, Runs
<1>4. \A i \in Ops : Count(stack, TicketsOf(i)) = 0 /\ i \notin queued
  <2>1. \A i \in Ops : TicketCount(i) = 0 /\ Count(stack, TicketsOf(i)) \in Nat
    BY <1>1, <1>2, CallsTyped DEF Inv, TicketsMatch, Typed
  <2> QED BY <2>1 DEF TicketCount
<1>5. \A c \in InProgress(stack) : c.step # "resume"
  BY TicketParts, <1>1
<1>6. Calls({"resume"} \cup BodySteps) = {}
  <2> DEFINE S == {"resume"} \cup BodySteps
  <2> DEFINE K == {c \in CallSet : c.step \in S}
  <2>1. \A c \in CallSet : c \in K <=> c.step \in S
    OBVIOUS
  <2>2. ~Some(S)
    BY <1>3, <1>5 DEF Some
  <2>3. stack \in Stacks
    BY DEF Inv, Typed
  <2> HIDE DEF S, K
  <2>4. Calls(S) = {}
    BY <2>1, <2>2, <2>3, CallsArePlaces
  <2> QED BY <2>4 DEF S
<1>7. queued = {}
  BY <1>4 DEF Inv, Typed, Members
<1>8. ASSUME NEW i \in Ops
      PROVE  hook[i] = "off" /\ (source[i] => Outlives(i) /\ claimed[i])
  BY <1>1, <1>2, <1>3 DEF Inv, Registered, Some, BodySteps
<1> QED BY <1>1, <1>6, <1>7, <1>8

\* resume admits one call to the coroutine at a time: while it runs, whatever the others
\* do is deferred to resumePending, and nothing runs once the execution is finished.
THEOREM RunsAlone == Safe => []OneRunner
PROOF BY Invariance, InvOneRunner, PTL

\* complete and cancel race for the operation, and whoever claims it makes its one
\* resume_ticket; until the co_await is left that ticket is delivered, queued or deferred.
THEOREM OneTicket == Safe => []OneTicketEach
PROOF BY Invariance, InvOneTicketEach, PTL

\* cancel leaves an operation alone whose callable runs, and endProbe and the end of
\* the callable come before anything that resumes: the frame outlives the callable.
THEOREM CallableSafe == Safe => []CallableKeepsFrame
PROOF BY Invariance, InvCallableKeepsFrame, PTL

\* completeExecution is the last thing that happens to a coroutine: no ticket, no stop
\* callback and no registration that could still reach it is left.
THEOREM Quiescence == Safe => []CompletedIsQuiet
PROOF BY Invariance, InvCompletedIsQuiet, PTL
=============================================================================
