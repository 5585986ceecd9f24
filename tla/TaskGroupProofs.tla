-------------------------- MODULE TaskGroupProofs --------------------------
(***************************************************************************)
(* The group for any threads, any tasks and any trees of tasks that await  *)
(* each other: a finished group is quiet, and a task has one execution.    *)
(***************************************************************************)
EXTENDS TaskGroup, WellFoundedInduction, SequenceTheorems, FiniteSetTheorems, TLAPS

CallSet == [op : Ops, task : Tasks \cup {0}, left : SUBSET Tasks]
Stacks == [Threads -> Seq(CallSet)]

-----------------------------------------------------------------------------
(* The inductive invariant.  P is the phase of each task, K the task that  *)
(* it awaits, and N the tasks that were resumed in await_suspend.          *)

\* The calls that carry a task on, of which it has one at most; the frame that is
\* destroyed belongs to the call below.  And those that tell it of its child's end.
Carrying == {"resume", "body", "start", "leave", "wake", "callable", "complete"}
Telling == {"notify", "wake"}

\* What a call relies on.
Good(c, P, K, N) ==
    /\ c.op \notin {"stopEach", "joining"} => c.task \in Tasks
    /\ c.op = "resume" => P[c.task] = "spawned" /\ K[c.task] = 0
    /\ c.op \in {"body", "destroy", "complete"} => P[c.task] = "running" /\ K[c.task] = 0
    /\ c.op = "callable" => P[c.task] = "working" /\ K[c.task] = 0
    /\ c.op \in {"start", "leave", "wake"} => P[c.task] = "running" /\ K[c.task] # 0
    /\ c.op = "start" => P[K[c.task]] = "spawned"
    /\ c.op = "notify" => P[c.task] \in {"running", "awaiting"} /\ K[c.task] # 0
    /\ c.op \in Telling => P[K[c.task]] = "completed" /\ c.task \notin N

\* What two calls in progress have to do with each other.
Apart(c, e, K) ==
    /\ c.op \in Carrying /\ e.op \in Carrying => c.task # e.task
    /\ c.op \in Telling /\ e.op \in Telling => c.task # e.task
    /\ c.op = "start" /\ e.op = "resume" => K[c.task] # e.task

\* A task that awaits another is on its way from the one to the other, and of its children
\* only this one is neither lazy nor completed.
Fits(P, K, N) == \A x \in Tasks :
    /\ K[x] # 0 =>
         /\ Parent[K[x]] = x /\ P[x] \in {"running", "awaiting", "queued"} /\ P[K[x]] # "lazy"
         /\ P[x] = "queued" => P[K[x]] = "completed"
    /\ P[x] = "awaiting" => K[x] # 0
    /\ x \in N => K[x] # 0 /\ P[x] = "running" /\ P[K[x]] = "completed"
    /\ Parent[x] # 0 /\ P[x] \notin {"lazy", "completed"} => K[Parent[x]] = x

Types ==
    /\ phase \in [Tasks -> Phases] /\ child \in [Tasks -> Tasks \cup {0}] /\ pending \subseteq Tasks
    /\ told \in [Tasks -> BOOLEAN] /\ tokenStop \in [Tasks -> BOOLEAN]
    /\ hook \in [Tasks -> {"off", "on"} \cup Threads]
    /\ stopping \in BOOLEAN /\ tasks \subseteq owned /\ owned \subseteq Roots
    /\ stops \in 0 .. MaxStops /\ joins \in 0 .. MaxJoins

Calls ==
    /\ \A t \in Threads : \A d \in DOMAIN stack[t] : Good(stack[t][d], phase, child, pending)
    /\ \A t, u \in Threads : \A d \in DOMAIN stack[t], e \in DOMAIN stack[u] :
         Apart(stack[t][d], stack[u][e], child) \/ (t = u /\ d = e)
    /\ \A t \in Threads : \A d \in DOMAIN stack[t] : stack[t][d].op = "destroy" =>
         d + 1 \in DOMAIN stack[t] /\ stack[t][d + 1].op = "complete" /\ stack[t][d + 1].task = stack[t][d].task

\* What was erased is completed, and a callback that can run has a child to stop.
Kin ==
    /\ \A x \in owned \ tasks : Completed(x)
    /\ \A x \in Tasks : hook[x] = "on" => child[x] # 0

GroupInv == Types /\ stack \in Stacks /\ Calls /\ Fits(phase, child, pending) /\ Kin

-----------------------------------------------------------------------------
(* Stacks.                                                                 *)

\* Calls New take the place of the k innermost calls of thread t.
Replaces(t, New, k) ==
    /\ k \in {0, 1} /\ (k = 1 => stack[t] # <<>>)
    /\ stack' = [stack EXCEPT ![t] = New \o (IF k = 1 THEN Tail(@) ELSE @)]

\* What was in the stacks stays where it was, or moves on its own stack.
Moved(t, New, k) ==
    /\ stack' \in Stacks
    /\ \A u \in Threads : u # t => stack'[u] = stack[u]
    /\ \A d \in DOMAIN New : d \in DOMAIN stack'[t] /\ stack'[t][d] = New[d]
    /\ \A d \in DOMAIN stack[t] : d > k =>
          d + Len(New) - k \in DOMAIN stack'[t] /\ stack'[t][d + Len(New) - k] = stack[t][d]
    /\ \A d \in DOMAIN stack'[t] :
          \/ d \in DOMAIN New
          \/ /\ d - Len(New) + k \in DOMAIN stack[t] /\ d - Len(New) + k > k
             /\ stack'[t][d] = stack[t][d - Len(New) + k]

\* Whatever replaces calls moves the others.
LEMMA ReplacingMoves ==
    ASSUME stack \in Stacks, NEW t \in Threads, NEW New \in Seq(CallSet), NEW k, Replaces(t, New, k)
    PROVE  Moved(t, New, k)
<1> DEFINE rest == IF k = 1 THEN Tail(stack[t]) ELSE stack[t]
<1>1. /\ stack[t] \in Seq(CallSet) /\ Len(stack[t]) \in Nat /\ DOMAIN stack[t] = 1 .. Len(stack[t])
      /\ k \in {0, 1} /\ (k = 1 => stack[t] # <<>>)
      /\ Len(New) \in Nat /\ DOMAIN New = 1 .. Len(New)
  BY DEF Stacks, Replaces
<1>2. /\ rest \in Seq(CallSet) /\ Len(rest) = Len(stack[t]) - k /\ Len(rest) \in Nat
      /\ \A d \in 1 .. Len(rest) : rest[d] = stack[t][d + k]
  <2>1. CASE k = 0
    BY <1>1, <2>1
  <2>2. CASE k = 1
    BY <1>1, <2>2
  <2> QED BY <1>1, <2>1, <2>2
<1>3. stack'[t] = New \o rest /\ \A u \in Threads : u # t => stack'[u] = stack[u]
  BY DEF Stacks, Replaces
<1> HIDE DEF rest
<1>4. New \o rest \in Seq(CallSet)
  BY <1>2
<1>5. stack' \in Stacks
  BY <1>3, <1>4 DEF Stacks, Replaces
<1>6. /\ Len(stack'[t]) = Len(New) + Len(rest) /\ DOMAIN stack'[t] = 1 .. Len(New) + Len(rest)
      /\ \A d \in 1 .. Len(New) : stack'[t][d] = New[d]
      /\ \A d \in 1 .. Len(rest) : stack'[t][Len(New) + d] = rest[d]
  <2> DEFINE all == New \o rest
  <2>1. Len(all) = Len(New) + Len(rest)
    BY SMTT(30), <1>2
  <2>2. DOMAIN all = 1 .. Len(New) + Len(rest)
    <3>1. DOMAIN all = 1 .. Len(all)
      BY <1>4, LenProperties
    <3> HIDE DEF all
    <3> QED BY <2>1, <3>1
  <2>3. ASSUME NEW d \in 1 .. Len(New)
        PROVE  all[d] = New[d]
    BY <1>1, <1>2, <2>3
  <2>4. ASSUME NEW d \in 1 .. Len(rest)
        PROVE  all[Len(New) + d] = rest[d]
    BY <1>1, <1>2, <2>4
  <2> HIDE DEF all
  <2>5. stack'[t] = all
    BY <1>3 DEF all
  <2> QED BY <2>1, <2>2, <2>3, <2>4, <2>5
<1>7. \A d \in DOMAIN New : d \in DOMAIN stack'[t] /\ stack'[t][d] = New[d]
  BY <1>1, <1>2, <1>6
<1>8. ASSUME NEW d \in DOMAIN stack[t], d > k
      PROVE  d + Len(New) - k \in DOMAIN stack'[t] /\ stack'[t][d + Len(New) - k] = stack[t][d]
  <2>1. d - k \in 1 .. Len(rest) /\ (d - k) + k = d /\ Len(New) + (d - k) = d + Len(New) - k
    BY <1>1, <1>2, <1>8
  <2>2. stack'[t][Len(New) + (d - k)] = rest[d - k] /\ rest[d - k] = stack[t][d]
    BY <1>2, <1>6, <2>1
  <2>3. d + Len(New) - k \in 1 .. Len(New) + Len(rest)
    BY <1>1, <1>2, <1>8
  <2> QED BY <1>6, <2>1, <2>2, <2>3
<1>9. ASSUME NEW d \in DOMAIN stack'[t], d \notin DOMAIN New
      PROVE  /\ d - Len(New) + k \in DOMAIN stack[t] /\ d - Len(New) + k > k
             /\ stack'[t][d] = stack[t][d - Len(New) + k]
  <2>1. d - Len(New) \in 1 .. Len(rest) /\ Len(New) + (d - Len(New)) = d
    BY <1>1, <1>2, <1>6, <1>9
  <2>2. stack'[t][d] = rest[d - Len(New)] /\ rest[d - Len(New)] = stack[t][d - Len(New) + k]
    BY <1>2, <1>6, <2>1
  <2>3. d - Len(New) + k \in 1 .. Len(stack[t]) /\ d - Len(New) + k > k
    BY <1>1, <1>2, <2>1
  <2> QED BY <1>1, <2>2, <2>3
<1> QED BY <1>3, <1>5, <1>7, <1>8, <1>9 DEF Moved

\* The calls that a step takes from a stack.
Removed(t, k) == IF k = 1 THEN {stack[t][1]} ELSE {}

\* A call that is in progress beside those in Old.
Other(c, Old, P, K, N) ==
    /\ c \in CallSet /\ Good(c, P, K, N)
    /\ \A o \in Old : /\ Apart(c, o, K) /\ Apart(o, c, K)
                      /\ (o.op \in Carrying /\ c.op = "destroy" => c.task # o.task)

\* What a step has to show that makes the calls New of the calls Old.
Keeps(Old, New, P, K, N, Q, L, M) ==
    /\ \A c \in CallSet : Other(c, Old, P, K, N) => Good(c, Q, L, M)
    /\ \A c, e \in CallSet : Other(c, Old, P, K, N) /\ Other(e, Old, P, K, N) /\ Apart(c, e, K) => Apart(c, e, L)
    /\ \A d \in DOMAIN New : Good(New[d], Q, L, M)
    /\ \A d, e \in DOMAIN New : d = e \/ Apart(New[d], New[e], L)
    /\ \A c \in CallSet : \A d \in DOMAIN New : Other(c, Old, P, K, N) => Apart(c, New[d], L) /\ Apart(New[d], c, L)
    /\ \A d \in DOMAIN New : New[d].op = "destroy" =>
         d + 1 \in DOMAIN New /\ New[d + 1].op = "complete" /\ New[d + 1].task = New[d].task

\* What stays on the stacks was beside what the step takes.
LEMMA OthersStay ==
    ASSUME stack \in Stacks, Calls, NEW t \in Threads, NEW New \in Seq(CallSet), NEW k \in {0, 1},
           k = 1 => stack[t] # <<>>, NEW u \in Threads, NEW e \in DOMAIN stack[u], u = t => e > k
    PROVE  Other(stack[u][e], Removed(t, k), phase, child, pending)
<1>1. \A v \in Threads : stack[v] \in Seq(CallSet) /\ DOMAIN stack[v] = 1 .. Len(stack[v]) /\ Len(stack[v]) \in Nat
  BY DEF Stacks
<1>2. stack[u][e] \in CallSet /\ Good(stack[u][e], phase, child, pending) /\ e \in Nat /\ e > 0
  BY <1>1 DEF Calls
<1>3. ASSUME k = 1
      PROVE  /\ Apart(stack[u][e], stack[t][1], child) /\ Apart(stack[t][1], stack[u][e], child)
             /\ (stack[t][1].op \in Carrying /\ stack[u][e].op = "destroy" => stack[u][e].task # stack[t][1].task)
  <2>1. 1 \in DOMAIN stack[t] /\ ~(u = t /\ e = 1)
    BY <1>1, <1>3
  <2>2. Apart(stack[u][e], stack[t][1], child) /\ Apart(stack[t][1], stack[u][e], child)
    BY <2>1 DEF Calls
  <2>3. ASSUME stack[t][1].op \in Carrying, stack[u][e].op = "destroy", stack[u][e].task = stack[t][1].task PROVE FALSE
    <3>1. e + 1 \in DOMAIN stack[u] /\ stack[u][e + 1].op = "complete" /\ stack[u][e + 1].task = stack[t][1].task
      BY <2>3 DEF Calls
    <3>2. e + 1 # 1
      BY <1>2
    <3>3. Apart(stack[u][e + 1], stack[t][1], child)
      BY <2>1, <3>1, <3>2 DEF Calls
    <3> QED BY <2>3, <3>1, <3>3 DEF Apart, Carrying
  <2> QED BY <2>2, <2>3
<1> QED BY <1>2, <1>3 DEF Other, Removed

LEMMA StepKeeps ==
    ASSUME stack \in Stacks, Calls, NEW t \in Threads, NEW New \in Seq(CallSet), NEW k \in {0, 1},
           Replaces(t, New, k),
           Keeps(Removed(t, k), New, phase, child, pending, phase', child', pending')
    PROVE  Calls' /\ stack' \in Stacks
<1> DEFINE Was(u, d) == IF u = t THEN d - Len(New) + k ELSE d
           Stays(u, d) == /\ Was(u, d) \in DOMAIN stack[u] /\ stack'[u][d] = stack[u][Was(u, d)]
                          /\ u = t => Was(u, d) > k
           Old(c) == c \in CallSet /\ Other(c, Removed(t, k), phase, child, pending)
<1>1. Moved(t, New, k) /\ (k = 1 => stack[t] # <<>>)
  BY ReplacingMoves DEF Replaces
<1>2. stack' \in Stacks /\ Len(New) \in Nat /\ DOMAIN New = 1 .. Len(New)
  BY <1>1 DEF Moved
<1>3. \A u \in Threads : \A d \in DOMAIN stack'[u] : d \in Nat
  BY <1>2 DEF Stacks
<1>4. \A u \in Threads : \A d \in DOMAIN stack'[u] : Stays(u, d) \/ (u = t /\ d \in DOMAIN New /\ stack'[u][d] = New[d])
  BY <1>1 DEF Moved
<1>5. \A u, v \in Threads : \A d \in DOMAIN stack'[u], e \in DOMAIN stack'[v] :
        (u = v /\ d = e) \/ ~(u = v /\ Was(u, d) = Was(v, e))
  BY <1>2, <1>3
<1>6. \A u \in Threads : \A d \in DOMAIN stack'[u] : Stays(u, d) => Old(stack'[u][d])
  BY <1>1, OthersStay DEF Other
<1> HIDE DEF Was
<1>7. \A u \in Threads : \A d \in DOMAIN stack'[u] : Good(stack'[u][d], phase', child', pending')
  BY <1>4, <1>6 DEF Keeps
<1>8. ASSUME NEW u \in Threads, NEW v \in Threads,
             NEW d \in DOMAIN stack'[u], NEW e \in DOMAIN stack'[v], ~(u = v /\ d = e)
      PROVE  Apart(stack'[u][d], stack'[v][e], child')
  <2>1. CASE Stays(u, d) /\ Stays(v, e)
    <3>1. Apart(stack'[u][d], stack'[v][e], child)
      BY <2>1, <1>5, <1>8 DEF Calls
    <3> QED BY <2>1, <3>1, <1>6 DEF Keeps
  <2>2. CASE Stays(u, d) /\ v = t /\ e \in DOMAIN New /\ stack'[v][e] = New[e]
    BY <2>2, <1>6 DEF Keeps
  <2>3. CASE Stays(v, e) /\ u = t /\ d \in DOMAIN New /\ stack'[u][d] = New[d]
    BY <2>3, <1>6 DEF Keeps
  <2>4. CASE u = t /\ v = t /\ d \in DOMAIN New /\ e \in DOMAIN New /\ stack'[u][d] = New[d] /\ stack'[v][e] = New[e]
    BY <2>4, <1>8 DEF Keeps
  <2> QED BY <2>1, <2>2, <2>3, <2>4, <1>4
<1>9. ASSUME NEW u \in Threads, NEW d \in DOMAIN stack'[u], stack'[u][d].op = "destroy"
      PROVE  d + 1 \in DOMAIN stack'[u] /\ stack'[u][d + 1].op = "complete" /\ stack'[u][d + 1].task = stack'[u][d].task
  <2>1. CASE u = t /\ d \in DOMAIN New /\ stack'[u][d] = New[d]
    <3>1. d + 1 \in DOMAIN New /\ New[d + 1].op = "complete" /\ New[d + 1].task = New[d].task
      BY <2>1, <1>9 DEF Keeps
    <3> QED BY <2>1, <3>1, <1>1 DEF Moved
  <2>2. CASE Stays(u, d)
    <3> DEFINE e == Was(u, d)
    <3>1. e + 1 \in DOMAIN stack[u] /\ stack[u][e + 1].op = "complete" /\ stack[u][e + 1].task = stack'[u][d].task
      BY <2>2, <1>9 DEF Calls
    <3>2. d + 1 \in DOMAIN stack'[u] /\ stack'[u][d + 1] = stack[u][e + 1]
      <4>1. CASE u # t
        BY <4>1, <3>1, <1>1 DEF Moved, Was
      <4>2. CASE u = t
        <5>1. e + 1 > k /\ (e + 1) + Len(New) - k = d + 1
          <6>0. u = t => e > k
            BY <2>2
          <6>1. e = d - Len(New) + k
            BY <4>2 DEF Was
          <6>2. d \in Nat /\ k \in {0, 1}
            BY <1>3
          <6> HIDE DEF e
          <6> QED BY <6>0, <6>1, <6>2, <4>2, <1>2
        <5>2. (e + 1) + Len(New) - k \in DOMAIN stack'[t] /\ stack'[t][(e + 1) + Len(New) - k] = stack[t][e + 1]
          BY <4>2, <3>1, <5>1, <1>1 DEF Moved
        <5> QED BY <4>2, <5>1, <5>2
      <4> QED BY <4>1, <4>2
    <3> QED BY <3>1, <3>2
  <2> QED BY <2>1, <2>2, <1>4
<1> QED BY <1>2, <1>7, <1>8, <1>9 DEF Calls

\* The calls in progress beside Old stay as they are when the state does.
Spares(Old, P, K, N, Q, L, M) ==
    /\ \A c \in CallSet : Other(c, Old, P, K, N) => Good(c, Q, L, M)
    /\ \A c, e \in CallSet : Other(c, Old, P, K, N) /\ Other(e, Old, P, K, N) /\ Apart(c, e, K) => Apart(c, e, L)

\* A new call gets along with them.
Adds(a, Old, P, K, N, Q, L, M) ==
    /\ a \in CallSet /\ Good(a, Q, L, M)
    /\ \A c \in CallSet : Other(c, Old, P, K, N) => Apart(c, a, L) /\ Apart(a, c, L)

LEMMA NoneNew == ASSUME NEW Old, NEW P, NEW K, NEW N, NEW Q, NEW L, NEW M, Spares(Old, P, K, N, Q, L, M)
    PROVE <<>> \in Seq(CallSet) /\ Keeps(Old, <<>>, P, K, N, Q, L, M)
BY DEF Spares, Keeps

LEMMA OneNew == ASSUME NEW Old, NEW P, NEW K, NEW N, NEW Q, NEW L, NEW M, Spares(Old, P, K, N, Q, L, M),
                       NEW a, Adds(a, Old, P, K, N, Q, L, M), a.op # "destroy"
    PROVE <<a>> \in Seq(CallSet) /\ Keeps(Old, <<a>>, P, K, N, Q, L, M)
<1>1. PICK New : New = <<a>>
  OBVIOUS
<1>2. New \in Seq(CallSet) /\ \A d \in DOMAIN New : d = 1 /\ New[d] = a
  BY <1>1 DEF Adds
<1> QED BY <1>1, <1>2 DEF Spares, Adds, Keeps

LEMMA TwoNew == ASSUME NEW Old, NEW P, NEW K, NEW N, NEW Q, NEW L, NEW M, Spares(Old, P, K, N, Q, L, M),
                       NEW a, Adds(a, Old, P, K, N, Q, L, M), NEW b, Adds(b, Old, P, K, N, Q, L, M),
                       Apart(a, b, L), Apart(b, a, L), b.op # "destroy",
                       a.op = "destroy" => b.op = "complete" /\ b.task = a.task
    PROVE <<a, b>> \in Seq(CallSet) /\ Keeps(Old, <<a, b>>, P, K, N, Q, L, M)
<1>1. PICK New : New = <<a, b>>
  OBVIOUS
<1>2. New \in Seq(CallSet) /\ DOMAIN New = {1, 2} /\ New[1] = a /\ New[2] = b
  BY <1>1 DEF Adds
<1> QED BY <1>1, <1>2 DEF Spares, Adds, Keeps

\* A step that changes nothing but stacks keeps the calls that it leaves.
LEMMA SparesAll == ASSUME NEW Old, NEW P, NEW K, NEW N PROVE Spares(Old, P, K, N, P, K, N)
BY DEF Spares, Other

\* Calls that neither carry a task on nor tell it of its child.
Free == {"stopEach", "joining", "cancel", "token", "called"}

LEMMA FreeAdds == ASSUME NEW a \in CallSet, a.op \in Free, a.op \notin {"stopEach", "joining"} => a.task \in Tasks,
                         NEW Old, NEW P, NEW K, NEW N, NEW Q, NEW L, NEW M
    PROVE Adds(a, Old, P, K, N, Q, L, M)
BY DEF Adds, Good, Apart, Free, Carrying, Telling

-----------------------------------------------------------------------------
(* The operations.                                                         *)

\* What an operation has to show.
LEMMA Step ==
    ASSUME GroupInv, NEW t \in Threads, NEW New \in Seq(CallSet), NEW k \in {0, 1}, Replaces(t, New, k),
           Keeps(Removed(t, k), New, phase, child, pending, phase', child', pending'),
           Fits(phase', child', pending'), Types', Kin'
    PROVE  GroupInv'
BY StepKeeps DEF GroupInv

\* The innermost call of a thread.
LEMMA Top == ASSUME GroupInv, NEW t \in Threads, NEW op, In(t, op)
    PROVE /\ stack[t] # <<>> /\ stack[t][1] \in CallSet /\ Good(stack[t][1], phase, child, pending)
          /\ stack[t][1].op = op /\ stack[t][1].task = Task(t) /\ stack[t][1].left = Left(t)
          /\ Removed(t, 1) = {stack[t][1]}
<1>1. stack[t] \in Seq(CallSet) /\ stack[t] # <<>>
  BY DEF GroupInv, Stacks, In
<1>2. 1 \in DOMAIN stack[t] /\ Head(stack[t]) = stack[t][1]
  BY <1>1
<1> QED BY <1>1, <1>2 DEF GroupInv, Calls, In, Task, Left, Removed

LEMMA Enters == ASSUME NEW t, NEW a, Enter(t, a) PROVE Replaces(t, <<a>>, 0) /\ Removed(t, 0) = {}
BY DEF Enter, Replaces, Removed

LEMMA Becomes == ASSUME NEW t, NEW New, stack[t] # <<>>, Become(t, New) PROVE Replaces(t, New, 1)
BY DEF Become, Replaces
\* A step that only makes free calls, or ends one.
LEMMA FreeStep ==
    ASSUME GroupInv, NEW t \in Threads, NEW New \in Seq(CallSet), NEW k \in {0, 1}, Replaces(t, New, k),
           Keeps(Removed(t, k), New, phase, child, pending, phase, child, pending),
           phase' = phase, child' = child, pending' = pending, Types', Kin'
    PROVE  GroupInv'
<1>1. Fits(phase', child', pending')
  BY DEF GroupInv
<1> QED BY <1>1, Step

LEMMA FreeNone == ASSUME NEW Old, NEW P, NEW K, NEW N
    PROVE <<>> \in Seq(CallSet) /\ Keeps(Old, <<>>, P, K, N, P, K, N)
BY SparesAll, NoneNew

LEMMA FreeOne == ASSUME NEW Old, NEW P, NEW K, NEW N, NEW op \in Free, NEW x, NEW S \in SUBSET Tasks,
                        x \in Tasks \/ (x = 0 /\ op \in {"stopEach", "joining"})
    PROVE <<Call(op, x, S)>> \in Seq(CallSet) /\ Keeps(Old, <<Call(op, x, S)>>, P, K, N, P, K, N)
<1>1. PICK a : a = Call(op, x, S)
  OBVIOUS
<1>2. a \in CallSet /\ a.op = op /\ a.task = x /\ op # "destroy"
  BY <1>1 DEF Call, CallSet, Ops, Free
<1>3. Adds(a, Old, P, K, N, P, K, N)
  BY <1>2, FreeAdds
<1> QED BY <1>1, <1>2, <1>3, SparesAll, OneNew

LEMMA FreeTwo == ASSUME NEW Old, NEW P, NEW K, NEW N, NEW x \in Tasks, NEW op \in Free, NEW y, NEW S \in SUBSET Tasks,
                        y \in Tasks \/ (y = 0 /\ op \in {"stopEach", "joining"})
    PROVE LET two == <<At("cancel", x), Call(op, y, S)>> IN two \in Seq(CallSet) /\ Keeps(Old, two, P, K, N, P, K, N)
<1>1. PICK a, b : a = At("cancel", x) /\ b = Call(op, y, S)
  OBVIOUS
<1>2. /\ a \in CallSet /\ a.op = "cancel" /\ a.task = x
      /\ b \in CallSet /\ b.op = op /\ b.task = y /\ op # "destroy" /\ a.op \in Free
  BY <1>1 DEF At, Call, CallSet, Ops, Free
<1>3. Adds(a, Old, P, K, N, P, K, N) /\ Adds(b, Old, P, K, N, P, K, N)
  BY <1>2, FreeAdds
<1>4. Apart(a, b, K) /\ Apart(b, a, K)
  BY <1>2 DEF Apart, Free, Carrying, Telling
<1> QED BY <1>1, <1>2, <1>3, <1>4, SparesAll, TwoNew

\* The snapshot of a group is of tasks.
LEMMA Snapshot == ASSUME GroupInv PROVE tasks \in SUBSET Tasks
BY DEF GroupInv, Types, Roots

LEMMA RequestStopKeeps == ASSUME GroupInv, NEW t \in Threads, RequestStop(t) PROVE GroupInv'
<1>1. PICK New : New = <<Call("stopEach", 0, tasks)>>
  OBVIOUS
<1>2. Replaces(t, New, 0)
  BY <1>1, Enters DEF RequestStop
<1>3. New \in Seq(CallSet) /\ Keeps(Removed(t, 0), New, phase, child, pending, phase, child, pending)
  BY <1>1, FreeOne, Snapshot DEF Free
<1>4. Types' /\ Kin'
  <2>1. stops + 1 \in 0 .. MaxStops
    BY TaskGroupAssumption DEF GroupInv, Types, RequestStop
  <2> QED BY <2>1 DEF GroupInv, Types, Kin, RequestStop, Completed, execution, cancellation
<1> QED BY <1>2, <1>3, <1>4, FreeStep DEF RequestStop, execution

LEMMA StopEachKeeps == ASSUME GroupInv, NEW t \in Threads, StopEach(t) PROVE GroupInv'
<1>1. stack[t] # <<>> /\ Left(t) \in SUBSET Tasks
  BY Top DEF StopEach, CallSet
<1>2. Types' /\ Kin' /\ phase' = phase /\ child' = child /\ pending' = pending
  BY DEF GroupInv, Types, Kin, StopEach, Completed, group, execution, cancellation, counts
<1>3. CASE Left(t) = {} /\ Return(t)
  <2>1. Replaces(t, <<>>, 1)
    BY <1>1, <1>3, Becomes DEF Return
  <2> QED BY <2>1, <1>2, FreeNone, FreeStep
<1>4. CASE \E x \in Left(t) : LET rest == Call("stopEach", 0, Left(t) \ {x}) IN
             Become(t, IF Completed(x) THEN <<rest>> ELSE <<At("cancel", x), rest>>)
  <2>1. PICK x \in Left(t) : LET rest == Call("stopEach", 0, Left(t) \ {x}) IN
             Become(t, IF Completed(x) THEN <<rest>> ELSE <<At("cancel", x), rest>>)
    BY <1>4
  <2>2. PICK rest : rest = Call("stopEach", 0, Left(t) \ {x})
    OBVIOUS
  <2>3. CASE Completed(x)
    <3>1. Replaces(t, <<rest>>, 1)
      BY <2>1, <2>2, <2>3, <1>1, Becomes
    <3>2. <<rest>> \in Seq(CallSet) /\ Keeps(Removed(t, 1), <<rest>>, phase, child, pending, phase, child, pending)
      BY <2>2, <1>1, FreeOne DEF Free
    <3> QED BY <3>1, <3>2, <1>2, FreeStep
  <2>4. CASE ~Completed(x)
    <3>1. PICK New : New = <<At("cancel", x), rest>>
      OBVIOUS
    <3>2. Replaces(t, New, 1)
      BY <3>1, <2>1, <2>2, <2>4, <1>1, Becomes
    <3>3. New \in Seq(CallSet) /\ Keeps(Removed(t, 1), New, phase, child, pending, phase, child, pending)
      BY <3>1, <2>2, <1>1, FreeTwo DEF Free
    <3> QED BY <3>2, <3>3, <1>2, FreeStep
  <2> QED BY <2>3, <2>4
<1> QED BY <1>3, <1>4 DEF StopEach

LEMMA JoinKeeps == ASSUME GroupInv, NEW t \in Threads, Join(t) PROVE GroupInv'
<1>1. Types' /\ Kin' /\ phase' = phase /\ child' = child /\ pending' = pending
  <2>1. joins + 1 \in 0 .. MaxJoins
    BY TaskGroupAssumption DEF GroupInv, Types, Join
  <2> QED BY <2>1 DEF GroupInv, Types, Kin, Join, Completed, group, execution, cancellation
<1>2. CASE Enter(t, Call("joining", 0, tasks))
  <2>1. PICK New : New = <<Call("joining", 0, tasks)>>
    OBVIOUS
  <2>2. Replaces(t, New, 0)
    BY <2>1, <1>2, Enters
  <2>3. New \in Seq(CallSet) /\ Keeps(Removed(t, 0), New, phase, child, pending, phase, child, pending)
    BY <2>1, FreeOne, Snapshot DEF Free
  <2> QED BY <2>2, <2>3, <1>1, FreeStep
<1>3. CASE UNCHANGED stack
  BY <1>1, <1>3 DEF GroupInv, Calls, Stacks
<1> QED BY <1>2, <1>3 DEF Join

LEMMA JoinReturnsKeeps == ASSUME GroupInv, NEW t \in Threads, JoinReturns(t) PROVE GroupInv'
<1>1. Replaces(t, <<>>, 1)
  BY Top, Becomes DEF JoinReturns, Return
<1>2. Types' /\ Kin' /\ phase' = phase /\ child' = child /\ pending' = pending
  BY DEF GroupInv, Types, Kin, JoinReturns, Completed, group, execution, cancellation, counts
<1> QED BY <1>1, <1>2, FreeNone, FreeStep

LEMMA DestroyKeeps == ASSUME GroupInv, NEW t \in Threads, Destroy(t) PROVE GroupInv'
<1>1. Replaces(t, <<>>, 1)
  BY Top, Becomes DEF Destroy, Return
<1>2. Types' /\ Kin' /\ phase' = phase /\ child' = child /\ pending' = pending
  BY DEF GroupInv, Types, Kin, Destroy, Completed, group, execution, cancellation, counts
<1> QED BY <1>1, <1>2, FreeNone, FreeStep

LEMMA StopTaskKeeps == ASSUME GroupInv, NEW t \in Threads, NEW x \in Tasks, StopTask(t, x) PROVE GroupInv'
<1>1. PICK New : New = <<At("cancel", x)>>
  OBVIOUS
<1>2. Replaces(t, New, 0)
  BY <1>1, Enters DEF StopTask
<1>3. New \in Seq(CallSet) /\ Keeps(Removed(t, 0), New, phase, child, pending, phase, child, pending)
  BY <1>1, FreeOne DEF Free, At
<1>4. Types' /\ Kin'
  <2>1. stops + 1 \in 0 .. MaxStops
    BY TaskGroupAssumption DEF GroupInv, Types, StopTask
  <2> QED BY <2>1 DEF GroupInv, Types, Kin, StopTask, Completed, group, execution, cancellation
<1> QED BY <1>2, <1>3, <1>4, FreeStep DEF StopTask, execution

LEMMA CancelKeeps == ASSUME GroupInv, NEW t \in Threads, Cancel(t) PROVE GroupInv'
<1>1. stack[t] # <<>> /\ Task(t) \in Tasks
  BY Top DEF Cancel, Good
<1>2. PICK New : New = <<At("token", Task(t))>>
  OBVIOUS
<1>3. Replaces(t, New, 1)
  BY <1>1, <1>2, Becomes DEF Cancel
<1>4. New \in Seq(CallSet) /\ Keeps(Removed(t, 1), New, phase, child, pending, phase, child, pending)
  BY <1>1, <1>2, FreeOne DEF Free, At
<1>5. Types' /\ Kin'
  BY DEF GroupInv, Types, Kin, Cancel, Completed, group, execution, counts
<1> QED BY <1>3, <1>4, <1>5, FreeStep DEF Cancel, execution

LEMMA CalledKeeps == ASSUME GroupInv, NEW t \in Threads, Called(t) PROVE GroupInv'
<1>1. Replaces(t, <<>>, 1)
  BY Top, Becomes DEF Called, Return
<1>2. Types' /\ Kin' /\ phase' = phase /\ child' = child /\ pending' = pending
  BY DEF GroupInv, Types, Kin, Called, Completed, group, cancellation, counts
<1> QED BY <1>1, <1>2, FreeNone, FreeStep
-----------------------------------------------------------------------------
(* A task whose phase changes.                                             *)

\* The tables that the invariant is about.
Tables(P, K, N) == P \in [Tasks -> Phases] /\ K \in [Tasks -> Tasks \cup {0}] /\ N \subseteq Tasks /\ Fits(P, K, N)

LEMMA InvTables == ASSUME GroupInv PROVE Tables(phase, child, pending)
BY DEF GroupInv, Types, Tables

LEMMA ParentFacts == /\ 0 \notin Tasks
                     /\ \A x \in Tasks : (Parent[x] = 0 \/ Parent[x] \in Tasks) /\ Parent[x] # x
BY TaskGroupAssumption

\* In Q the phase of x is v, and the others are those of P.
Turned(Q, P, x, v) == Q = [P EXCEPT ![x] = v]

\* No call beside Old relies on the phase of x, if it is not about to be v.
Unbound(Old, P, K, N, x, v) == \A c \in CallSet : Other(c, Old, P, K, N) =>
    /\ c.task = x => c.op \notin Carrying \cup {"destroy"} /\ (c.op = "notify" => v \in {"running", "awaiting"})
    /\ c.op \in {"start"} \cup Telling => K[c.task] # x

LEMMA SparesPhase ==
    ASSUME NEW P, NEW K, NEW N, Tables(P, K, N), NEW x \in Tasks, NEW v, NEW Old, Unbound(Old, P, K, N, x, v),
           NEW Q, Turned(Q, P, x, v)
    PROVE  Spares(Old, P, K, N, Q, K, N)
<1>2. Q[x] = v /\ \A y : y # x => (y \in Tasks => Q[y] = P[y])
  BY DEF Tables, Turned
<1>3. K \in [Tasks -> Tasks \cup {0}]
  BY DEF Tables
<1>4. ASSUME NEW c \in CallSet, Other(c, Old, P, K, N) PROVE Good(c, Q, K, N)
  <2>1. Good(c, P, K, N)
    BY <1>4 DEF Other
  <2>2. c.task = x => c.op \notin Carrying \cup {"destroy"} /\ (c.op = "notify" => v \in {"running", "awaiting"})
    BY <1>4 DEF Unbound
  <2>3. c.op \in {"start"} \cup Telling => K[c.task] # x
    BY <1>4 DEF Unbound
  <2>4. CASE c.task = x
    BY <2>1, <2>2, <2>3, <2>4, <1>2, <1>3 DEF Good, Carrying, Telling, CallSet
  <2>5. CASE c.task # x
    BY <2>1, <2>3, <2>5, <1>2, <1>3, ParentFacts DEF Good, Carrying, Telling, CallSet
  <2> QED BY <2>4, <2>5
<1> QED BY <1>4 DEF Spares

\* A task goes on, after a plain await or after the task that it awaits, or its ticket
\* is put into a queue.
LEMMA Resuming ==
    ASSUME NEW P, NEW K, NEW N, Tables(P, K, N), NEW x \in Tasks, NEW Old,
           P[x] \in {"suspended", "queued", "working", "awaiting"}, K[x] # 0 => P[K[x]] = "completed",
           Unbound(Old, P, K, N, x, "lazy"), NEW a, a = At(IF K[x] = 0 THEN "body" ELSE "wake", x),
           NEW Q, Turned(Q, P, x, "running")
    PROVE  <<a>> \in Seq(CallSet) /\ Keeps(Old, <<a>>, P, K, N, Q, K, N) /\ Fits(Q, K, N)
<1>2. Q[x] = "running" /\ \A y : y # x => (y \in Tasks => Q[y] = P[y])
  BY DEF Tables, Turned
<1>3. K \in [Tasks -> Tasks \cup {0}] /\ Fits(P, K, N)
  BY DEF Tables
<1>4. Spares(Old, P, K, N, Q, K, N)
  <2>1. Unbound(Old, P, K, N, x, "running")
    BY DEF Unbound
  <2> QED BY <2>1, SparesPhase
<1>5. x \notin N
  BY <1>3 DEF Fits
<1>6. /\ a \in CallSet /\ a.op \in {"body", "wake"} /\ a.task = x /\ a.op # "destroy"
      /\ (a.op = "body" <=> K[x] = 0)
  BY DEF At, Call, CallSet, Ops, Scoped
<1>7. Good(a, Q, K, N)
  <2>1. K[x] # 0 => K[x] # x /\ K[x] \in Tasks
    BY <1>3
  <2> QED BY <2>1, <1>2, <1>5, <1>6 DEF Good, Telling
<1>8. ASSUME NEW c \in CallSet, Other(c, Old, P, K, N) PROVE Apart(c, a, K) /\ Apart(a, c, K)
  <2>1. c.op \in Carrying \cup Telling => c.task # x
    BY <1>8 DEF Unbound, Carrying, Telling
  <2> QED BY <2>1, <1>6 DEF Apart, Carrying, Telling
<1>9. Fits(Q, K, N)
  BY <1>2, <1>3, <1>5 DEF Fits
<1> QED BY <1>4, <1>6, <1>7, <1>8, <1>9, OneNew DEF Adds

LEMMA Queueing ==
    ASSUME NEW P, NEW K, NEW N, Tables(P, K, N), NEW x \in Tasks, NEW Old,
           P[x] \in {"suspended", "working", "awaiting"}, K[x] # 0 => P[K[x]] = "completed",
           Unbound(Old, P, K, N, x, "lazy"), NEW Q, Turned(Q, P, x, "queued")
    PROVE  <<>> \in Seq(CallSet) /\ Keeps(Old, <<>>, P, K, N, Q, K, N) /\ Fits(Q, K, N)
<1>2. Q[x] = "queued" /\ \A y : y # x => (y \in Tasks => Q[y] = P[y])
  BY DEF Tables, Turned
<1>3. K \in [Tasks -> Tasks \cup {0}] /\ Fits(P, K, N)
  BY DEF Tables
<1>4. Spares(Old, P, K, N, Q, K, N)
  <2>1. Unbound(Old, P, K, N, x, "queued")
    BY DEF Unbound
  <2> QED BY <2>1, SparesPhase
<1>5. x \notin N
  BY <1>3 DEF Fits
<1>6. Fits(Q, K, N)
  BY <1>2, <1>3, <1>5 DEF Fits
<1> QED BY <1>4, <1>6, NoneNew

\* A task that is in nobody's hands, or in those of the call that is replaced.
LEMMA RestIsUnbound ==
    ASSUME NEW P, NEW K, NEW N, Tables(P, K, N), NEW x \in Tasks, NEW Old,
           \/ P[x] \in {"suspended", "queued"}
           \/ P[x] = "working" /\ \E o \in Old : o.op = "callable" /\ o.task = x
           \/ P[x] = "awaiting" /\ \E o \in Old : o.op = "notify" /\ o.task = x
    PROVE  Unbound(Old, P, K, N, x, "lazy")
<1> SUFFICES ASSUME NEW c \in CallSet, Other(c, Old, P, K, N)
             PROVE  /\ c.task = x => c.op \notin Carrying \cup {"destroy", "notify"}
                    /\ c.op \in {"start"} \cup Telling => K[c.task] # x
  BY DEF Unbound
<1>1. Good(c, P, K, N)
  BY DEF Other
<1>2. \A o \in Old : Apart(c, o, K) /\ (o.op \in Carrying /\ c.op = "destroy" => c.task # o.task)
  BY DEF Other
<1>3. c.op \in {"start"} \cup Telling => K[c.task] # x
  BY <1>1 DEF Good, Telling
<1>4. CASE P[x] \in {"suspended", "queued"}
  BY <1>1, <1>3, <1>4 DEF Good, Carrying, Telling
<1>5. CASE P[x] = "working" /\ \E o \in Old : o.op = "callable" /\ o.task = x
  BY <1>1, <1>2, <1>3, <1>5 DEF Good, Carrying, Telling, Apart
<1>6. CASE P[x] = "awaiting" /\ \E o \in Old : o.op = "notify" /\ o.task = x
  BY <1>1, <1>2, <1>3, <1>6 DEF Good, Carrying, Telling, Apart
<1> QED BY <1>4, <1>5, <1>6

LEMMA DispatchedKeeps ==
    ASSUME GroupInv, NEW t \in Threads, NEW op, In(t, op), NEW x \in Tasks, Dispatched(t, x),
           phase[x] \in {"suspended", "working", "awaiting"}, child[x] # 0 => phase[child[x]] = "completed",
           Unbound(Removed(t, 1), phase, child, pending, x, "lazy"),
           child' = child, pending' = pending, Types', Kin'
    PROVE  GroupInv'
<1>1. stack[t] # <<>> /\ Tables(phase, child, pending)
  BY Top, InvTables
<1> PICK Old : Old = Removed(t, 1)
  OBVIOUS
<1>2. CASE Moves(x, "running") /\ Become(t, <<GoOn(x)>>)
  <2>1. PICK a, Q : a = GoOn(x) /\ Turned(Q, phase, x, "running")
    BY DEF Turned
  <2>2. phase' = Q /\ Replaces(t, <<a>>, 1)
    BY <1>1, <1>2, <2>1, Becomes DEF Moves, Turned
  <2>3. a = At(IF child[x] = 0 THEN "body" ELSE "wake", x)
    BY <2>1 DEF GoOn
  <2>4. <<a>> \in Seq(CallSet) /\ Keeps(Old, <<a>>, phase, child, pending, Q, child, pending) /\ Fits(Q, child, pending)
    BY <1>1, <2>1, <2>3, Resuming
  <2> QED BY <2>1, <2>2, <2>4, Step
<1>3. CASE Moves(x, "queued") /\ Return(t)
  <2>1. PICK Q : Turned(Q, phase, x, "queued")
    BY DEF Turned
  <2>2. phase' = Q /\ Replaces(t, <<>>, 1)
    BY <1>1, <1>3, <2>1, Becomes DEF Moves, Return, Turned
  <2>3. <<>> \in Seq(CallSet) /\ Keeps(Old, <<>>, phase, child, pending, Q, child, pending) /\ Fits(Q, child, pending)
    BY <1>1, <2>1, Queueing
  <2> QED BY <2>2, <2>3, Step
<1> QED BY <1>2, <1>3 DEF Dispatched
-----------------------------------------------------------------------------
(* Plain awaits, and stops.                                                *)

LEMMA DispatchedTypes == ASSUME GroupInv, NEW t, NEW x \in Tasks, Dispatched(t, x)
    PROVE phase' \in [Tasks -> Phases] /\ \A y \in Tasks : y # x => phase'[y] = phase[y]
BY DEF GroupInv, Types, Dispatched, Moves, Phases

\* Only plain awaits are interrupted.
LEMMA SuspendedAwaitsNone == ASSUME GroupInv, NEW x \in Tasks, phase[x] \in {"suspended", "working"} PROVE child[x] = 0
BY DEF GroupInv, Fits

LEMMA StopTokenKeeps == ASSUME GroupInv, NEW t \in Threads, StopToken(t) PROVE GroupInv'
<1> PICK x : x = Task(t)
  OBVIOUS
<1>1. stack[t] # <<>> /\ x \in Tasks /\ In(t, "token")
  BY Top DEF StopToken, Good
<1>2. /\ tokenStop' \in [Tasks -> BOOLEAN] /\ told' = told
      /\ stopping' = stopping /\ tasks' = tasks /\ owned' = owned /\ stops' = stops /\ joins' = joins
      /\ child' = child /\ pending' = pending
  BY <1>1 DEF GroupInv, Types, StopToken, group, counts
<1>3. CASE hook[x] = "on" /\ hook' = [hook EXCEPT ![x] = t] /\ phase' = phase
           /\ Become(t, <<At("cancel", child[x]), At("called", x)>>)
  <2>1. child[x] \in Tasks
    BY <1>1, <1>3 DEF GroupInv, Types, Kin
  <2>2. Types' /\ Kin'
    BY <1>1, <1>2, <1>3, <2>1, ParentFacts DEF GroupInv, Types, Kin, Completed
  <2>3. PICK New : New = <<At("cancel", child[x]), Call("called", x, {})>>
    OBVIOUS
  <2>4. Replaces(t, New, 1)
    BY <1>1, <1>3, <2>3, Becomes DEF At
  <2>5. New \in Seq(CallSet) /\ Keeps(Removed(t, 1), New, phase, child, pending, phase, child, pending)
    BY <1>1, <2>1, <2>3, FreeTwo DEF Free
  <2> QED BY <1>2, <1>3, <2>2, <2>4, <2>5, FreeStep
<1>4. CASE phase[x] = "suspended" /\ Dispatched(t, x) /\ UNCHANGED hook
  <2>1. phase' \in [Tasks -> Phases] /\ \A y \in Tasks : y # x => phase'[y] = phase[y]
    BY <1>1, <1>4, DispatchedTypes
  <2>2. Types' /\ Kin'
    BY <1>1, <1>2, <1>4, <2>1 DEF GroupInv, Types, Kin, Completed, Roots
  <2>3. Unbound(Removed(t, 1), phase, child, pending, x, "lazy")
    BY <1>1, <1>4, InvTables, RestIsUnbound
  <2>4. child[x] = 0
    BY <1>1, <1>4, SuspendedAwaitsNone
  <2> QED BY <1>1, <1>2, <1>4, <2>2, <2>3, <2>4, DispatchedKeeps
<1>5. CASE Return(t) /\ UNCHANGED <<hook, phase>>
  <2>1. Types' /\ Kin'
    BY <1>2, <1>5 DEF GroupInv, Types, Kin, Completed
  <2>2. Replaces(t, <<>>, 1)
    BY <1>1, <1>5, Becomes DEF Return
  <2> QED BY <1>2, <1>5, <2>1, <2>2, FreeNone, FreeStep
<1> QED BY <1>3, <1>4, <1>5 DEF StopToken, Interruptible

LEMMA CallableEndsKeeps == ASSUME GroupInv, NEW t \in Threads, CallableEnds(t) PROVE GroupInv'
<1> PICK x : x = Task(t)
  OBVIOUS
<1>1. /\ stack[t] # <<>> /\ x \in Tasks /\ In(t, "callable") /\ phase[x] = "working"
      /\ Removed(t, 1) = {stack[t][1]} /\ stack[t][1].op = "callable" /\ stack[t][1].task = x
  BY Top DEF CallableEnds, Good
<1>2. phase' \in [Tasks -> Phases] /\ \A y \in Tasks : y # x => phase'[y] = phase[y]
  BY <1>1, DispatchedTypes DEF CallableEnds
<1>3. Types' /\ Kin'
  BY <1>1, <1>2 DEF GroupInv, Types, Kin, Completed, Roots, CallableEnds, group, cancellation, counts
<1>4. Unbound(Removed(t, 1), phase, child, pending, x, "lazy")
  BY <1>1, InvTables, RestIsUnbound
<1>5. child[x] = 0
  BY <1>1, SuspendedAwaitsNone
<1> QED BY <1>1, <1>3, <1>4, <1>5, DispatchedKeeps DEF CallableEnds

\* A thread that is idle resumes a task at rest.
LEMMA EnterGoOn ==
    ASSUME GroupInv, NEW t \in Threads, NEW x \in Tasks, phase[x] \in {"suspended", "queued"},
           Moves(x, "running"), Enter(t, GoOn(x)), UNCHANGED <<group, child, pending, hook, cancellation, counts>>
    PROVE  GroupInv'
<1>1. child[x] # 0 => phase[child[x]] = "completed"
  BY DEF GroupInv, Fits
<1>2. PICK a, Q, Old : a = GoOn(x) /\ Turned(Q, phase, x, "running") /\ Old = Removed(t, 0)
  BY DEF Turned
<1>3. phase' = Q /\ Replaces(t, <<a>>, 0)
  BY <1>2, Enters DEF Moves, Turned
<1>4. a = At(IF child[x] = 0 THEN "body" ELSE "wake", x)
  BY <1>2 DEF GoOn
<1>5. Tables(phase, child, pending) /\ Unbound(Old, phase, child, pending, x, "lazy")
  BY InvTables, RestIsUnbound
<1>6. <<a>> \in Seq(CallSet) /\ Keeps(Old, <<a>>, phase, child, pending, Q, child, pending) /\ Fits(Q, child, pending)
  BY <1>1, <1>2, <1>4, <1>5, Resuming
<1>7. Types' /\ Kin'
  BY DEF GroupInv, Types, Kin, Completed, Moves, Phases, group, cancellation, counts
<1> QED BY <1>2, <1>3, <1>6, <1>7, Step

LEMMA WakeKeeps == ASSUME GroupInv, NEW t \in Threads, NEW x \in Tasks, Wake(t, x) PROVE GroupInv'
BY EnterGoOn DEF Wake

LEMMA DeliverKeeps == ASSUME GroupInv, NEW t \in Threads, NEW x \in Tasks, Deliver(t, x) PROVE GroupInv'
BY EnterGoOn DEF Deliver

LEMMA WorkKeeps == ASSUME GroupInv, NEW t \in Threads, NEW x \in Tasks, Work(t, x) PROVE GroupInv'
<1> PICK P, K, N, Old, a, Q : P = phase /\ K = child /\ N = pending /\ Old = Removed(t, 0)
                              /\ a = At("callable", x) /\ Turned(Q, P, x, "working")
  BY DEF Turned
<1>1. phase' = Q /\ Replaces(t, <<a>>, 0) /\ P[x] = "suspended" /\ K[x] = 0
  BY Enters, SuspendedAwaitsNone DEF Work, Moves, Turned
<1>2. Tables(P, K, N) /\ Unbound(Old, P, K, N, x, "lazy")
  BY <1>1, InvTables, RestIsUnbound
<1>3. Unbound(Old, P, K, N, x, "working")
  BY <1>2 DEF Unbound
<1>4. Spares(Old, P, K, N, Q, K, N)
  BY <1>2, <1>3, SparesPhase
<1>5. Q[x] = "working" /\ \A y \in Tasks : y # x => Q[y] = P[y]
  BY <1>2 DEF Tables, Turned
<1>6. a \in CallSet /\ a.op = "callable" /\ a.task = x
  BY DEF At, Call, CallSet, Ops, Scoped
<1>7. ASSUME NEW c \in CallSet, Other(c, Old, P, K, N) PROVE Apart(c, a, K) /\ Apart(a, c, K)
  <2>1. c.op \in Carrying => c.task # x
    BY <1>2, <1>7 DEF Unbound
  <2> QED BY <2>1, <1>6 DEF Apart, Carrying, Telling
<1>8. Good(a, Q, K, N)
  BY <1>1, <1>5, <1>6 DEF Good, Telling
<1>9. <<a>> \in Seq(CallSet) /\ Keeps(Old, <<a>>, P, K, N, Q, K, N)
  BY <1>4, <1>6, <1>7, <1>8, OneNew DEF Adds
<1>10. Fits(Q, K, N)
  BY <1>1, <1>2, <1>5, ParentFacts DEF Fits, Tables
<1>11. Types' /\ Kin' /\ child' = child /\ pending' = pending
  BY DEF Work, GroupInv, Types, Kin, Completed, Moves, Phases, group, cancellation, counts
<1> QED BY <1>1, <1>9, <1>10, <1>11, Step
-----------------------------------------------------------------------------
(* The calls that carry a task on.                                         *)

\* Beside a call that carries x on no other does, and none destroys its frame.
LEMMA HeldAlone ==
    ASSUME NEW P, NEW K, NEW N, NEW o, NEW Old, Old = {o}, o.op \in Carrying, NEW c, Other(c, Old, P, K, N)
    PROVE  c.op \in Carrying \cup {"destroy"} => c.task # o.task
BY DEF Other, Apart, Carrying

LEMMA HeldIsUnbound ==
    ASSUME NEW P, NEW K, NEW N, NEW o, NEW Old, Old = {o}, o.op \in {"resume", "body", "complete"}, Good(o, P, K, N),
           NEW x, x = o.task, NEW v
    PROVE  Unbound(Old, P, K, N, x, v)
<1> SUFFICES ASSUME NEW c \in CallSet, Other(c, Old, P, K, N)
             PROVE  /\ c.task = o.task => c.op \notin Carrying \cup {"destroy", "notify"}
                    /\ c.op \in {"start"} \cup Telling => K[c.task] # o.task
  BY DEF Unbound
<1>1. Good(c, P, K, N) /\ Apart(c, o, K)
  BY DEF Other
<1>2. o.op \in Carrying
  BY DEF Carrying
<1>3. c.op \in Carrying \cup {"destroy"} => c.task # o.task
  BY <1>2, HeldAlone
<1>4. K[o.task] = 0 /\ P[o.task] \in {"spawned", "running"} /\ (P[o.task] = "spawned" => o.op = "resume")
  BY DEF Good
<1>5. c.op = "notify" => c.task # o.task
  BY <1>1, <1>4 DEF Good
<1>6. c.op \in {"start"} \cup Telling => K[c.task] # o.task
  BY <1>1, <1>4 DEF Good, Apart, Telling
<1> QED BY <1>3, <1>5, <1>6

\* Its place is taken by another that does.
LEMMA HeldAdds ==
    ASSUME NEW P, NEW K, NEW N, NEW Q, NEW L, NEW M, NEW o, NEW Old, Old = {o},
           o.op \in Carrying, NEW x \in Tasks, o.task = x, Q[x] = "running", L[x] = 0,
           NEW op \in {"body", "destroy", "complete"}, NEW a, a = At(op, x)
    PROVE  Adds(a, Old, P, K, N, Q, L, M)
<1>1. a \in CallSet /\ a.op = op /\ a.task = x
  BY DEF At, Call, CallSet, Ops, Scoped
<1>2. Good(a, Q, L, M)
  BY <1>1 DEF Good, Telling
<1>3. ASSUME NEW c \in CallSet, Other(c, Old, P, K, N) PROVE Apart(c, a, L) /\ Apart(a, c, L)
  BY <1>1, <1>3, HeldAlone DEF Apart, Carrying, Telling
<1> QED BY <1>1, <1>2, <1>3 DEF Adds

\* The end of a body.
LEMMA HeldFinishes ==
    ASSUME NEW P, NEW K, NEW N, NEW Q, NEW L, NEW M, NEW o, NEW Old, Old = {o},
           o.op \in Carrying, NEW x \in Tasks, o.task = x, Q[x] = "running", L[x] = 0,
           Spares(Old, P, K, N, Q, L, M), NEW New, New = Finish(x)
    PROVE  New \in Seq(CallSet) /\ Keeps(Old, New, P, K, N, Q, L, M)
<1>1. PICK a, b : a = At("destroy", x) /\ b = At("complete", x)
  OBVIOUS
<1>2. Adds(a, Old, P, K, N, Q, L, M) /\ Adds(b, Old, P, K, N, Q, L, M)
  BY <1>1, HeldAdds
<1>3. a.op = "destroy" /\ b.op = "complete" /\ a.task = x /\ b.task = x
  BY <1>1 DEF At, Call
<1>4. Apart(a, b, L) /\ Apart(b, a, L)
  BY <1>3 DEF Apart, Carrying, Telling
<1>5. New = <<a, b>>
  BY <1>1 DEF Finish
<1> QED BY <1>2, <1>3, <1>4, <1>5, TwoNew

\* A task that awaits nothing changes its phase.
LEMMA FitsTurned ==
    ASSUME NEW P, NEW K, NEW N, Tables(P, K, N), NEW x \in Tasks, K[x] = 0, P[x] \in {"spawned", "running"},
           NEW v \in {"running", "suspended", "queued", "completed"}, NEW Q, Turned(Q, P, x, v)
    PROVE  Fits(Q, K, N) /\ Q \in [Tasks -> Phases] /\ Q[x] = v /\ \A y \in Tasks : y # x => Q[y] = P[y]
<1>1. Q \in [Tasks -> Phases] /\ Q[x] = v /\ \A y \in Tasks : y # x => Q[y] = P[y]
  BY DEF Tables, Turned, Phases
<1>2. Fits(Q, K, N)
  BY <1>1, ParentFacts DEF Tables, Fits
<1> QED BY <1>1, <1>2

LEMMA ResumeKeeps == ASSUME GroupInv, NEW t \in Threads, Resume(t) PROVE GroupInv'
<1> PICK P, K, N, o, Old, x, Q : P = phase /\ K = child /\ N = pending /\ o = stack[t][1] /\ x = Task(t)
                                 /\ Old = {o} /\ Turned(Q, P, x, "running")
  BY DEF Turned
<1>1. /\ stack[t] # <<>> /\ Good(o, P, K, N) /\ o.op = "resume" /\ o.task = x /\ x \in Tasks
      /\ Removed(t, 1) = Old /\ K[x] = 0 /\ P[x] = "spawned"
  BY Top DEF Resume, Good
<1>2. Tables(P, K, N) /\ phase' = Q /\ child' = K /\ pending' = N
  BY InvTables DEF Resume, Moves, Turned
<1>3. Fits(Q, K, N) /\ Q \in [Tasks -> Phases] /\ Q[x] = "running" /\ \A y \in Tasks : y # x => Q[y] = P[y]
  BY <1>1, <1>2, FitsTurned
<1>4. Spares(Old, P, K, N, Q, K, N)
  BY <1>1, <1>2, HeldIsUnbound, SparesPhase
<1>5. Types' /\ Kin'
  BY <1>1, <1>2, <1>3 DEF Resume, GroupInv, Types, Kin, Completed, Roots, group, cancellation, counts
<1>6. CASE told[x]
  <2>1. PICK New : New = Finish(x)
    OBVIOUS
  <2>2. Replaces(t, New, 1)
    BY <1>1, <1>6, <2>1, Becomes DEF Resume
  <2>3. New \in Seq(CallSet) /\ Keeps(Old, New, P, K, N, Q, K, N)
    BY <1>1, <1>3, <1>4, <2>1, HeldFinishes DEF Carrying
  <2> QED BY <1>1, <1>2, <1>3, <1>5, <2>2, <2>3, Step
<1>7. CASE ~told[x]
  <2>1. PICK a : a = At("body", x)
    OBVIOUS
  <2>2. Replaces(t, <<a>>, 1) /\ a.op = "body"
    BY <1>1, <1>7, <2>1, Becomes DEF Resume, At, Call
  <2>3. Adds(a, Old, P, K, N, Q, K, N)
    BY <1>1, <1>3, <2>1, HeldAdds DEF Carrying
  <2>4. <<a>> \in Seq(CallSet) /\ Keeps(Old, <<a>>, P, K, N, Q, K, N)
    BY <1>4, <2>2, <2>3, OneNew
  <2> QED BY <1>1, <1>2, <1>3, <1>5, <2>2, <2>4, Step
<1> QED BY <1>6, <1>7

LEMMA SuspendKeeps == ASSUME GroupInv, NEW t \in Threads, Suspend(t) PROVE GroupInv'
<1> PICK P, K, N, o, Old, x, v, Q : P = phase /\ K = child /\ N = pending /\ o = stack[t][1] /\ x = Task(t)
                                    /\ Old = {o} /\ v = (IF tokenStop[x] THEN "queued" ELSE "suspended")
                                    /\ Turned(Q, P, x, v)
  BY DEF Turned
<1>0. v \in {"suspended", "queued"}
  OBVIOUS
<1>1. /\ stack[t] # <<>> /\ Good(o, P, K, N) /\ o.op = "body" /\ o.task = x /\ x \in Tasks
      /\ Removed(t, 1) = Old /\ K[x] = 0 /\ P[x] = "running"
  BY Top DEF Suspend, Good
<1>2. Tables(P, K, N) /\ phase' = Q /\ child' = K /\ pending' = N
  BY InvTables DEF Suspend, Moves, Turned
<1>3. Fits(Q, K, N) /\ Q \in [Tasks -> Phases] /\ Q[x] = v /\ \A y \in Tasks : y # x => Q[y] = P[y]
  BY <1>0, <1>1, <1>2, FitsTurned
<1>4. Spares(Old, P, K, N, Q, K, N)
  BY <1>0, <1>1, <1>2, HeldIsUnbound, SparesPhase
<1>5. Types' /\ Kin'
  BY <1>0, <1>1, <1>2, <1>3 DEF Suspend, GroupInv, Types, Kin, Completed, Roots, group, cancellation, counts
<1>6. Replaces(t, <<>>, 1)
  BY <1>1, Becomes DEF Suspend, Return
<1>7. <<>> \in Seq(CallSet) /\ Keeps(Old, <<>>, P, K, N, Q, K, N)
  BY <1>4, NoneNew
<1> QED BY <1>1, <1>2, <1>3, <1>5, <1>6, <1>7, Step

LEMMA EndKeeps == ASSUME GroupInv, NEW t \in Threads, End(t) PROVE GroupInv'
<1> PICK o, Old, x, New : Old = {o} /\ o = stack[t][1] /\ x = Task(t) /\ New = Finish(x)
  OBVIOUS
<1>1. /\ stack[t] # <<>> /\ o.op = "body" /\ o.task = x /\ x \in Tasks
      /\ Removed(t, 1) = Old /\ child[x] = 0 /\ phase[x] = "running"
  BY Top DEF End, Good
<1>2. New \in Seq(CallSet) /\ Keeps(Old, New, phase, child, pending, phase, child, pending)
  <2>1. PICK P, K, N : P = phase /\ K = child /\ N = pending
    OBVIOUS
  <2>2. Spares(Old, P, K, N, P, K, N)
    BY SparesAll
  <2>3. New \in Seq(CallSet) /\ Keeps(Old, New, P, K, N, P, K, N)
    BY <1>1, <2>1, <2>2, HeldFinishes DEF Carrying
  <2> QED BY <2>1, <2>3
<1>3. Replaces(t, New, 1)
  BY <1>1, Becomes DEF End
<1>4. Types' /\ Kin' /\ phase' = phase /\ child' = child /\ pending' = pending
  BY DEF End, GroupInv, Types, Kin, Completed, group, execution, cancellation, counts
<1> QED BY <1>1, <1>2, <1>3, <1>4, FreeStep
LEMMA CompleteKeeps == ASSUME GroupInv, NEW t \in Threads, Complete(t) PROVE GroupInv'
<1> PICK P, K, N, o, Old, x, Q : P = phase /\ K = child /\ N = pending /\ o = stack[t][1] /\ x = Task(t)
                                 /\ Old = {o} /\ Turned(Q, P, x, "completed")
  BY DEF Turned
<1>1. /\ stack[t] # <<>> /\ Good(o, P, K, N) /\ o.op = "complete" /\ o.task = x /\ x \in Tasks
      /\ Removed(t, 1) = Old /\ K[x] = 0 /\ P[x] = "running"
  BY Top DEF Complete, Good
<1>2. Tables(P, K, N) /\ phase' = Q /\ child' = K /\ pending' = N
  BY InvTables DEF Complete, Moves, Turned
<1>3. Fits(Q, K, N) /\ Q \in [Tasks -> Phases] /\ Q[x] = "completed" /\ \A y \in Tasks : y # x => Q[y] = P[y]
  BY <1>1, <1>2, FitsTurned
<1>4. Spares(Old, P, K, N, Q, K, N)
  BY <1>1, <1>2, HeldIsUnbound, SparesPhase
<1>5. Types' /\ Kin'
  BY <1>1, <1>2, <1>3 DEF Complete, GroupInv, Types, Kin, Completed, Roots, group, cancellation, counts
<1>6. CASE Parent[x] = 0
  <2>1. Replaces(t, <<>>, 1)
    BY <1>1, <1>6, Becomes DEF Complete
  <2>2. <<>> \in Seq(CallSet) /\ Keeps(Old, <<>>, P, K, N, Q, K, N)
    BY <1>4, NoneNew
  <2> QED BY <1>1, <1>2, <1>3, <1>5, <2>1, <2>2, Step
<1>7. CASE Parent[x] # 0
  <2>1. PICK p, a : p = Parent[x] /\ a = At("notify", p)
    OBVIOUS
  <2>2. p \in Tasks /\ p # x
    BY <1>1, <1>7, <2>1, ParentFacts
  <2>3. K[p] = x /\ P[p] \in {"running", "awaiting"} /\ p \notin N
    <3>1. K[p] = x
      BY <1>1, <1>2, <1>7, <2>1 DEF Tables, Fits
    <3> QED BY <1>1, <1>2, <2>2, <3>1, ParentFacts DEF Tables, Fits
  <2>4. a \in CallSet /\ a.op = "notify" /\ a.task = p
    BY <2>1, <2>2 DEF At, Call, CallSet, Ops
  <2>5. Good(a, Q, K, N)
    BY <1>1, <1>3, <2>2, <2>3, <2>4, ParentFacts DEF Good, Telling
  <2>6. ASSUME NEW c \in CallSet, Other(c, Old, P, K, N) PROVE Apart(c, a, K) /\ Apart(a, c, K)
    <3>1. c.op \in Telling => c.task # p
      BY <1>1, <2>3, <2>6 DEF Other, Good
    <3> QED BY <2>4, <3>1 DEF Apart, Carrying, Telling
  <2>7. <<a>> \in Seq(CallSet) /\ Keeps(Old, <<a>>, P, K, N, Q, K, N)
    BY <1>4, <2>4, <2>5, <2>6, OneNew DEF Adds
  <2>8. Replaces(t, <<a>>, 1)
    BY <1>1, <1>7, <2>1, Becomes DEF Complete
  <2> QED BY <1>1, <1>2, <1>3, <1>5, <2>7, <2>8, Step
<1> QED BY <1>6, <1>7

-----------------------------------------------------------------------------
(* Spawned, and awaited.                                                   *)

\* A task that is still lazy is in no call.
LEMMA LazyIsUnbound ==
    ASSUME NEW P, NEW K, NEW N, NEW Old, NEW x, P[x] = "lazy", NEW v
    PROVE  Unbound(Old, P, K, N, x, v)
BY DEF Unbound, Other, Good, Carrying, Telling

\* It begins; what awaits it, if anything does, knows.
LEMMA Beginning ==
    ASSUME NEW P, NEW K, NEW N, Tables(P, K, N), NEW x \in Tasks, P[x] = "lazy", Parent[x] = 0,
           NEW v \in {"spawned", "discarded"}, NEW Q, Turned(Q, P, x, v)
    PROVE  /\ Fits(Q, K, N) /\ Q \in [Tasks -> Phases] /\ Q[x] = v /\ \A y \in Tasks : y # x => Q[y] = P[y]
           /\ Spares({}, P, K, N, Q, K, N)
<1>1. Q \in [Tasks -> Phases] /\ Q[x] = v /\ \A y \in Tasks : y # x => Q[y] = P[y]
  BY DEF Tables, Turned, Phases
<1>2. Fits(Q, K, N)
  BY <1>1, ParentFacts DEF Tables, Fits
<1>3. Spares({}, P, K, N, Q, K, N)
  BY LazyIsUnbound, SparesPhase
<1> QED BY <1>1, <1>2, <1>3

LEMMA SpawnKeeps == ASSUME GroupInv, NEW t \in Threads, NEW x \in Tasks, Spawn(t, x) PROVE GroupInv'
<1> PICK P, K, N, Old : P = phase /\ K = child /\ N = pending /\ Old = {}
  OBVIOUS
<1>1. Tables(P, K, N) /\ child' = K /\ pending' = N /\ P[x] = "lazy" /\ Parent[x] = 0 /\ Removed(t, 0) = Old /\ K[x] = 0
  BY InvTables DEF Spawn, Roots, Removed, Tables, Fits
<1>2. /\ told' = told /\ tokenStop' = tokenStop /\ hook' = hook /\ stops' = stops /\ joins' = joins
      /\ x \notin owned \ tasks /\ x \in Roots
  BY DEF Spawn, cancellation, counts, GroupInv, Kin, Completed
<1>3. CASE Moves(x, "spawned") /\ Enter(t, At("resume", x)) /\ stopping' = stopping
           /\ (UNCHANGED group \/ (tasks' = Kept \cup {x} /\ owned' = owned \cup {x}))
  <2>1. PICK Q, a : Turned(Q, P, x, "spawned") /\ a = At("resume", x)
    BY DEF Turned
  <2>2. Replaces(t, <<a>>, 0) /\ phase' = Q
    BY <1>3, <2>1, Enters DEF Moves, Turned
  <2>3. /\ Fits(Q, K, N) /\ Q \in [Tasks -> Phases] /\ Q[x] = "spawned" /\ \A y \in Tasks : y # x => Q[y] = P[y]
        /\ Spares(Old, P, K, N, Q, K, N)
    BY <1>1, <2>1, Beginning
  <2>4. a \in CallSet /\ a.op = "resume" /\ a.task = x
    BY <2>1 DEF At, Call, CallSet, Ops
  <2>5. Good(a, Q, K, N)
    BY <1>1, <2>3, <2>4 DEF Good, Telling
  <2>6. ASSUME NEW c \in CallSet, Other(c, Old, P, K, N) PROVE Apart(c, a, K) /\ Apart(a, c, K)
    <3>1. Good(c, P, K, N)
      BY <2>6 DEF Other
    <3>2. (c.op \in Carrying => c.task # x) /\ (c.op = "start" => K[c.task] # x)
      BY <1>1, <3>1 DEF Good, Carrying, Telling
    <3> QED BY <2>4, <3>2 DEF Apart, Carrying, Telling
  <2>7. <<a>> \in Seq(CallSet) /\ Keeps(Old, <<a>>, P, K, N, Q, K, N)
    BY <2>3, <2>4, <2>5, <2>6, OneNew DEF Adds
  <2>8. tasks' \subseteq owned' /\ owned' \subseteq Roots /\ \A y \in owned' \ tasks' : y # x /\ P[y] = "completed"
    BY <1>2, <1>3 DEF GroupInv, Types, Kin, Kept, Completed, group
  <2>9. Types' /\ Kin'
    BY <1>1, <1>2, <1>3, <2>2, <2>3, <2>8 DEF GroupInv, Types, Kin, Completed, Roots
  <2> QED BY <1>1, <2>2, <2>3, <2>7, <2>9, Step
<1>4. CASE Moves(x, "discarded") /\ UNCHANGED <<group, stack>>
  <2>1. PICK Q : Turned(Q, P, x, "discarded")
    BY DEF Turned
  <2>2. Replaces(t, <<>>, 0) /\ phase' = Q
    BY <1>4, <2>1 DEF Moves, Turned, Replaces, GroupInv, Stacks
  <2>3. /\ Fits(Q, K, N) /\ Q \in [Tasks -> Phases] /\ \A y \in Tasks : y # x => Q[y] = P[y]
        /\ Spares(Old, P, K, N, Q, K, N)
    BY <1>1, <2>1, Beginning
  <2>4. <<>> \in Seq(CallSet) /\ Keeps(Old, <<>>, P, K, N, Q, K, N)
    BY <2>3, NoneNew
  <2>5. Types' /\ Kin'
    BY <1>1, <1>2, <1>4, <2>2, <2>3 DEF GroupInv, Types, Kin, Completed, Roots, group
  <2> QED BY <1>1, <2>2, <2>3, <2>4, <2>5, Step
<1> QED BY <1>3, <1>4 DEF Spawn, group
LEMMA AwaitChildKeeps == ASSUME GroupInv, NEW t \in Threads, NEW y \in Tasks, AwaitChild(t, y) PROVE GroupInv'
<1> PICK P, K, N, o, Old, x, Q, L : P = phase /\ K = child /\ N = pending /\ o = stack[t][1] /\ x = Task(t)
                                    /\ Old = {o} /\ Q = [P EXCEPT ![y] = "spawned"] /\ L = [K EXCEPT ![x] = y]
  OBVIOUS
<1>1. /\ stack[t] # <<>> /\ Good(o, P, K, N) /\ o.op = "body" /\ o.task = x /\ x \in Tasks
      /\ Removed(t, 1) = Old /\ K[x] = 0 /\ P[x] = "running" /\ Parent[y] = x /\ P[y] = "lazy" /\ x # y
  BY Top DEF AwaitChild, Good
<1>2. Tables(P, K, N) /\ phase' = Q /\ child' = L /\ pending' = N
  BY InvTables DEF AwaitChild, Moves
<1>3. /\ Q \in [Tasks -> Phases] /\ Q[y] = "spawned" /\ \A z \in Tasks : z # y => Q[z] = P[z]
      /\ L \in [Tasks -> Tasks \cup {0}] /\ L[x] = y /\ \A z \in Tasks : z # x => L[z] = K[z]
  BY <1>1, <1>2 DEF Tables, Phases
<1>4. Fits(Q, L, N)
  BY <1>1, <1>2, <1>3, ParentFacts DEF Tables, Fits
<1>5. ASSUME NEW c \in CallSet, Other(c, Old, P, K, N)
      PROVE  /\ c.op \in Carrying \cup Telling \cup {"destroy"} => c.task \in Tasks /\ c.task # x /\ c.task # y
             /\ c.op \in {"start"} \cup Telling => K[c.task] # y
  <2>1. Good(c, P, K, N)
    BY <1>5 DEF Other
  <2>2. c.op \in Carrying \cup {"destroy"} => c.task # x
    BY <1>1, <1>5, HeldAlone DEF Carrying
  <2>3. c.op \in Telling => c.task # x
    BY <1>1, <2>1, <2>2 DEF Good, Telling, Carrying
  <2> QED BY <1>1, <2>1, <2>2, <2>3 DEF Good, Telling, Carrying
<1>6. ASSUME NEW c \in CallSet, Other(c, Old, P, K, N) PROVE Good(c, Q, L, N)
  <2>1. Good(c, P, K, N)
    BY <1>6 DEF Other
  <2>2. c.op \in Carrying \cup Telling \cup {"destroy"} => Q[c.task] = P[c.task] /\ L[c.task] = K[c.task]
    BY <1>3, <1>5, <1>6
  <2>3. c.op \in {"start"} \cup Telling /\ K[c.task] # 0 => K[c.task] \in Tasks /\ Q[K[c.task]] = P[K[c.task]]
    BY <1>2, <1>3, <1>5, <1>6 DEF Tables, Carrying
  <2> QED BY <2>1, <2>2, <2>3 DEF Good, Carrying, Telling
<1>7. ASSUME NEW c \in CallSet, NEW e \in CallSet, Other(c, Old, P, K, N), Apart(c, e, K) PROVE Apart(c, e, L)
  <2>1. c.op = "start" => L[c.task] = K[c.task]
    BY <1>3, <1>5, <1>7 DEF Carrying
  <2> QED BY <1>7, <2>1 DEF Apart
<1>8. Spares(Old, P, K, N, Q, L, N)
  BY <1>6, <1>7 DEF Spares
<1>9. PICK b : b = At("start", x)
  OBVIOUS
<1>10. b \in CallSet /\ b.op = "start" /\ b.task = x
  BY <1>1, <1>9 DEF At, Call, CallSet, Ops, Scoped
<1>11. Good(b, Q, L, N)
  BY <1>1, <1>3, <1>10, ParentFacts DEF Good, Telling
<1>12. ASSUME NEW c \in CallSet, Other(c, Old, P, K, N) PROVE Apart(c, b, L) /\ Apart(b, c, L)
  <2>1. c.op \in Carrying => c.task # x /\ c.task # y
    BY <1>5, <1>12
  <2> QED BY <1>3, <1>10, <2>1 DEF Apart, Carrying, Telling
<1>13. Adds(b, Old, P, K, N, Q, L, N)
  BY <1>10, <1>11, <1>12 DEF Adds
<1>14. Types' /\ Kin'
  <2>1. hook' = [hook EXCEPT ![x] = "on"] \/ hook' = hook
    BY DEF AwaitChild
  <2>2. Types'
    BY <1>1, <1>2, <1>3, <2>1 DEF AwaitChild, GroupInv, Types, group, cancellation, counts
  <2>3. Kin'
    BY <1>1, <1>2, <1>3, <2>1, ParentFacts DEF AwaitChild, GroupInv, Types, Kin, Completed, Roots, group
  <2> QED BY <2>2, <2>3
<1>15. CASE Become(t, <<At("cancel", y), At("start", x)>>)
  <2>1. PICK a : a = At("cancel", y)
    OBVIOUS
  <2>2. Replaces(t, <<a, b>>, 1) /\ a \in CallSet /\ a.op = "cancel" /\ a.task = y
    BY <1>1, <1>9, <1>15, <2>1, Becomes DEF At, Call, CallSet, Ops
  <2>3. Adds(a, Old, P, K, N, Q, L, N)
    BY <2>2, FreeAdds DEF Free
  <2>4. Apart(a, b, L) /\ Apart(b, a, L)
    BY <1>10, <2>2 DEF Apart, Carrying, Telling
  <2>5. <<a, b>> \in Seq(CallSet) /\ Keeps(Old, <<a, b>>, P, K, N, Q, L, N)
    BY <1>8, <1>10, <1>13, <2>2, <2>3, <2>4, TwoNew
  <2> QED BY <1>1, <1>2, <1>4, <1>14, <2>2, <2>5, Step
<1>16. CASE Become(t, <<At("start", x)>>)
  <2>1. Replaces(t, <<b>>, 1)
    BY <1>1, <1>9, <1>16, Becomes
  <2>2. <<b>> \in Seq(CallSet) /\ Keeps(Old, <<b>>, P, K, N, Q, L, N)
    BY <1>8, <1>10, <1>13, OneNew
  <2> QED BY <1>1, <1>2, <1>4, <1>14, <2>1, <2>2, Step
<1> QED BY <1>15, <1>16 DEF AwaitChild

LEMMA StartKeeps == ASSUME GroupInv, NEW t \in Threads, Start(t) PROVE GroupInv'
<1> PICK P, K, N, o, Old, x, y, a, b : P = phase /\ K = child /\ N = pending /\ o = stack[t][1] /\ x = Task(t)
                                       /\ Old = {o} /\ y = K[x] /\ a = At("resume", y) /\ b = At("leave", x)
  OBVIOUS
<1>1. /\ stack[t] # <<>> /\ Good(o, P, K, N) /\ o.op = "start" /\ o.task = x /\ x \in Tasks
      /\ Removed(t, 1) = Old /\ y # 0 /\ P[x] = "running" /\ P[y] = "spawned"
  BY Top DEF Start, Good
<1>2. Tables(P, K, N) /\ phase' = P /\ child' = K /\ pending' = N
  BY InvTables DEF Start, execution
<1>3. y \in Tasks /\ Parent[y] = x /\ K[y] = 0 /\ x # y /\ \A z \in Tasks : K[z] = y => z = x
  BY <1>1, <1>2, ParentFacts DEF Tables, Fits
<1>4. a \in CallSet /\ a.op = "resume" /\ a.task = y /\ b \in CallSet /\ b.op = "leave" /\ b.task = x
  BY <1>1, <1>3 DEF At, Call, CallSet, Ops, Scoped
<1>5. Good(a, P, K, N) /\ Good(b, P, K, N)
  BY <1>1, <1>3, <1>4 DEF Good, Telling
<1>6. ASSUME NEW c \in CallSet, Other(c, Old, P, K, N)
      PROVE  Apart(c, a, K) /\ Apart(a, c, K) /\ Apart(c, b, K) /\ Apart(b, c, K)
  <2>1. Good(c, P, K, N) /\ Apart(o, c, K)
    BY <1>1, <1>6 DEF Other
  <2>2. c.op \in Carrying => c.task # x
    BY <1>1, <1>6, HeldAlone DEF Carrying
  <2>3. c.op \in Carrying => c.task # y
    BY <1>1, <1>3, <2>1 DEF Good, Apart, Carrying
  <2>4. c.op = "start" => K[c.task] # y
    BY <1>3, <2>1, <2>2 DEF Good, Carrying
  <2> QED BY <1>4, <2>2, <2>3, <2>4 DEF Apart, Carrying, Telling
<1>7. Apart(a, b, K) /\ Apart(b, a, K)
  BY <1>3, <1>4 DEF Apart, Carrying, Telling
<1>8. Spares(Old, P, K, N, P, K, N)
  BY SparesAll
<1>9. <<a, b>> \in Seq(CallSet) /\ Keeps(Old, <<a, b>>, P, K, N, P, K, N)
  BY <1>4, <1>5, <1>6, <1>7, <1>8, TwoNew DEF Adds
<1>10. Replaces(t, <<a, b>>, 1)
  BY <1>1, Becomes DEF Start
<1>11. Types' /\ Kin'
  BY DEF Start, GroupInv, Types, Kin, Completed, group, execution, cancellation, counts
<1> QED BY <1>1, <1>2, <1>9, <1>10, <1>11, FreeStep

LEMMA UnhookKeeps == ASSUME GroupInv, NEW t \in Threads, Unhook(t) PROVE GroupInv'
<1> PICK P, K, N, o, Old, x, L, a : P = phase /\ K = child /\ N = pending /\ o = stack[t][1] /\ x = Task(t)
                                    /\ Old = {o} /\ L = [K EXCEPT ![x] = 0] /\ a = At("body", x)
  OBVIOUS
<1>1. /\ stack[t] # <<>> /\ Good(o, P, K, N) /\ o.op = "wake" /\ o.task = x /\ x \in Tasks
      /\ Removed(t, 1) = Old /\ K[x] # 0 /\ P[x] = "running" /\ P[K[x]] = "completed" /\ x \notin N
  BY Top DEF Unhook, Good, Telling
<1>2. Tables(P, K, N) /\ phase' = P /\ child' = L /\ pending' = N
  BY InvTables DEF Unhook
<1>3. L \in [Tasks -> Tasks \cup {0}] /\ L[x] = 0 /\ \A z \in Tasks : z # x => L[z] = K[z]
  BY <1>1, <1>2 DEF Tables
<1>4. Fits(P, L, N)
  BY <1>1, <1>2, <1>3, ParentFacts DEF Tables, Fits
<1>5. ASSUME NEW c \in CallSet, Other(c, Old, P, K, N)
      PROVE  c.op \in Carrying \cup Telling \cup {"destroy"} => c.task \in Tasks /\ c.task # x
  <2>1. Good(c, P, K, N) /\ Apart(c, o, K)
    BY <1>5 DEF Other
  <2>2. c.op \in Carrying \cup {"destroy"} => c.task # x
    BY <1>1, <1>5, HeldAlone DEF Carrying
  <2> QED BY <1>1, <2>1, <2>2 DEF Good, Apart, Telling, Carrying
<1>6. ASSUME NEW c \in CallSet, Other(c, Old, P, K, N) PROVE Good(c, P, L, N)
  <2>1. Good(c, P, K, N)
    BY <1>6 DEF Other
  <2>2. c.op \in Carrying \cup Telling \cup {"destroy"} => L[c.task] = K[c.task]
    BY <1>3, <1>5, <1>6
  <2> QED BY <2>1, <2>2 DEF Good, Carrying, Telling
<1>7. ASSUME NEW c \in CallSet, NEW e \in CallSet, Other(c, Old, P, K, N), Apart(c, e, K) PROVE Apart(c, e, L)
  <2>1. c.op = "start" => L[c.task] = K[c.task]
    BY <1>3, <1>5, <1>7 DEF Carrying
  <2> QED BY <1>7, <2>1 DEF Apart
<1>8. Spares(Old, P, K, N, P, L, N)
  BY <1>6, <1>7 DEF Spares
<1>9. Adds(a, Old, P, K, N, P, L, N)
  BY <1>1, <1>3, HeldAdds DEF Carrying
<1>10. a.op # "destroy" /\ Replaces(t, <<a>>, 1)
  BY <1>1, Becomes DEF Unhook, At, Call
<1>11. <<a>> \in Seq(CallSet) /\ Keeps(Old, <<a>>, P, K, N, P, L, N)
  BY <1>8, <1>9, <1>10, OneNew
<1>12. Types' /\ Kin'
  <2>1. hook' = [hook EXCEPT ![x] = "off"]
    BY DEF Unhook
  <2>2. Types'
    BY <1>1, <1>2, <1>3, <2>1 DEF Unhook, GroupInv, Types, group, cancellation, counts
  <2>3. Kin'
    BY <1>1, <1>2, <1>3, <2>1 DEF Unhook, GroupInv, Types, Kin, Completed, group
  <2> QED BY <2>2, <2>3
<1> QED BY <1>1, <1>2, <1>4, <1>10, <1>11, <1>12, Step
LEMMA LeaveKeeps == ASSUME GroupInv, NEW t \in Threads, Leave(t) PROVE GroupInv'
<1> PICK P, K, N, o, Old, x, M : P = phase /\ K = child /\ N = pending /\ o = stack[t][1] /\ x = Task(t)
                                 /\ Old = {o} /\ M = N \ {x}
  OBVIOUS
<1>1. /\ stack[t] # <<>> /\ Good(o, P, K, N) /\ o.op = "leave" /\ o.task = x /\ x \in Tasks
      /\ Removed(t, 1) = Old /\ K[x] # 0 /\ P[x] = "running"
  BY Top DEF Leave, Good
<1>2. Tables(P, K, N) /\ child' = K /\ pending' = M
  BY InvTables DEF Leave
<1>3. ASSUME NEW c \in CallSet, Other(c, Old, P, K, N)
      PROVE  Good(c, P, K, N) /\ (c.op \in Carrying \cup {"destroy"} => c.task # x)
  <2>1. o.op \in Carrying
    BY <1>1 DEF Carrying
  <2>2. c.op \in Carrying \cup {"destroy"} => c.task # x
    BY <1>1, <1>3, <2>1, HeldAlone
  <2> QED BY <1>3, <2>2 DEF Other
<1>4. CASE x \in N /\ Become(t, <<At("wake", x)>>) /\ UNCHANGED phase
  <2>1. PICK a : a = At("wake", x)
    OBVIOUS
  <2>2. a \in CallSet /\ a.op = "wake" /\ a.task = x /\ Replaces(t, <<a>>, 1)
    BY <1>1, <1>4, <2>1, Becomes DEF At, Call, CallSet, Ops, Scoped
  <2>3. Fits(P, K, M)
    BY <1>2 DEF Tables, Fits
  <2>4. Good(a, P, K, M)
    BY <1>1, <1>2, <1>4, <2>2 DEF Tables, Fits, Good, Telling
  <2>5. ASSUME NEW c \in CallSet, Other(c, Old, P, K, N) PROVE Good(c, P, K, M) /\ Apart(c, a, K) /\ Apart(a, c, K)
    <3>1. Good(c, P, K, M)
      BY <1>3, <2>5 DEF Good
    <3>2. c.op \in Carrying \cup Telling => c.task # x
      BY <1>3, <1>4, <2>5 DEF Good, Telling, Carrying
    <3> QED BY <2>2, <3>1, <3>2 DEF Apart, Carrying, Telling
  <2>6. Spares(Old, P, K, N, P, K, M)
    BY <2>5 DEF Spares
  <2>7. <<a>> \in Seq(CallSet) /\ Keeps(Old, <<a>>, P, K, N, P, K, M)
    BY <2>2, <2>4, <2>5, <2>6, OneNew DEF Adds
  <2>8. Types' /\ Kin'
    BY <1>2, <1>4 DEF Leave, GroupInv, Types, Kin, Completed, group, cancellation, counts
  <2> QED BY <1>1, <1>2, <1>4, <2>2, <2>3, <2>7, <2>8, Step
<1>5. CASE x \notin N /\ Return(t) /\ Moves(x, "awaiting")
  <2>1. PICK Q : Turned(Q, P, x, "awaiting")
    BY DEF Turned
  <2>2. phase' = Q /\ M = N /\ Replaces(t, <<>>, 1)
    BY <1>1, <1>5, <2>1, Becomes DEF Moves, Turned, Return
  <2>3. Q \in [Tasks -> Phases] /\ Q[x] = "awaiting" /\ \A y \in Tasks : y # x => Q[y] = P[y]
    BY <1>1, <1>2, <2>1 DEF Tables, Turned, Phases
  <2>4. Fits(Q, K, N)
    BY <1>1, <1>2, <1>5, <2>3, ParentFacts DEF Tables, Fits
  <2>5. Unbound(Old, P, K, N, x, "awaiting")
    BY <1>1, <1>3 DEF Unbound, Good, Telling
  <2>6. Spares(Old, P, K, N, Q, K, N)
    BY <1>1, <1>2, <2>1, <2>5, SparesPhase
  <2>7. <<>> \in Seq(CallSet) /\ Keeps(Old, <<>>, P, K, N, Q, K, N)
    BY <2>6, NoneNew
  <2>8. Types' /\ Kin'
    BY <1>1, <1>2, <2>2, <2>3 DEF Leave, GroupInv, Types, Kin, Completed, Roots, group, cancellation, counts
  <2> QED BY <1>1, <1>2, <2>2, <2>4, <2>7, <2>8, Step
<1> QED BY <1>4, <1>5 DEF Leave

LEMMA NotifyKeeps == ASSUME GroupInv, NEW t \in Threads, Notify(t) PROVE GroupInv'
<1> PICK P, K, N, o, Old, x, M : P = phase /\ K = child /\ N = pending /\ o = stack[t][1] /\ x = Task(t)
                                 /\ Old = {o} /\ M = N \cup {x}
  OBVIOUS
<1>1. /\ stack[t] # <<>> /\ Good(o, P, K, N) /\ o.op = "notify" /\ o.task = x /\ x \in Tasks
      /\ Removed(t, 1) = Old /\ K[x] # 0 /\ P[K[x]] = "completed" /\ x \notin N /\ In(t, "notify")
  BY Top DEF Notify, Good, Telling
<1>2. Tables(P, K, N) /\ child' = K
  BY InvTables DEF Notify
<1>3. CASE P[x] = "running" /\ pending' = M /\ Return(t) /\ phase' = P
  <2>1. Fits(P, K, M)
    BY <1>1, <1>2, <1>3 DEF Tables, Fits
  <2>2. ASSUME NEW c \in CallSet, Other(c, Old, P, K, N) PROVE Good(c, P, K, M)
    BY <1>1, <2>2 DEF Other, Good, Apart, Telling
  <2>3. <<>> \in Seq(CallSet) /\ Keeps(Old, <<>>, P, K, N, P, K, M)
    <3>1. Spares(Old, P, K, N, P, K, M)
      BY <2>2 DEF Spares
    <3> QED BY <3>1, NoneNew
  <2>4. Types' /\ Kin'
    BY <1>1, <1>2, <1>3 DEF Notify, GroupInv, Types, Kin, Completed, group, cancellation, counts
  <2>5. Replaces(t, <<>>, 1)
    BY <1>1, <1>3, Becomes DEF Return
  <2> QED BY <1>1, <1>2, <1>3, <2>1, <2>3, <2>4, <2>5, Step
<1>4. CASE P[x] = "awaiting" /\ Dispatched(t, x) /\ UNCHANGED pending
  <2>1. phase' \in [Tasks -> Phases] /\ \A y \in Tasks : y # x => phase'[y] = phase[y]
    BY <1>1, <1>4, DispatchedTypes
  <2>2. Types' /\ Kin'
    BY <1>1, <1>2, <1>4, <2>1 DEF Notify, GroupInv, Types, Kin, Completed, Roots, group, cancellation, counts
  <2>3. Unbound(Old, P, K, N, x, "lazy")
    BY <1>1, <1>2, <1>4, RestIsUnbound
  <2> QED BY <1>1, <1>2, <1>4, <2>2, <2>3, DispatchedKeeps
<1> QED BY <1>3, <1>4 DEF Notify

-----------------------------------------------------------------------------
(* All behaviours.                                                         *)

LEMMA InitHolds == Init => GroupInv
<1> SUFFICES ASSUME Init PROVE GroupInv
  OBVIOUS
<1>1. Types /\ Fits(phase, child, pending) /\ Kin
  <2>1. 0 \in 0 .. MaxStops /\ 0 \in 0 .. MaxJoins
    BY TaskGroupAssumption
  <2>2. Types
    BY <2>1 DEF Init, Types, Phases
  <2>3. Fits(phase, child, pending) /\ Kin
    BY DEF Init, Fits, Kin
  <2> QED BY <2>2, <2>3
<1>2. stack \in Stacks /\ \A t \in Threads : stack[t] = <<>>
  BY DEF Init, Stacks
<1>3. \A t \in Threads : DOMAIN stack[t] = {}
  BY <1>2
<1> QED BY <1>1, <1>2, <1>3 DEF GroupInv, Calls

LEMMA NextKeeps == GroupInv /\ [Next]_vars => GroupInv'
<1> SUFFICES ASSUME GroupInv, [Next]_vars PROVE GroupInv'
  OBVIOUS
<1>1. CASE UNCHANGED vars
  BY <1>1 DEF vars, group, execution, cancellation, counts, GroupInv, Types, Calls, Kin, Completed
<1>2. ASSUME NEW t \in Threads, Continue(t) PROVE GroupInv'
  BY <1>2, StopEachKeeps, JoinReturnsKeeps, ResumeKeeps, SuspendKeeps, CallableEndsKeeps, EndKeeps, DestroyKeeps,
     CompleteKeeps, StartKeeps, LeaveKeeps, NotifyKeeps, UnhookKeeps, CancelKeeps, StopTokenKeeps, CalledKeeps
     DEF Continue
<1>3. ASSUME NEW t \in Threads, RequestStop(t) \/ Join(t) PROVE GroupInv'
  BY <1>3, RequestStopKeeps, JoinKeeps
<1>4. ASSUME NEW t \in Threads, NEW x \in Tasks,
             Spawn(t, x) \/ AwaitChild(t, x) \/ StopTask(t, x) \/ Wake(t, x) \/ Work(t, x)
      PROVE  GroupInv'
  BY <1>4, SpawnKeeps, AwaitChildKeeps, StopTaskKeeps, WakeKeeps, WorkKeeps
<1>5. ASSUME NEW x \in Tasks, Delivered(x) PROVE GroupInv'
  BY <1>5, DeliverKeeps DEF Delivered, Threads
<1> QED BY <1>1, <1>2, <1>3, <1>4, <1>5 DEF Next

LEMMA GroupInvariant == Safe => []GroupInv
BY InitHolds, NextKeeps, PTL DEF Safe
-----------------------------------------------------------------------------
(* A finished group is quiet.                                              *)

\* The equation of line, which an explicit solution satisfies: what every set that is
\* closed under Parent has in common.
LEMMA LineUnfolds == \A x \in Tasks :
    line[x] = {x} \cup (IF Parent[x] = 0 THEN {} ELSE line[Parent[x]])
<1> DEFINE Closed(S) == \A z \in S : Parent[z] # 0 => Parent[z] \in S
           L(x) == {y \in Tasks : \A S \in SUBSET Tasks : x \in S /\ Closed(S) => y \in S}
           F == [x \in Tasks |-> L(x)]
<1>1. \A x \in Tasks : Parent[x] # 0 => Parent[x] \in Tasks
  BY TaskGroupAssumption
<1>2. ASSUME NEW x \in Tasks PROVE L(x) = {x} \cup (IF Parent[x] = 0 THEN {} ELSE L(Parent[x]))
  <2>1. CASE Parent[x] = 0
    <3>1. Closed({x})
      BY <2>1
    <3> QED BY <2>1, <3>1
  <2>2. CASE Parent[x] # 0
    <3>1. \A S \in SUBSET Tasks : x \in S /\ Closed(S) => Parent[x] \in S /\ Closed(S)
      BY <2>2
    <3>2. \A S \in SUBSET Tasks : Parent[x] \in S /\ Closed(S) =>
             x \in S \cup {x} /\ Closed(S \cup {x}) /\ S \cup {x} \in SUBSET Tasks
      BY <2>2
    <3>3. L(Parent[x]) \subseteq L(x)
      BY <3>1
    <3>4. x \in L(x)
      OBVIOUS
    <3>5. ASSUME NEW y \in L(x), y # x PROVE y \in L(Parent[x])
      BY <3>2, <3>5
    <3> QED BY <2>2, <3>3, <3>4, <3>5
  <2> QED BY <2>1, <2>2
<1> HIDE DEF L
<1>3. F = [x \in Tasks |-> {x} \cup (IF Parent[x] = 0 THEN {} ELSE F[Parent[x]])]
  BY <1>1, <1>2
<1>4. line = [x \in Tasks |-> {x} \cup (IF Parent[x] = 0 THEN {} ELSE line[Parent[x]])]
  BY <1>3 DEF line
<1> QED BY <1>4

\* A set of natural numbers has a least element.
LEMMA LeastNatural == ASSUME NEW S \in SUBSET Nat, S # {} PROVE \E m \in S : \A n \in S : m <= n
<1> DEFINE Upto == {0 .. n : n \in S}
<1>1. Upto \subseteq FiniteSubsetsOf(Nat)
  <2>1. \A n \in Nat : IsFiniteSet(0 .. n) /\ 0 .. n \in SUBSET Nat
    BY FS_Interval
  <2> QED BY <2>1 DEF FiniteSubsetsOf
<1>2. PICK T \in Upto : \A U \in Upto : <<U, T>> \notin StrictSubsetOrdering(Nat)
  <2>1. IsWellFoundedOn(StrictSubsetOrdering(Nat), FiniteSubsetsOf(Nat))
    BY FS_StrictSubsetOrderingWellFounded
  <2>2. Upto # {}
    OBVIOUS
  <2> QED BY <1>1, <2>1, <2>2, WFMin
<1>3. PICK m \in S : T = 0 .. m
  OBVIOUS
<1>4. ASSUME NEW n \in S, n < m PROVE FALSE
  <2>1. 0 .. n \subseteq T /\ 0 .. n # T
    <3>1. m \in 0 .. m /\ m \notin 0 .. n
      BY <1>4
    <3> QED BY <1>3, <1>4, <3>1
  <2>2. 0 .. n \in SUBSET Nat /\ T \in SUBSET Nat /\ 0 .. n \in Upto
    BY <1>3
  <2>3. <<0 .. n, T>> \in StrictSubsetOrdering(Nat)
    BY <2>1, <2>2 DEF StrictSubsetOrdering
  <2> QED BY <2>2, <2>3, <1>2
<1> QED BY <1>4

\* A call with an execution_scope is the only one of its task.
LEMMA OneExecution ==
    ASSUME GroupInv, NEW t \in Threads, NEW u \in Threads, NEW d \in DOMAIN stack[t], NEW e \in DOMAIN stack[u],
           stack[t][d].op \in Scoped, stack[u][e].op \in Scoped, stack[t][d].task = stack[u][e].task
    PROVE  t = u /\ d = e
<1>1. /\ \A v \in Threads : \A i \in DOMAIN stack[v] : stack[v][i].op = "destroy" =>
           i + 1 \in DOMAIN stack[v] /\ stack[v][i + 1].op = "complete" /\ stack[v][i + 1].task = stack[v][i].task
      /\ \A v, w \in Threads : \A i \in DOMAIN stack[v], j \in DOMAIN stack[w] :
           Apart(stack[v][i], stack[w][j], child) \/ (v = w /\ i = j)
  BY DEF GroupInv, Calls
<1>2. \A v \in Threads : \A i \in DOMAIN stack[v] : i \in Nat
  BY DEF GroupInv, Stacks
<1>3. Scoped \subseteq Carrying \cup {"destroy"} /\ "complete" \in Carrying \ Scoped
  BY DEF Scoped, Carrying
<1>4. CASE stack[t][d].op \in Carrying /\ stack[u][e].op \in Carrying
  BY <1>1, <1>4 DEF Apart
<1>5. CASE stack[t][d].op = "destroy" /\ stack[u][e].op \in Carrying
  BY <1>1, <1>3, <1>5 DEF Apart
<1>6. CASE stack[t][d].op \in Carrying /\ stack[u][e].op = "destroy"
  BY <1>1, <1>3, <1>6 DEF Apart
<1>7. CASE stack[t][d].op = "destroy" /\ stack[u][e].op = "destroy"
  <2>1. t = u /\ d + 1 = e + 1
    BY <1>1, <1>3, <1>7 DEF Apart
  <2> QED BY <1>2, <2>1
<1> QED BY <1>3, <1>4, <1>5, <1>6, <1>7

LEMMA ExecutionsRun ==
    ASSUME GroupInv, NEW x \in Tasks
    PROVE  Cardinality(Executions(x)) <= 1 /\ (Executions(x) # {} => phase[x] \in {"running", "working"})
<1>1. ASSUME NEW p \in Executions(x)
      PROVE  \E t \in Threads : \E d \in DOMAIN stack[t] :
               p = <<t, d>> /\ stack[t][d].op \in Scoped /\ stack[t][d].task = x
  BY DEF Executions
<1>2. \A p, q \in Executions(x) : p = q
  BY <1>1, OneExecution
<1>3. CASE Executions(x) = {}
  BY <1>3, FS_EmptySet
<1>4. CASE Executions(x) # {}
  <2>1. PICK p \in Executions(x) : TRUE
    BY <1>4
  <2>2. Executions(x) = {p}
    BY <1>2, <2>1
  <2>3. Cardinality(Executions(x)) = 1
    BY <2>2, FS_Singleton
  <2>4. PICK t \in Threads : \E d \in DOMAIN stack[t] : stack[t][d].op \in Scoped /\ stack[t][d].task = x
    BY <1>1, <2>1
  <2>5. PICK d \in DOMAIN stack[t] : stack[t][d].op \in Scoped /\ stack[t][d].task = x
    BY <2>4
  <2>6. Good(stack[t][d], phase, child, pending)
    BY DEF GroupInv, Calls
  <2>7. phase[x] \in {"running", "working"}
    BY <2>5, <2>6 DEF Good, Scoped
  <2> QED BY <2>3, <2>7
<1> QED BY <1>3, <1>4

LEMMA TypesFit == GroupInv => TypeOK
<1> SUFFICES ASSUME GroupInv PROVE TypeOK
  OBVIOUS
<1>1. pending \subseteq {x \in Tasks : child[x] # 0}
  BY DEF GroupInv, Types, Fits
<1>2. \A t \in Threads : \A d \in DOMAIN stack[t] : stack[t][d].op \in Ops
  <2>1. \A t \in Threads : \A d \in DOMAIN stack[t] : stack[t][d] \in CallSet
    BY DEF GroupInv, Stacks
  <2> QED BY <2>1 DEF CallSet
<1> QED BY <1>1, <1>2, ExecutionsRun DEF TypeOK, GroupInv, Types

\* Of what awaits a task that is neither lazy nor completed, nothing is either, up to
\* the root.  So when all that the group owns is completed, nothing is below it.
LEMMA FinishedQuiet == GroupInv => FinishedIsQuiet
<1> SUFFICES ASSUME GroupInv, \A x \in tasks : Completed(x)
             PROVE  \A x \in Tasks : line[x] \cap owned # {} => phase[x] \in {"lazy", "completed"} /\ Executions(x) = {}
  BY TypesFit DEF FinishedIsQuiet
<1> DEFINE Loud == {x \in Tasks : line[x] \cap owned # {} /\ phase[x] \notin {"lazy", "completed"}}
<1>1. \A x \in owned : phase[x] = "completed"
  BY DEF GroupInv, Kin, Completed
<1>2. ASSUME NEW x \in Loud PROVE \E p \in Loud : p < x
  <2>1. x \notin owned
    BY <1>1
  <2>2. PICK p : p = Parent[x]
    OBVIOUS
  <2>3. p # 0 /\ line[p] \cap owned # {}
    BY <2>1, <2>2, LineUnfolds
  <2>4. p \in Tasks /\ p < x
    BY <2>2, <2>3, TaskGroupAssumption
  <2>5. child[p] = x /\ x # 0
    BY <2>2, <2>3, ParentFacts DEF GroupInv, Fits
  <2>6. phase[p] \in {"running", "awaiting", "queued"}
    BY <2>4, <2>5 DEF GroupInv, Fits
  <2> QED BY <2>3, <2>4, <2>6
<1>3. Loud = {}
  <2>1. Loud \in SUBSET Nat
    BY TaskGroupAssumption
  <2>2. SUFFICES ASSUME Loud # {} PROVE FALSE
    OBVIOUS
  <2>3. PICK m \in Loud : \A n \in Loud : m <= n
    BY <2>1, <2>2, LeastNatural
  <2>4. PICK p \in Loud : p < m
    BY <1>2
  <2> QED BY <2>1, <2>3, <2>4
<1> QED BY <1>3, ExecutionsRun

\* An owner that keeps what the tasks use until the group is finished keeps it long
\* enough, whatever the tasks await, spawn and stop on each other's stacks.
THEOREM FinishedIsQuietAlways == Safe => []FinishedIsQuiet
BY GroupInvariant, FinishedQuiet, PTL
=============================================================================
