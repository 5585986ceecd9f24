---------------------------- MODULE FutureProofs ----------------------------
(***************************************************************************)
(* Futures and the callback chain for any program of futures, any threads  *)
(* and any handlers: what a future comes to follows from its sources, a    *)
(* registration is not forgotten, and a chain runs its callbacks in order. *)
(* Whatever is told of a result, a call or a continuation that holds it, is*)
(* there once, and carries on what the source came to.                     *)
(***************************************************************************)
EXTENDS CallbackChain, SequenceTheorems, FiniteSetTheorems, TLAPS

States == {"pending", "value", "exception", "cancelled"}
CallSet == [step : Steps, fut : Nat, part : Nat, state : States, cause : Nat]
Stacks == [Threads -> Seq(CallSet)]
InProgress(st) == UNION {{st[t][d] : d \in DOMAIN st[t]} : t \in Threads}

-----------------------------------------------------------------------------
(* The inductive invariant.                                                *)

\* The plan of a program, in which a chain's links wait for a future that is made.
Shape ==
    /\ plan \in Seq([kind : Kinds, of : Seq(Nat)]) /\ plan # <<>>
    /\ IsChain => \A f \in Futures \ {1} : Kind(f) = "then"
    /\ \A f \in Futures :
         /\ \A i \in DOMAIN Of(f) : Of(f)[i] \in Futures \cup {0}
         /\ Kind(f) \in {"call", "start"} => Of(f) = <<>>
         /\ Kind(f) \in {"then", "join"} => \A i \in DOMAIN Of(f) : Of(f)[i] # 0
         /\ Kind(f) = "then" => Len(Of(f)) = 1
    /\ \E p \in Plans : DOMAIN p = Futures /\ \A f \in Futures : p[f].kind = Kind(f)

Valued(f) == \A s \in Sources(f) : state[s] = "value"
FailsOf(f, c) == c = f \/ \E s \in Sources(f) : Fails(s, c)

Members ==
    /\ created \subseteq Futures /\ tail \in Futures
    /\ state \in [Futures -> States] /\ cause \in [Futures -> Nat]
    /\ \A f \in Futures : cause[f] \in 0 .. Len(plan) /\ (cause[f] # 0 <=> state[f] \in {"exception", "cancelled"})
    /\ continuations \in [Futures -> Seq(Nat \X Nat)]
    /\ hasStarted \subseteq created /\ queued \subseteq hasStarted /\ dropped \subseteq hasStarted
    /\ begun \in [Futures -> 0 .. 1]
    /\ parts \in [Futures -> [remaining : Nat, settled : BOOLEAN, values : SUBSET Nat]]
    /\ cancels \in 0 .. MaxCancels

\* What a call relies on: it is for a future that was made, and carries on what its
\* source came to.
Good(c) ==
    /\ c.fut \in created /\ c.cause \in 0 .. Len(plan)
    /\ c.step = "watch" => Kind(c.fut) = "all" /\ c.part # 0
    /\ c.step \in {"onSettled", "callback", "success", "failure"} =>
          Kind(c.fut) \in {"then", "all"} /\ c.part \in DOMAIN Of(c.fut) /\ Of(c.fut)[c.part] # 0
    /\ c.step = "callback" =>
          LET s == Of(c.fut)[c.part] IN ~Pending(s) /\ c.state = state[s] /\ c.cause = cause[s]
    /\ c.step = "success" => state[Of(c.fut)[c.part]] = "value"
    /\ c.step = "failure" => Fails(Of(c.fut)[c.part], c.cause)
    /\ c.step = "settle" =>
          /\ c.state # "pending"
          /\ c.state = "value" => c.cause = 0 /\ Valued(c.fut)
          /\ c.state # "value" => c.cause # 0 /\ FailsOf(c.fut, c.cause)
    /\ c.step \in {"call", "handler", "begin", "body"} =>
          Kind(c.fut) # "all" /\ (Kind(c.fut) = "then" => Valued(c.fut))
    /\ c.step \in {"handler", "begin", "body"} => c.fut \in hasStarted
    /\ c.step = "body" => c.part # 0
    /\ c.step = "body" /\ Kind(c.fut) = "join" =>
          \A i \in DOMAIN Of(c.fut) : i < c.part => state[Of(c.fut)[i]] = "value"
    /\ c.step = "store" => c = At("store", c.fut, 0) /\ c.fut \in Links

\* What a future has come to.
Outcome ==
    /\ \A f \in Futures : state[f] = "value" => Valued(f)
    /\ \A f \in Futures : cause[f] # 0 => FailsOf(f, cause[f])
    /\ \A f \in Futures : f \notin created => Pending(f)
    /\ \A f \in hasStarted : Kind(f) # "all" /\ (Kind(f) = "then" => Valued(f))
    /\ \A f \in Futures : begun[f] > 0 => f \in hasStarted
    /\ \A s \in Futures : continuations[s] # <<>> => Pending(s)

\* At most one call of K is in progress, or none.
One(st, K) ==
    \A t, u \in Threads : \A d \in DOMAIN st[t] : \A e \in DOMAIN st[u] :
        st[t][d] \in K /\ st[u][e] \in K => t = u /\ d = e
None(st, K) == \A c \in InProgress(st) : c \notin K

\* The body of f is on its way to begin, in a call or in a handler's queue.
BodyCalls(f) == {c \in CallSet : c.fut = f /\ c.step \in {"handler", "begin"}}

Bodies == \A f \in Futures :
    /\ One(stack, BodyCalls(f))
    /\ f \in queued \/ begun[f] > 0 \/ f \notin hasStarted => None(stack, BodyCalls(f))
    /\ f \in queued => begun[f] = 0

\* Part i of f will be told of its source, by a call or by a continuation.
PartCalls(f, i) == {c \in CallSet : c.fut = f /\
    ((c.step = "watch" /\ c.part <= i) \/ (c.step \in {"onSettled", "callback", "success"} /\ c.part = i))}

Parts ==
    /\ \A f \in Futures : \A i \in DOMAIN Of(f) : One(stack, PartCalls(f, i))
    /\ \A s \in Futures : \A k \in DOMAIN continuations[s] :
         \E f \in created : \E i \in DOMAIN Of(f) :
            /\ continuations[s][k] = <<f, i>> /\ Of(f)[i] = s /\ Kind(f) \in {"then", "all"}
            /\ i \notin parts[f].values /\ None(stack, PartCalls(f, i))
    /\ \A s \in Futures : \A k, l \in DOMAIN continuations[s] :
         continuations[s][k] = continuations[s][l] => k = l
    /\ \A f \in Futures : Kind(f) = "all" =>
         /\ parts[f].values \subseteq DOMAIN Of(f) /\ (f \notin created => parts[f].values = {})
         /\ parts[f].remaining = Cardinality(DOMAIN Of(f) \ parts[f].values)
         /\ \A i \in parts[f].values :
              Of(f)[i] # 0 /\ state[Of(f)[i]] = "value" /\ None(stack, PartCalls(f, i))
    /\ \A f \in Futures : Kind(f) # "all" => parts[f].values = {} /\ parts[f].remaining = Len(Of(f))

Inv ==
    /\ Shape /\ Members /\ stack \in Stacks
    /\ \A c \in InProgress(stack) : Good(c)
    /\ Outcome /\ Bodies /\ Parts

\* A chain whose invocations never nest: each link waits for the one before.
StoreCalls == {c \in CallSet : c.step = "store"}
Linked == IsChain /\ nested = {} =>
    /\ One(stack, StoreCalls)
    /\ \A f \in created \cap Links : Of(f) = <<f - 1>>
    /\ \A c \in InProgress(stack) : c.step = "store" => c.fut = tail + 1
    /\ \A f \in created : f <= tail \/ \E c \in InProgress(stack) : c.step = "store" /\ c.fut = f
    /\ tail # 1 => tail \in created
    /\ \A f \in created \cap Links : \A g \in Links : g < f => g \in created /\ (state[f] = "value" => state[g] = "value")

-----------------------------------------------------------------------------
(* Stacks.                                                                 *)

\* Calls New take the place of the k innermost calls of thread t.
Replaces(t, New, k) ==
    /\ k \in {0, 1} /\ (k = 1 => stack[t] # <<>>)
    /\ stack' = [stack EXCEPT ![t] = New \o (IF k = 1 THEN Tail(@) ELSE @)]

\* What was in the stacks stays where it was, or moves on its own stack.
Moved(t, New, k) ==
    /\ stack' \in Stacks
    /\ \A u \in Threads : u # t => stack'[u] = stack[u]
    /\ \A d \in DOMAIN New : d \in DOMAIN stack'[t] /\ stack'[t][d] = New[d]
    /\ \A d \in DOMAIN stack[t] : d > k =>
          d + Len(New) - k \in DOMAIN stack'[t] /\ stack'[t][d + Len(New) - k] = stack[t][d]
    /\ \A d \in DOMAIN stack'[t] :
          \/ d \in DOMAIN New
          \/ /\ d - Len(New) + k \in DOMAIN stack[t] /\ d - Len(New) + k > k
             /\ stack'[t][d] = stack[t][d - Len(New) + k]

\* Whatever replaces calls moves the others.
LEMMA ReplacingMoves ==
    ASSUME stack \in Stacks, NEW t \in Threads, NEW New \in Seq(CallSet), NEW k, Replaces(t, New, k)
    PROVE  Moved(t, New, k)
PROOF
<1> DEFINE rest == IF k = 1 THEN Tail(stack[t]) ELSE stack[t]
<1>1. /\ stack[t] \in Seq(CallSet) /\ Len(stack[t]) \in Nat /\ DOMAIN stack[t] = 1 .. Len(stack[t])
      /\ k \in {0, 1} /\ (k = 1 => stack[t] # <<>>)
      /\ Len(New) \in Nat /\ DOMAIN New = 1 .. Len(New)
  BY DEF Stacks, Replaces
<1>2. /\ rest \in Seq(CallSet) /\ Len(rest) = Len(stack[t]) - k /\ Len(rest) \in Nat
      /\ \A d \in 1 .. Len(rest) : rest[d] = stack[t][d + k]
  <2>1. CASE k = 0
    BY <1>1, <2>1
  <2>2. CASE k = 1
    BY <1>1, <2>2
  <2> QED BY <1>1, <2>1, <2>2
<1>3. stack'[t] = New \o rest /\ \A u \in Threads : u # t => stack'[u] = stack[u]
  BY DEF Stacks, Replaces
<1> HIDE DEF rest
<1>4. New \o rest \in Seq(CallSet)
  BY <1>2
<1>5. stack' \in Stacks
  BY <1>3, <1>4 DEF Stacks, Replaces
<1>6. /\ Len(stack'[t]) = Len(New) + Len(rest) /\ DOMAIN stack'[t] = 1 .. Len(New) + Len(rest)
      /\ \A d \in 1 .. Len(New) : stack'[t][d] = New[d]
      /\ \A d \in 1 .. Len(rest) : stack'[t][Len(New) + d] = rest[d]
  <2> DEFINE all == New \o rest
  <2>1. Len(all) = Len(New) + Len(rest)
    BY SMTT(30), <1>2
  <2>2. DOMAIN all = 1 .. Len(New) + Len(rest)
    <3>1. DOMAIN all = 1 .. Len(all)
      BY <1>4, LenProperties
    <3> HIDE DEF all
    <3> QED BY <2>1, <3>1
  <2>3. ASSUME NEW d \in 1 .. Len(New)
        PROVE  all[d] = New[d]
    BY <1>1, <1>2, <2>3
  <2>4. ASSUME NEW d \in 1 .. Len(rest)
        PROVE  all[Len(New) + d] = rest[d]
    BY <1>1, <1>2, <2>4
  <2> HIDE DEF all
  <2>5. stack'[t] = all
    BY <1>3 DEF all
  <2> QED BY <2>1, <2>2, <2>3, <2>4, <2>5
<1>7. \A d \in DOMAIN New : d \in DOMAIN stack'[t] /\ stack'[t][d] = New[d]
  BY <1>1, <1>2, <1>6
<1>8. ASSUME NEW d \in DOMAIN stack[t], d > k
      PROVE  d + Len(New) - k \in DOMAIN stack'[t] /\ stack'[t][d + Len(New) - k] = stack[t][d]
  <2>1. d - k \in 1 .. Len(rest) /\ (d - k) + k = d /\ Len(New) + (d - k) = d + Len(New) - k
    BY <1>1, <1>2, <1>8
  <2>2. stack'[t][Len(New) + (d - k)] = rest[d - k] /\ rest[d - k] = stack[t][d]
    BY <1>2, <1>6, <2>1
  <2>3. d + Len(New) - k \in 1 .. Len(New) + Len(rest)
    BY <1>1, <1>2, <1>8
  <2> QED BY <1>6, <2>1, <2>2, <2>3
<1>9. ASSUME NEW d \in DOMAIN stack'[t], d \notin DOMAIN New
      PROVE  /\ d - Len(New) + k \in DOMAIN stack[t] /\ d - Len(New) + k > k
             /\ stack'[t][d] = stack[t][d - Len(New) + k]
  <2>1. d - Len(New) \in 1 .. Len(rest) /\ Len(New) + (d - Len(New)) = d
    BY <1>1, <1>2, <1>6, <1>9
  <2>2. stack'[t][d] = rest[d - Len(New)] /\ rest[d - Len(New)] = stack[t][d - Len(New) + k]
    BY <1>2, <1>6, <2>1
  <2>3. d - Len(New) + k \in 1 .. Len(stack[t]) /\ d - Len(New) + k > k
    BY <1>1, <1>2, <2>1
  <2> QED BY <1>1, <2>2, <2>3
<1> QED BY <1>3, <1>5, <1>7, <1>8, <1>9 DEF Moved

\* So the calls in progress are the new ones and the old ones.
LEMMA MovedCalls ==
    ASSUME stack \in Stacks, NEW t \in Threads, NEW New \in Seq(CallSet), NEW k \in {0, 1},
           k = 1 => stack[t] # <<>>, Moved(t, New, k)
    PROVE  /\ \A c \in InProgress(stack') : c \in InProgress(stack) \/ \E d \in DOMAIN New : c = New[d]
           /\ \A c \in InProgress(stack) : c \in InProgress(stack') \/ (k = 1 /\ c = Head(stack[t]))
           /\ \A d \in DOMAIN New : New[d] \in InProgress(stack')
PROOF
<1>1. ASSUME NEW c \in InProgress(stack')
      PROVE  c \in InProgress(stack) \/ \E d \in DOMAIN New : c = New[d]
  <2>1. PICK u \in Threads : c \in {stack'[u][d] : d \in DOMAIN stack'[u]}
    BY <1>1 DEF InProgress
  <2>2. PICK d \in DOMAIN stack'[u] : c = stack'[u][d]
    BY <2>1
  <2>3. CASE u # t
    BY <2>2, <2>3 DEF Moved, InProgress
  <2>4. CASE u = t
    BY <2>2, <2>4 DEF Moved, InProgress
  <2> QED BY <2>3, <2>4
<1>2. ASSUME NEW c \in InProgress(stack)
      PROVE  c \in InProgress(stack') \/ (k = 1 /\ c = Head(stack[t]))
  <2>1. PICK u \in Threads : c \in {stack[u][d] : d \in DOMAIN stack[u]}
    BY <1>2 DEF InProgress
  <2>2. PICK d \in DOMAIN stack[u] : c = stack[u][d]
    BY <2>1
  <2>3. CASE u # t
    BY <2>2, <2>3 DEF Moved, InProgress
  <2>4. CASE u = t /\ d > k
    BY <2>2, <2>4 DEF Moved, InProgress
  <2>5. CASE u = t /\ ~(d > k)
    <3>1. stack[t] \in Seq(CallSet) /\ d \in 1 .. Len(stack[t])
      BY <2>2, <2>5 DEF Stacks
    <3>2. k = 1 /\ d = 1
      BY <2>5, <3>1
    <3> QED BY <2>2, <2>5, <3>1, <3>2
  <2> QED BY <2>3, <2>4, <2>5
<1>3. ASSUME NEW d \in DOMAIN New
      PROVE  New[d] \in InProgress(stack')
  BY DEF Moved, InProgress
<1> QED BY <1>1, <1>2, <1>3

\* A call moves on its stack to where no other call moves.
LEMMA MovedFrom ==
    ASSUME stack \in Stacks, NEW t \in Threads, NEW New \in Seq(CallSet), NEW k \in {0, 1},
           k = 1 => stack[t] # <<>>, Moved(t, New, k), NEW K,
           \A u \in Threads : \A d \in DOMAIN stack[u] : (u = t => d > k) => stack[u][d] \notin K
    PROVE  /\ (\A d \in DOMAIN New : New[d] \notin K) => None(stack', K)
           /\ (\A d, e \in DOMAIN New : New[d] \in K /\ New[e] \in K => d = e) => One(stack', K)
PROOF
<1>1. ASSUME NEW u \in Threads, NEW d \in DOMAIN stack'[u], stack'[u][d] \in K
      PROVE  u = t /\ d \in DOMAIN New /\ New[d] \in K
  BY <1>1 DEF Moved
<1>2. ASSUME \A d \in DOMAIN New : New[d] \notin K
      PROVE  None(stack', K)
  <2> SUFFICES ASSUME NEW c \in InProgress(stack'), c \in K
               PROVE  FALSE
    BY DEF None
  <2>1. PICK u \in Threads : c \in {stack'[u][d] : d \in DOMAIN stack'[u]}
    BY DEF InProgress
  <2> QED BY <1>1, <1>2, <2>1
<1>3. ASSUME \A d, e \in DOMAIN New : New[d] \in K /\ New[e] \in K => d = e
      PROVE  One(stack', K)
  BY <1>1, <1>3 DEF One
<1> QED BY <1>2, <1>3

\* The calls of K a step leaves behind: none if there were none, and none if the one
\* there may be is taken.
LEMMA NoneLeft ==
    ASSUME stack \in Stacks, NEW t \in Threads, NEW k \in {0, 1}, k = 1 => stack[t] # <<>>, NEW K,
           None(stack, K) \/ (One(stack, K) /\ k = 1 /\ Head(stack[t]) \in K)
    PROVE  \A u \in Threads : \A d \in DOMAIN stack[u] : (u = t => d > k) => stack[u][d] \notin K
PROOF
<1> SUFFICES ASSUME NEW u \in Threads, NEW d \in DOMAIN stack[u], u = t => d > k, stack[u][d] \in K
             PROVE  FALSE
  OBVIOUS
<1>1. CASE None(stack, K)
  BY <1>1 DEF None, InProgress
<1>2. CASE One(stack, K) /\ k = 1 /\ Head(stack[t]) \in K
  <2>1. stack[t] \in Seq(CallSet) /\ stack[t] # <<>>
    BY <1>2 DEF Stacks
  <2>2. 1 \in DOMAIN stack[t] /\ stack[t][1] = Head(stack[t])
    BY <2>1
  <2>3. t = u /\ 1 = d
    BY <1>2, <2>2 DEF One
  <2> QED BY <1>2, <2>3
<1> QED BY <1>1, <1>2

\* A step that makes no call of K leaves one of them at most, and none if there was none.
LEMMA NoneMade ==
    ASSUME stack \in Stacks, NEW t \in Threads, NEW New \in Seq(CallSet), NEW k \in {0, 1},
           k = 1 => stack[t] # <<>>, Moved(t, New, k), NEW K, \A d \in DOMAIN New : New[d] \notin K
    PROVE  /\ One(stack, K) => One(stack', K)
           /\ None(stack, K) => None(stack', K)
           /\ One(stack, K) /\ k = 1 /\ Head(stack[t]) \in K => None(stack', K)
PROOF
<1>1. ASSUME None(stack, K) \/ (One(stack, K) /\ k = 1 /\ Head(stack[t]) \in K)
      PROVE  None(stack', K)
  <2>1. \A u \in Threads : \A d \in DOMAIN stack[u] : (u = t => d > k) => stack[u][d] \notin K
    BY <1>1, NoneLeft
  <2> QED BY <2>1, MovedFrom
<1>2. ASSUME One(stack, K)
      PROVE  One(stack', K)
  <2> DEFINE Old(u, d) == IF u = t THEN d - Len(New) + k ELSE d
  <2>1. Len(New) \in Nat
    OBVIOUS
  <2>2. ASSUME NEW u \in Threads
        PROVE  DOMAIN stack'[u] \subseteq Nat
    BY DEF Moved, Stacks
  <2>3. ASSUME NEW u \in Threads, NEW d \in DOMAIN stack'[u], stack'[u][d] \in K
        PROVE  Old(u, d) \in DOMAIN stack[u] /\ stack[u][Old(u, d)] \in K
    BY <2>3 DEF Moved
  <2> HIDE DEF Old
  <2>4. ASSUME NEW u \in Threads, NEW v \in Threads, NEW d \in DOMAIN stack'[u], NEW e \in DOMAIN stack'[v],
               stack'[u][d] \in K, stack'[v][e] \in K
        PROVE  u = v /\ d = e
    <3>1. u = v /\ Old(u, d) = Old(v, e)
      BY <1>2, <2>3, <2>4 DEF One
    <3>2. d \in Nat /\ e \in Nat
      BY <2>2
    <3> QED BY <2>1, <3>1, <3>2 DEF Old
  <2> QED BY <2>4 DEF One
<1> QED BY <1>1, <1>2

\* One that makes at most one in the place of all there were leaves at most one.
LEMMA OneMade ==
    ASSUME stack \in Stacks, NEW t \in Threads, NEW New \in Seq(CallSet), NEW k \in {0, 1},
           k = 1 => stack[t] # <<>>, Moved(t, New, k), NEW K, One(stack, K),
           \A d, e \in DOMAIN New : New[d] \in K /\ New[e] \in K => d = e,
           (\E d \in DOMAIN New : New[d] \in K) => None(stack, K) \/ (k = 1 /\ Head(stack[t]) \in K)
    PROVE  One(stack', K)
PROOF
<1>1. CASE \E d \in DOMAIN New : New[d] \in K
  <2>1. \A u \in Threads : \A d \in DOMAIN stack[u] : (u = t => d > k) => stack[u][d] \notin K
    BY <1>1, NoneLeft
  <2> QED BY <2>1, MovedFrom
<1>2. CASE \A d \in DOMAIN New : New[d] \notin K
  BY <1>2, NoneMade
<1> QED BY <1>1, <1>2

-----------------------------------------------------------------------------
(* What a step has to show.                                                *)

\* What was made or settled stays as it is.
Monotone ==
    /\ DOMAIN plan' = DOMAIN plan
    /\ \A f \in Futures : plan'[f].kind = plan[f].kind
    /\ created \subseteq created' /\ \A f \in created : plan'[f] = plan[f]
    /\ hasStarted \subseteq hasStarted'
    /\ \A f \in Futures : ~Pending(f) => state'[f] = state[f] /\ cause'[f] = cause[f]

\* What a future that was made was told of stays true.
LEMMA StaysTrue ==
    ASSUME Shape, Members, Monotone, NEW f \in created
    PROVE  /\ Valued(f) => Valued(f)'
           /\ \A c : FailsOf(f, c) => FailsOf(f, c)'
           /\ f \in Futures /\ f \in Futures' /\ Of(f)' = Of(f) /\ Kind(f)' = Kind(f)
           /\ \A i \in DOMAIN Of(f) : Of(f)[i] # 0 => Of(f)[i] \in Sources(f)
           /\ Sources(f)' = Sources(f) /\ Sources(f) \subseteq Futures
PROOF
<1>1. f \in Futures /\ f \in Futures' /\ Of(f)' = Of(f) /\ Kind(f)' = Kind(f)
  BY DEF Members, Monotone, Futures, Of, Kind
<1>2. \A i \in DOMAIN Of(f) : Of(f)[i] \in Futures \cup {0}
  BY <1>1 DEF Shape
<1>3. Sources(f)' = Sources(f) /\ Sources(f) \subseteq Futures
  BY <1>1, <1>2 DEF Sources
<1>4. Valued(f) => Valued(f)'
  BY <1>3 DEF Valued, Monotone, Pending
<1>5. \A s \in Futures : \A c : Fails(s, c) => Fails(s, c)'
  BY DEF Fails, Monotone, Pending
<1>6. \A c : FailsOf(f, c) => FailsOf(f, c)'
  BY <1>3, <1>5 DEF FailsOf
<1> QED BY <1>1, <1>3, <1>4, <1>6 DEF Sources

\* What a call relies on stays so.
LEMMA StaysGood ==
    ASSUME Shape, Members, Monotone, NEW c \in CallSet, Good(c)
    PROVE  Good(c)'
PROOF
<1>1. c.fut \in created /\ c.fut \in created'
  BY DEF Good, Monotone
<1>2. PICK f : f = c.fut
  OBVIOUS
<1>3. /\ f \in Futures /\ f \in Futures' /\ Of(f)' = Of(f) /\ Kind(f)' = Kind(f)
      /\ Sources(f)' = Sources(f) /\ Sources(f) \subseteq Futures
      /\ \A i \in DOMAIN Of(f) : Of(f)[i] # 0 => Of(f)[i] \in Sources(f)
  BY <1>1, <1>2, StaysTrue
<1>4. (Valued(f) => Valued(f)') /\ (FailsOf(f, c.cause) => FailsOf(f, c.cause)')
  BY <1>1, <1>2, StaysTrue
<1>5. Len(plan') = Len(plan)
  BY DEF Shape, Monotone
<1>6. c.step \in {"onSettled", "callback", "success", "failure"} =>
        Kind(f)' \in {"then", "all"} /\ c.part \in DOMAIN Of(f)' /\ Of(f)'[c.part] # 0
        /\ Of(f)[c.part] \in Futures /\ Of(f)'[c.part] = Of(f)[c.part]
  BY <1>2, <1>3 DEF Good
<1>7. c.step = "callback" =>
        LET s == Of(f)[c.part] IN ~Pending(s)' /\ c.state = state'[s] /\ c.cause = cause'[s]
  BY <1>2, <1>6 DEF Good, Monotone, Pending
<1>8. c.step = "success" => state'[Of(f)[c.part]] = "value"
  BY <1>2, <1>6 DEF Good, Monotone, Pending
<1>9. c.step = "failure" => Fails(Of(f)[c.part], c.cause)'
  <2> SUFFICES ASSUME c.step = "failure"
               PROVE  Fails(Of(f)[c.part], c.cause)'
    OBVIOUS
  <2>1. PICK s : s = Of(f)[c.part]
    OBVIOUS
  <2>2. s \in Futures /\ Fails(s, c.cause) /\ Of(f)'[c.part] = s
    BY <1>2, <1>6, <2>1 DEF Good
  <2> QED BY <1>3, <2>1, <2>2 DEF Fails, Monotone, Pending
<1>10. c.step = "body" /\ Kind(f) = "join" =>
         \A i \in DOMAIN Of(f) : i < c.part => state'[Of(f)[i]] = "value"
  <2> SUFFICES ASSUME c.step = "body", Kind(f) = "join", NEW i \in DOMAIN Of(f), i < c.part
               PROVE  state'[Of(f)[i]] = "value"
    OBVIOUS
  <2>1. state[Of(f)[i]] = "value"
    BY <1>2 DEF Good
  <2>2. Of(f)[i] \in Futures
    BY <1>3 DEF Shape
  <2> QED BY <2>1, <2>2 DEF Monotone, Pending
<1>11. c.step = "store" => c = At("store", f, 0) /\ (f \in Links)'
  <2> SUFFICES ASSUME c.step = "store"
               PROVE  c = At("store", f, 0) /\ (f \in Links)'
    OBVIOUS
  <2>1. c = At("store", f, 0) /\ f \in Links
    BY <1>2 DEF Good
  <2>2. 1 \in Futures
    BY DEF Shape, Futures
  <2>3. Kind(1)' = Kind(1)
    BY <2>2 DEF Monotone, Kind
  <2> QED BY <2>1, <2>3 DEF Links, IsChain, Futures, Monotone
<1>12. /\ c.cause \in 0 .. Len(plan)
       /\ c.step = "watch" => Kind(f) = "all" /\ c.part # 0
       /\ c.step = "body" => c.part # 0
       /\ c.step = "settle" =>
            /\ c.state # "pending"
            /\ c.state = "value" => c.cause = 0 /\ Valued(f)
            /\ c.state # "value" => c.cause # 0 /\ FailsOf(f, c.cause)
       /\ c.step \in {"call", "handler", "begin", "body"} =>
            Kind(f) # "all" /\ (Kind(f) = "then" => Valued(f))
       /\ c.step \in {"handler", "begin", "body"} => f \in hasStarted
  BY <1>2 DEF Good
<1>13. /\ c.cause \in 0 .. Len(plan')
       /\ c.step = "watch" => Kind(f)' = "all" /\ c.part # 0
       /\ c.step = "body" => c.part # 0
       /\ c.step = "settle" =>
            /\ c.state # "pending"
            /\ c.state = "value" => c.cause = 0 /\ Valued(f)'
            /\ c.state # "value" => c.cause # 0 /\ FailsOf(f, c.cause)'
       /\ c.step \in {"call", "handler", "begin", "body"} =>
            Kind(f)' # "all" /\ (Kind(f)' = "then" => Valued(f)')
       /\ c.step \in {"handler", "begin", "body"} => f \in hasStarted'
  BY <1>3, <1>4, <1>5, <1>12 DEF Monotone
<1>14. c.fut = f /\ c.fut \in created'
  BY <1>1, <1>2
<1> QED BY <1>3, <1>6, <1>7, <1>8, <1>9, <1>10, <1>11, <1>13, <1>14 DEF Good

LEMMA GoodCalls ==
    ASSUME Inv, Monotone, NEW t \in Threads, NEW New \in Seq(CallSet), NEW k \in {0, 1},
           k = 1 => stack[t] # <<>>, Moved(t, New, k), \A d \in DOMAIN New : Good(New[d])'
    PROVE  \A c \in InProgress(stack') : c \in CallSet /\ Good(c)'
PROOF
<1> TAKE c \in InProgress(stack')
<1>1. CASE \E d \in DOMAIN New : c = New[d]
  BY <1>1
<1>2. CASE c \in InProgress(stack)
  <2>1. PICK u \in Threads : c \in {stack[u][d] : d \in DOMAIN stack[u]}
    BY <1>2 DEF InProgress
  <2>2. PICK d \in DOMAIN stack[u] : c = stack[u][d]
    BY <2>1
  <2>3. stack[u] \in Seq(CallSet)
    BY DEF Inv, Stacks
  <2>4. c \in CallSet
    BY <2>2, <2>3
  <2>5. Good(c) /\ Shape /\ Members
    BY <1>2 DEF Inv
  <2> QED BY <2>4, <2>5, StaysGood
<1> QED BY <1>1, <1>2, MovedCalls DEF Inv

\* A step that settles nothing.
LEMMA OutcomeKept ==
    ASSUME Inv, Monotone, Members', state' = state, cause' = cause,
           \A f \in hasStarted' : f \in hasStarted \/
               (f \in created /\ Kind(f) # "all" /\ (Kind(f) = "then" => Valued(f))),
           \A f \in Futures : begun'[f] > 0 => f \in hasStarted',
           \A s \in Futures : continuations'[s] # <<>> => Pending(s)
    PROVE  Outcome'
PROOF
<1>1. Shape /\ Members /\ Outcome
  BY DEF Inv
<1>2. Futures' = Futures
  BY DEF Monotone, Futures
<1>3. ASSUME NEW f \in Futures, state'[f] = "value"
      PROVE  Valued(f)'
  <2>1. Valued(f) /\ f \in created
    BY <1>1, <1>3 DEF Outcome, Pending
  <2> QED BY <1>1, <2>1, StaysTrue
<1>4. ASSUME NEW f \in Futures, cause'[f] # 0
      PROVE  FailsOf(f, cause[f])'
  <2>1. state[f] \in {"exception", "cancelled"}
    BY <1>1, <1>4 DEF Members
  <2>2. FailsOf(f, cause[f]) /\ f \in created
    BY <1>1, <1>4, <2>1 DEF Outcome, Pending
  <2>3. PICK c : c = cause[f]
    OBVIOUS
  <2>4. FailsOf(f, c)' /\ cause'[f] = c
    BY <1>1, <2>2, <2>3, StaysTrue
  <2> QED BY <2>4 DEF FailsOf, Fails, Sources, Of, Pending
<1>5. \A f \in Futures : f \notin created' => Pending(f)'
  BY <1>1 DEF Outcome, Pending, Monotone
<1>6. ASSUME NEW f \in hasStarted'
      PROVE  Kind(f)' # "all" /\ (Kind(f)' = "then" => Valued(f)')
  <2>1. f \in created /\ Kind(f) # "all" /\ (Kind(f) = "then" => Valued(f))
    BY <1>1, <1>6 DEF Outcome, Members
  <2> QED BY <1>1, <2>1, StaysTrue
<1>7. \A s \in Futures : continuations'[s] # <<>> => Pending(s)'
  BY DEF Pending
<1> QED BY <1>2, <1>3, <1>4, <1>5, <1>6, <1>7 DEF Outcome

LEMMA PlanKept == ASSUME Shape, plan' = plan PROVE Shape' /\ Futures' = Futures
BY DEF Shape, Futures, Kind, Of, IsChain

\* A step that neither starts a body nor begins one.
LEMMA BodiesKept ==
    ASSUME Inv, NEW t \in Threads, NEW New \in Seq(CallSet), NEW k \in {0, 1},
           k = 1 => stack[t] # <<>>, Moved(t, New, k),
           UNCHANGED <<hasStarted, queued, begun>>, DOMAIN plan' = DOMAIN plan,
           \A d \in DOMAIN New : New[d].step \notin {"handler", "begin"}
    PROVE  Bodies'
PROOF
<1>1. stack \in Stacks /\ Bodies /\ Futures' = Futures
  BY DEF Inv, Futures
<1>2. ASSUME NEW f \in Futures
      PROVE  /\ One(stack', BodyCalls(f))
             /\ f \in queued' \/ begun'[f] > 0 \/ f \notin hasStarted' => None(stack', BodyCalls(f))
             /\ f \in queued' => begun'[f] = 0
  <2> DEFINE K == BodyCalls(f)
  <2>1. \A d \in DOMAIN New : New[d] \notin K
    BY DEF BodyCalls
  <2>2. One(stack, K) /\ (f \in queued \/ begun[f] > 0 \/ f \notin hasStarted => None(stack, K))
    BY <1>1 DEF Bodies
  <2> HIDE DEF K
  <2>3. One(stack', K) /\ (None(stack, K) => None(stack', K))
    BY <1>1, <2>1, <2>2, NoneMade
  <2> QED BY <1>1, <2>2, <2>3 DEF Bodies, K
<1> QED BY <1>1, <1>2 DEF Bodies, One, None, InProgress

\* A step that tells no part again: the one call it makes for it takes the place of
\* one, or is for a future that was just made.
LEMMA PartsKept ==
    ASSUME Inv, Monotone, NEW t \in Threads, NEW New \in Seq(CallSet), NEW k \in {0, 1},
           k = 1 => stack[t] # <<>>, Moved(t, New, k), continuations' = continuations,
           \A f \in Futures : DOMAIN Of(f)' = DOMAIN Of(f) /\ Len(Of(f)') = Len(Of(f)),
           \A f \in Futures : parts'[f].values = parts[f].values /\ parts'[f].remaining = parts[f].remaining,
           \A f \in Futures : \A i \in DOMAIN Of(f) : \A d, e \in DOMAIN New :
              New[d] \in PartCalls(f, i) =>
                 /\ f \notin created \/ (k = 1 /\ Head(stack[t]) \in PartCalls(f, i))
                 /\ New[e] \in PartCalls(f, i) => d = e
    PROVE  Parts'
PROOF
<1>1. stack \in Stacks /\ Parts /\ Shape /\ Futures' = Futures
  BY DEF Inv, Futures, Monotone
<1>2. ASSUME NEW f \in Futures, NEW i \in DOMAIN Of(f)
      PROVE  /\ One(stack', PartCalls(f, i))
             /\ f \in created /\ None(stack, PartCalls(f, i)) => None(stack', PartCalls(f, i))
  <2> DEFINE K == PartCalls(f, i)
  <2>1. One(stack, K)
    BY <1>1 DEF Parts
  <2>2. \A d, e \in DOMAIN New : New[d] \in K =>
            (f \notin created \/ (k = 1 /\ Head(stack[t]) \in K)) /\ (New[e] \in K => d = e)
    OBVIOUS
  <2>3. f \notin created => None(stack, K)
    BY DEF Inv, Good, None, PartCalls
  <2> HIDE DEF K
  <2>4. One(stack', K)
    BY <1>1, <2>1, <2>2, <2>3, OneMade
  <2>5. ASSUME f \in created, None(stack, K)
        PROVE  None(stack', K)
    <3>1. ASSUME k = 1
          PROVE  Head(stack[t]) \notin K
      <4>1. stack[t] \in Seq(CallSet) /\ stack[t] # <<>>
        BY <1>1, <3>1 DEF Stacks
      <4>2. 1 \in DOMAIN stack[t] /\ stack[t][1] = Head(stack[t])
        BY <4>1
      <4> QED BY <2>5, <4>2 DEF None, InProgress
    <3>2. \A d \in DOMAIN New : New[d] \notin K
      BY <2>2, <2>5, <3>1
    <3> QED BY <1>1, <2>5, <3>2, NoneMade
  <2> QED BY <2>4, <2>5 DEF K
<1>3. /\ \A f \in Futures : Kind(f)' = Kind(f) /\ DOMAIN Of(f)' = DOMAIN Of(f)
      /\ \A f \in created : Of(f)' = Of(f)
  BY DEF Of, Kind, Monotone
<1>4. \A f \in Futures : \A i \in DOMAIN Of(f)' : One(stack, PartCalls(f, i))'
  BY <1>2, <1>3 DEF One
<1>5. ASSUME NEW s \in Futures, NEW j \in DOMAIN continuations'[s]
      PROVE  \E f \in created' : \E i \in DOMAIN Of(f)' :
                /\ continuations'[s][j] = <<f, i>> /\ Of(f)'[i] = s /\ Kind(f)' \in {"then", "all"}
                /\ i \notin parts'[f].values /\ None(stack', PartCalls(f, i))
  <2>1. PICK f \in created : \E i \in DOMAIN Of(f) :
            /\ continuations[s][j] = <<f, i>> /\ Of(f)[i] = s /\ Kind(f) \in {"then", "all"}
            /\ i \notin parts[f].values /\ None(stack, PartCalls(f, i))
    BY <1>1, <1>5 DEF Parts
  <2>2. f \in Futures /\ f \in created'
    BY DEF Inv, Members, Monotone
  <2> QED BY <1>2, <1>3, <2>1, <2>2
<1>6. ASSUME NEW f \in Futures, Kind(f)' = "all"
      PROVE  /\ parts'[f].values \subseteq DOMAIN Of(f)' /\ (f \notin created' => parts'[f].values = {})
             /\ parts'[f].remaining = Cardinality(DOMAIN Of(f)' \ parts'[f].values)
             /\ \A i \in parts'[f].values :
                  Of(f)'[i] # 0 /\ state'[Of(f)'[i]] = "value" /\ None(stack', PartCalls(f, i))
  <2>1. Kind(f) = "all" /\ DOMAIN Of(f)' = DOMAIN Of(f)
    BY <1>3, <1>6
  <2>2. /\ parts[f].values \subseteq DOMAIN Of(f) /\ (f \notin created => parts[f].values = {})
        /\ parts[f].remaining = Cardinality(DOMAIN Of(f) \ parts[f].values)
        /\ \A i \in parts[f].values :
             Of(f)[i] # 0 /\ state[Of(f)[i]] = "value" /\ None(stack, PartCalls(f, i))
    BY <1>1, <2>1 DEF Parts
  <2>3. ASSUME NEW i \in parts[f].values
        PROVE  Of(f)'[i] # 0 /\ state'[Of(f)'[i]] = "value" /\ None(stack', PartCalls(f, i))
    <3>1. f \in created /\ i \in DOMAIN Of(f) /\ state[Of(f)[i]] = "value" /\ None(stack, PartCalls(f, i))
      BY <2>2
    <3>2. Of(f)[i] \in Futures
      <4>1. Of(f)[i] \in Futures \cup {0}
        BY <1>1, <3>1 DEF Shape
      <4> QED BY <2>2, <4>1
    <3>3. Of(f)' = Of(f)
      BY <1>3, <3>1
    <3> QED BY <1>2, <2>2, <3>1, <3>2, <3>3 DEF Monotone, Pending
  <2>4. f \notin created' => parts'[f].values = {}
    BY <2>2 DEF Monotone
  <2> QED BY <2>1, <2>2, <2>3, <2>4
<1>7. \A f \in Futures : Kind(f)' # "all" => parts'[f].values = {} /\ parts'[f].remaining = Len(Of(f)')
  BY <1>1, <1>3 DEF Parts
<1>8. \A s \in Futures : \A j, l \in DOMAIN continuations'[s] :
         continuations'[s][j] = continuations'[s][l] => j = l
  BY <1>1 DEF Parts
<1> QED BY <1>1, <1>4, <1>5, <1>6, <1>7, <1>8 DEF Parts, One, None, InProgress

-----------------------------------------------------------------------------
(* A step that shows these keeps the invariant.                            *)

\* A call the step makes.
Makes(c) == c \in CallSet /\ Good(c)'

LEMMA StepKeeps ==
    ASSUME Inv, NEW t \in Threads, NEW New \in Seq(CallSet), NEW k, Replaces(t, New, k),
           Monotone, Shape', Members', Outcome', \A d \in DOMAIN New : Makes(New[d]),
           Moved(t, New, k) => Bodies' /\ Parts'
    PROVE  Inv'
PROOF
<1>1. stack \in Stacks
  BY DEF Inv
<1>2. Moved(t, New, k) /\ k \in {0, 1} /\ (k = 1 => stack[t] # <<>>)
  BY <1>1, ReplacingMoves DEF Replaces
<1>3. stack' \in Stacks
  BY <1>2 DEF Moved
<1>4. \A c \in InProgress(stack') : Good(c)'
  BY <1>2, GoodCalls DEF Makes
<1> QED BY <1>2, <1>3, <1>4 DEF Inv, Stacks

\* A step that starts no body and registers and fills nothing.
Calm ==
    /\ Monotone /\ Shape' /\ Members' /\ Outcome'
    /\ UNCHANGED <<hasStarted, queued, begun, continuations>>
    /\ \A f \in Futures : parts'[f].values = parts[f].values /\ parts'[f].remaining = parts[f].remaining
    /\ \A f \in Futures : DOMAIN Of(f)' = DOMAIN Of(f) /\ Len(Of(f)') = Len(Of(f))

LEMMA NoneKeeps ==
    ASSUME Inv, NEW t \in Threads, NEW k, Replaces(t, <<>>, k), Calm
    PROVE  Inv'
PROOF
<1> DEFINE New == <<>>
<1>1. New \in Seq(CallSet) /\ DOMAIN New = {}
  OBVIOUS
<1>2. Replaces(t, New, k)
  OBVIOUS
<1> HIDE DEF New
<1>3. k \in {0, 1} /\ (k = 1 => stack[t] # <<>>) /\ DOMAIN plan' = DOMAIN plan
  BY <1>2 DEF Replaces, Calm, Monotone
<1>4. Moved(t, New, k) => Bodies'
  BY <1>1, <1>3, BodiesKept DEF Calm
<1>5. Moved(t, New, k) => Parts'
  BY <1>1, <1>3, PartsKept DEF Calm
<1> QED BY <1>1, <1>2, <1>4, <1>5, StepKeeps DEF Calm

LEMMA OneKeeps ==
    ASSUME Inv, NEW t \in Threads, NEW k, NEW a, Replaces(t, <<a>>, k), Calm, Makes(a),
           a.step \notin {"handler", "begin"},
           \A f \in Futures : \A i \in DOMAIN Of(f) : a \in PartCalls(f, i) =>
              f \notin created \/ (k = 1 /\ Head(stack[t]) \in PartCalls(f, i))
    PROVE  Inv'
PROOF
<1> DEFINE New == <<a>>
<1>1. New \in Seq(CallSet) /\ DOMAIN New = {1} /\ New[1] = a
  BY DEF Makes
<1>2. Replaces(t, New, k)
  OBVIOUS
<1> HIDE DEF New
<1>3. k \in {0, 1} /\ (k = 1 => stack[t] # <<>>) /\ DOMAIN plan' = DOMAIN plan
  BY <1>2 DEF Replaces, Calm, Monotone
<1>4. Moved(t, New, k) => Bodies'
  BY <1>1, <1>3, BodiesKept DEF Calm
<1>5. Moved(t, New, k) => Parts'
  <2>1. \A f \in Futures : \A i \in DOMAIN Of(f) : \A d, e \in DOMAIN New :
           New[d] \in PartCalls(f, i) =>
              /\ f \notin created \/ (k = 1 /\ Head(stack[t]) \in PartCalls(f, i))
              /\ New[e] \in PartCalls(f, i) => d = e
    BY <1>1
  <2> QED BY <1>1, <1>3, <2>1, PartsKept DEF Calm
<1> QED BY <1>1, <1>2, <1>4, <1>5, StepKeeps DEF Calm

\* A call that tells nothing is of no part.
LEMMA TellsNothing ==
    ASSUME NEW a, a.step \notin {"watch", "onSettled", "callback", "success"}
    PROVE  \A f, i : a \notin PartCalls(f, i)
BY DEF PartCalls

LEMMA TwoKeep ==
    ASSUME Inv, NEW t \in Threads, NEW k, NEW a, NEW b, Replaces(t, <<a, b>>, k), Calm,
           Makes(a), Makes(b), {a.step, b.step} \cap {"handler", "begin"} = {},
           \A f \in Futures : \A i \in DOMAIN Of(f) :
              /\ a \in PartCalls(f, i) \/ b \in PartCalls(f, i) =>
                    f \notin created \/ (k = 1 /\ Head(stack[t]) \in PartCalls(f, i))
              /\ ~(a \in PartCalls(f, i) /\ b \in PartCalls(f, i))
    PROVE  Inv'
PROOF
<1> DEFINE New == <<a, b>>
<1>1. New \in Seq(CallSet) /\ DOMAIN New = {1, 2} /\ New[1] = a /\ New[2] = b
  BY DEF Makes
<1>2. Replaces(t, New, k)
  OBVIOUS
<1> HIDE DEF New
<1>3. k \in {0, 1} /\ (k = 1 => stack[t] # <<>>) /\ DOMAIN plan' = DOMAIN plan
  BY <1>2 DEF Replaces, Calm, Monotone
<1>4. \A d \in DOMAIN New : Makes(New[d]) /\ New[d].step \notin {"handler", "begin"}
  BY <1>1
<1>5. Moved(t, New, k) => Bodies'
  BY <1>1, <1>3, <1>4, BodiesKept DEF Calm
<1>6. Moved(t, New, k) => Parts'
  <2>1. \A f \in Futures : \A i \in DOMAIN Of(f) : \A d, e \in DOMAIN New :
           New[d] \in PartCalls(f, i) =>
              /\ f \notin created \/ (k = 1 /\ Head(stack[t]) \in PartCalls(f, i))
              /\ New[e] \in PartCalls(f, i) => d = e
    BY <1>1
  <2> QED BY <1>1, <1>3, <2>1, PartsKept DEF Calm
<1> QED BY <1>1, <1>2, <1>4, <1>5, <1>6, StepKeeps DEF Calm

\* A step that leaves the plan, the results and the bodies as they are.
LEMMA Calmly ==
    ASSUME Inv, UNCHANGED <<plan, ccall, body, parts>>, created' = created,
           cancels' \in 0 .. MaxCancels, tail' \in Futures
    PROVE  Calm
PROOF
<1>1. Shape /\ Members /\ Outcome
  BY DEF Inv
<1>2. Shape' /\ Futures' = Futures
  BY <1>1, PlanKept
<1>3. Members'
  BY <1>1, <1>2 DEF Members, ccall, body
<1>4. Monotone
  BY DEF Monotone, ccall, body
<1>5. Outcome'
  <2>1. state' = state /\ cause' = cause /\ hasStarted' = hasStarted /\ begun' = begun
        /\ continuations' = continuations
    BY DEF ccall, body
  <2>2. \A f \in Futures : begun[f] > 0 => f \in hasStarted
    BY <1>1 DEF Outcome
  <2>3. \A s \in Futures : continuations[s] # <<>> => Pending(s)
    BY <1>1 DEF Outcome
  <2> QED BY <1>3, <1>4, <2>1, <2>2, <2>3, OutcomeKept
<1>6. \A f \in Futures : DOMAIN Of(f)' = DOMAIN Of(f) /\ Len(Of(f)') = Len(Of(f))
  BY DEF Of
<1> QED BY <1>2, <1>3, <1>4, <1>5, <1>6 DEF Calm, ccall, body

LEMMA Stutter == Inv /\ UNCHANGED chainVars => Inv'
PROOF
<1> SUFFICES ASSUME Inv, UNCHANGED chainVars
             PROVE  Inv'
  OBVIOUS
<1>1. UNCHANGED <<plan, ccall, body, parts>> /\ created' = created /\ stack' = stack
      /\ cancels' = cancels /\ tail' = tail
  BY DEF chainVars, vars
<1>2. Calm
  BY <1>1, Calmly DEF Inv, Members
<1>3. CASE Threads = {}
  <2>1. stack' \in Stacks /\ InProgress(stack') = {} /\ InProgress(stack) = {}
    BY <1>1, <1>3 DEF Inv, Stacks, InProgress
  <2>2. Bodies'
    BY <1>1, <1>3, <2>1 DEF Calm, Inv, Bodies, One, None, InProgress, Futures, body
  <2>3. Parts'
    BY <1>1, <1>3, <2>1 DEF Inv, Parts, One, None, InProgress, Futures, Of, Kind, ccall
  <2> QED BY <1>2, <2>1, <2>2, <2>3 DEF Calm, Inv
<1>4. CASE Threads # {}
  <2>1. PICK t \in Threads : TRUE
    BY <1>4
  <2>2. stack[t] \in Seq(CallSet) /\ stack \in [Threads -> Seq(CallSet)]
    BY DEF Inv, Stacks
  <2>3. <<>> \o stack[t] = stack[t]
    BY <2>2
  <2>4. stack' = [stack EXCEPT ![t] = <<>> \o stack[t]]
    BY <1>1, <2>2, <2>3
  <2>5. Replaces(t, <<>>, 0)
    BY <2>4 DEF Replaces
  <2> QED BY <1>2, <2>5, NoneKeeps
<1> QED BY <1>3, <1>4

-----------------------------------------------------------------------------
(* The initial state, and what every action uses.                          *)

LEMMA InitInv == ChainInit => Inv
PROOF
<1> SUFFICES ASSUME ChainInit
             PROVE  Inv
  OBVIOUS
<1>1. /\ plan \in Plans /\ plan # <<>> /\ plan \in Seq([kind : Kinds, of : Seq(Nat)])
      /\ \A f \in DOMAIN plan :
         /\ \A i \in DOMAIN plan[f].of : plan[f].of[i] \in 0 .. f - 1
         /\ plan[f].kind \in {"call", "start"} => plan[f].of = <<>>
         /\ plan[f].kind \in {"then", "join"} => \A i \in DOMAIN plan[f].of : plan[f].of[i] # 0
         /\ plan[f].kind = "then" => Len(plan[f].of) = 1
  BY FutureAssumption DEF ChainInit, Init
<1>2. DOMAIN plan = 1 .. Len(plan) /\ Len(plan) \in Nat /\ 1 \in Futures /\ Len(plan) # 0
  BY <1>1 DEF Futures
<1>3. \A f \in Futures : \A i \in DOMAIN Of(f) : Of(f)[i] \in Futures \cup {0}
  <2> SUFFICES ASSUME NEW f \in Futures, NEW i \in DOMAIN Of(f)
               PROVE  Of(f)[i] \in Futures \cup {0}
    OBVIOUS
  <2>1. plan[f].of[i] \in 0 .. f - 1 /\ f \in 1 .. Len(plan)
    BY <1>1, <1>2 DEF Futures, Of
  <2> QED BY <1>2, <2>1 DEF Futures, Of
<1>4. IsChain => \A f \in Futures \ {1} : Kind(f) = "then"
  BY <1>1, ChainAssumption DEF IsChain, Kind, Futures
<1>5. Shape
  BY <1>1, <1>3, <1>4 DEF Shape, Futures, Kind, Of
<1>6. \A f \in Futures : Of(f) \in Seq(Nat) /\ Len(Of(f)) \in Nat
  <2>1. \A f \in Futures : plan[f] \in [kind : Kinds, of : Seq(Nat)]
    <3> DEFINE R == [kind : Kinds, of : Seq(Nat)]
    <3>1. plan \in Seq(R)
      BY <1>1
    <3> HIDE DEF R
    <3>2. \A f \in Futures : plan[f] \in R
      BY <3>1 DEF Futures
    <3> QED BY <3>2 DEF R
  <2>2. \A f \in Futures : plan[f].of \in Seq(Nat)
    BY <2>1
  <2> QED BY <2>2 DEF Of
<1>7. /\ created = {} /\ queued = {} /\ dropped = {} /\ hasStarted = {} /\ tail = 1
      /\ state = [f \in Futures |-> "pending"] /\ cause = [f \in Futures |-> 0]
      /\ continuations = [f \in Futures |-> <<>>] /\ begun = [f \in Futures |-> 0] /\ cancels = 0
      /\ parts = [f \in Futures |-> [remaining |-> Len(Of(f)), settled |-> FALSE, values |-> {}]]
      /\ stack = [t \in Threads |-> <<>>]
  BY DEF ChainInit, Init
<1>8. parts \in [Futures -> [remaining : Nat, settled : BOOLEAN, values : SUBSET Nat]]
  BY <1>6, <1>7
<1>9. state \in [Futures -> States] /\ cause \in [Futures -> Nat] /\ begun \in [Futures -> 0 .. 1]
  BY <1>7 DEF States
<1>10. continuations \in [Futures -> Seq(Nat \X Nat)]
  BY <1>7
<1>11. Members
  BY <1>2, <1>7, <1>8, <1>9, <1>10, FutureAssumption DEF Members
<1>12. stack \in Stacks /\ InProgress(stack) = {} /\ \A t \in Threads : DOMAIN stack[t] = {}
  <2>1. \A t \in Threads : stack[t] = <<>> /\ DOMAIN stack[t] = {}
    BY <1>7
  <2> QED BY <1>7, <2>1 DEF Stacks, InProgress
<1>13. Outcome
  BY <1>7 DEF Outcome, Pending
<1>14. Bodies
  BY <1>7, <1>12 DEF Bodies, One, None
<1>15. ASSUME NEW f \in Futures
       PROVE  parts[f].values = {} /\ parts[f].remaining = Len(Of(f))
              /\ Len(Of(f)) = Cardinality(DOMAIN Of(f) \ {})
  <2>1. Of(f) \in Seq(Nat)
    BY <1>6
  <2>2. DOMAIN Of(f) = 1 .. Len(Of(f)) /\ Len(Of(f)) \in Nat
    BY <2>1
  <2>3. Cardinality(1 .. Len(Of(f))) = Len(Of(f))
    <3>1. PICK n \in Nat : n = Len(Of(f))
      BY <2>2
    <3>2. Cardinality(1 .. n) = IF 1 > n THEN 0 ELSE n - 1 + 1
      BY FS_Interval
    <3>3. Cardinality(1 .. n) = n
      BY <3>2
    <3> QED BY <3>1, <3>3
  <2>4. DOMAIN Of(f) \ {} = 1 .. Len(Of(f))
    BY <2>2
  <2> QED BY <1>7, <2>2, <2>3, <2>4
<1>16. Parts
  <2>1. \A s \in Futures : DOMAIN continuations[s] = {}
    BY <1>7
  <2>2. \A f \in Futures : \A i \in DOMAIN Of(f) : One(stack, PartCalls(f, i))
    BY <1>12 DEF One
  <2>3. \A f \in Futures : Kind(f) = "all" =>
          /\ parts[f].values \subseteq DOMAIN Of(f) /\ (f \notin created => parts[f].values = {})
          /\ parts[f].remaining = Cardinality(DOMAIN Of(f) \ parts[f].values)
          /\ parts[f].values = {}
    BY <1>15
  <2> QED BY <1>15, <2>1, <2>2, <2>3 DEF Parts
<1> QED BY <1>5, <1>11, <1>12, <1>13, <1>14, <1>16 DEF Inv

\* The call a thread carries out is good.
LEMMA Acting ==
    ASSUME Inv, NEW t \in Threads, stack[t] # <<>>
    PROVE  /\ Top(t) \in CallSet /\ Top(t) \in InProgress(stack) /\ Good(Top(t))
           /\ Top(t) = Head(stack[t]) /\ Shape /\ Members
PROOF
<1>1. stack[t] \in Seq(CallSet)
  BY DEF Inv, Stacks
<1>2. 1 \in DOMAIN stack[t] /\ stack[t][1] = Head(stack[t])
  BY <1>1
<1>3. Head(stack[t]) \in InProgress(stack)
  BY <1>2 DEF InProgress
<1> QED BY <1>1, <1>2, <1>3 DEF Inv, Top

\* Futures are numbers, and their sources and parts too.
LEMMA Numbers ==
    ASSUME Shape
    PROVE  /\ Len(plan) \in Nat /\ Futures = 1 .. Len(plan) /\ Futures \subseteq Nat /\ 0 \notin Futures
           /\ \A f \in Futures : /\ Of(f) \in Seq(Nat) /\ Len(Of(f)) \in Nat
                                 /\ DOMAIN Of(f) = 1 .. Len(Of(f))
PROOF
<1>1. plan \in Seq([kind : Kinds, of : Seq(Nat)])
  BY DEF Shape
<1>2. Len(plan) \in Nat /\ Futures = 1 .. Len(plan)
  BY <1>1 DEF Futures
<1>3. \A f \in Futures : Of(f) \in Seq(Nat)
  <2>1. \A f \in Futures : plan[f] \in [kind : Kinds, of : Seq(Nat)]
    <3> DEFINE R == [kind : Kinds, of : Seq(Nat)]
    <3>1. plan \in Seq(R)
      BY <1>1
    <3> HIDE DEF R
    <3>2. \A f \in Futures : plan[f] \in R
      BY <3>1 DEF Futures
    <3> QED BY <3>2 DEF R
  <2>2. \A f \in Futures : plan[f].of \in Seq(Nat)
    BY <2>1
  <2> QED BY <2>2 DEF Of
<1> QED BY <1>2, <1>3

\* A step that replaces the only call, or none, of an idle thread.
LEMMA FromIdle ==
    ASSUME stack \in Stacks, NEW t \in Threads, stack[t] = <<>>, NEW New \in Seq(CallSet),
           stack' = [stack EXCEPT ![t] = New]
    PROVE  Replaces(t, New, 0)
PROOF
<1>1. New \o <<>> = New
  BY ConcatEmptySeq
<1> QED BY <1>1 DEF Replaces

-----------------------------------------------------------------------------
(* Making a future.                                                        *)

\* Making one more.
LEMMA Making ==
    ASSUME Inv, UNCHANGED <<ccall, body, parts, cancels, tail>>, NEW f \in Futures, f \notin created,
           created' = created \cup {f}, Shape', DOMAIN plan' = DOMAIN plan,
           \A g \in Futures : plan'[g].kind = plan[g].kind /\ (g # f => plan'[g] = plan[g]),
           \A g \in Futures : DOMAIN Of(g)' = DOMAIN Of(g) /\ Len(Of(g)') = Len(Of(g))
    PROVE  Calm
PROOF
<1>1. Shape /\ Members /\ Outcome /\ Futures' = Futures
  BY DEF Inv, Futures
<1>2. Monotone
  <2>1. \A g \in created : g \in Futures /\ g # f
    BY <1>1 DEF Members
  <2> QED BY <2>1 DEF Monotone, ccall, body, Futures
<1>3. Members'
  <2>1. Len(plan') = Len(plan)
    BY <1>1 DEF Shape
  <2> QED BY <1>1, <2>1 DEF Members, ccall, body
<1>4. Outcome'
  <2>1. state' = state /\ cause' = cause /\ hasStarted' = hasStarted /\ begun' = begun
        /\ continuations' = continuations
    BY DEF ccall, body
  <2>2. \A g \in Futures : begun[g] > 0 => g \in hasStarted
    BY <1>1 DEF Outcome
  <2>3. \A s \in Futures : continuations[s] # <<>> => Pending(s)
    BY <1>1 DEF Outcome
  <2> QED BY <1>2, <1>3, <2>1, <2>2, <2>3, OutcomeKept
<1> QED BY <1>2, <1>3, <1>4 DEF Calm, ccall, body

LEMMA CreateKeeps ==
    ASSUME Inv, NEW t \in Threads, NEW f \in Futures, Create(t, f), Outside
    PROVE  Inv'
PROOF
<1>1. Shape /\ Members /\ stack \in Stacks
  BY DEF Inv
<1>2. f \notin created /\ created' = created \cup {f} /\ stack[t] = <<>> /\ plan' = plan
  BY DEF Create, Idle
<1>3. Shape' /\ Futures' = Futures
  BY <1>1, <1>2, PlanKept
<1>4. Calm
  <2>1. \A g \in Futures : DOMAIN Of(g)' = DOMAIN Of(g) /\ Len(Of(g)') = Len(Of(g))
    BY <1>2 DEF Of
  <2> QED BY <1>2, <1>3, <2>1, Making DEF Create, Outside
<1>5. f \in Nat /\ Kind(f) \in Kinds
  <2>1. f \in Nat
    BY <1>1, Numbers
  <2>2. plan \in Seq([kind : Kinds, of : Seq(Nat)])
    BY <1>1 DEF Shape
  <2> DEFINE R == [kind : Kinds, of : Seq(Nat)]
  <2>3. plan \in Seq(R)
    BY <2>2
  <2> HIDE DEF R
  <2>4. plan[f] \in R
    BY <2>3 DEF Futures
  <2> QED BY <2>1, <2>4 DEF R, Kind
<1>6. PICK a : a = CASE Kind(f) \in {"call", "start", "join"} -> At("call", f, 0)
                      [] Kind(f) = "then" -> At("onSettled", f, 1)
                      [] Kind(f) = "all" -> At("watch", f, 1)
  OBVIOUS
<1>7. PICK b : b = At("made", f, 0)
  OBVIOUS
<1>8. b \in CallSet /\ b.step = "made" /\ b.fut = f /\ b.cause = 0
  BY <1>5, <1>7 DEF At, Call, CallSet, Steps, States
<1>9. /\ a \in CallSet /\ a.fut = f /\ a.cause = 0
      /\ a.step = "call" => Kind(f) \in {"call", "start", "join"}
      /\ a.step = "onSettled" => Kind(f) = "then" /\ a.part = 1
      /\ a.step = "watch" => Kind(f) = "all" /\ a.part = 1
      /\ a.step \in {"call", "onSettled", "watch"}
  <2>1. CASE Kind(f) \in {"call", "start", "join"}
    BY <1>5, <1>6, <2>1 DEF At, Call, CallSet, Steps, States
  <2>2. CASE Kind(f) = "then"
    BY <1>5, <1>6, <2>2 DEF At, Call, CallSet, Steps, States
  <2>3. CASE Kind(f) = "all"
    BY <1>5, <1>6, <2>3 DEF At, Call, CallSet, Steps, States
  <2> QED BY <1>5, <2>1, <2>2, <2>3 DEF Kinds
<1>10. Replaces(t, <<a, b>>, 0)
  <2>1. stack' = [stack EXCEPT ![t] = <<a, b>>]
    BY <1>6, <1>7 DEF Create
  <2>2. <<a, b>> \in Seq(CallSet)
    BY <1>8, <1>9
  <2> QED BY <1>1, <1>2, <2>1, <2>2, FromIdle
<1>11. Len(plan') \in Nat /\ f \in created' /\ Kind(f)' = Kind(f) /\ Of(f)' = Of(f)
  BY <1>1, <1>2, Numbers DEF Kind, Of
<1>12. Makes(b)
  BY <1>8, <1>11 DEF Makes, Good
<1>13. Kind(f) = "then" => 1 \in DOMAIN Of(f) /\ Of(f)[1] # 0
  <2>1. Kind(f) = "then" => Len(Of(f)) = 1
    BY <1>1 DEF Shape
  <2>2. DOMAIN Of(f) = 1 .. Len(Of(f))
    BY <1>1, Numbers
  <2>3. Kind(f) = "then" => 1 \in DOMAIN Of(f)
    BY <2>1, <2>2
  <2> QED BY <1>1, <2>3 DEF Shape
<1>14. Makes(a)
  BY <1>9, <1>11, <1>13 DEF Makes, Good
<1>15. \A g, i : b \notin PartCalls(g, i)
  BY <1>8, TellsNothing
<1>16. \A g, i : a \in PartCalls(g, i) => g \notin created
  BY <1>2, <1>9 DEF PartCalls
<1> QED BY <1>4, <1>8, <1>9, <1>10, <1>12, <1>14, <1>15, <1>16, TwoKeep

LEMMA MadeKeeps ==
    ASSUME Inv, NEW t \in Threads, Made(t), Outside
    PROVE  Inv'
PROOF
<1>1. Calm
  BY Calmly DEF Made, Outside, Inv, Members
<1>2. Replaces(t, <<>>, 1)
  BY DEF Made, In, Return, Become, Replaces
<1> QED BY <1>1, <1>2, NoneKeeps

LEMMA WatchKeeps ==
    ASSUME Inv, NEW t \in Threads, Watch(t), Outside
    PROVE  Inv'
PROOF
<1>1. PICK f : f = Top(t).fut
  OBVIOUS
<1>2. PICK i : i = Top(t).part
  OBVIOUS
<1>3. stack[t] # <<>> /\ Top(t).step = "watch" /\ Top(t) = Head(stack[t])
  BY DEF Watch, In, Top
<1>4. /\ f \in created /\ f \in Futures /\ Kind(f) = "all" /\ i \in Nat /\ i # 0 /\ Top(t) \in CallSet
      /\ Shape /\ Members
  BY <1>1, <1>2, <1>3, Acting DEF Good, CallSet, Members
<1>5. /\ f \in Nat /\ Len(plan) \in Nat /\ f \in 0 .. Len(plan)
      /\ DOMAIN Of(f) = 1 .. Len(Of(f)) /\ Len(Of(f)) \in Nat
  BY <1>4, Numbers
<1>6. Calm
  BY <1>4, Calmly DEF Watch, Outside, Members
<1>7. UNCHANGED <<plan, created, state, cause, hasStarted>>
  BY DEF Watch, ccall, body
<1>8. Become(t, CASE Of(f) = <<>> -> <<Call("settle", f, 0, "value", 0)>>
                  [] Of(f) # <<>> /\ i > Len(Of(f)) -> <<>>
                  [] i \in DOMAIN Of(f) /\ Of(f)[i] = 0 -> <<Call("settle", f, 0, "exception", f)>>
                  [] OTHER -> <<At("onSettled", f, i), At("watch", f, i + 1)>>)
  BY <1>1, <1>2 DEF Watch
<1>9. f \in created' /\ Kind(f)' = Kind(f) /\ Of(f)' = Of(f) /\ Len(plan') = Len(plan)
      /\ Sources(f)' = Sources(f) /\ (Valued(f)' <=> Valued(f))
  BY <1>4, <1>7 DEF Kind, Of, Sources, Valued
<1>10. CASE Of(f) = <<>>
  <2>1. PICK a : a = Call("settle", f, 0, "value", 0)
    OBVIOUS
  <2>2. a \in CallSet /\ a.step = "settle" /\ a.fut = f /\ a.state = "value" /\ a.cause = 0
    BY <1>5, <2>1 DEF Call, CallSet, Steps, States
  <2>3. Replaces(t, <<a>>, 1)
    BY <1>3, <1>8, <1>10, <2>1 DEF Become, Replaces
  <2>4. Valued(f)
    BY <1>10 DEF Valued, Sources
  <2>5. Makes(a)
    BY <1>4, <1>5, <1>9, <2>2, <2>4 DEF Makes, Good
  <2>6. \A g, j : a \notin PartCalls(g, j)
    BY <2>2, TellsNothing
  <2> QED BY <1>6, <2>2, <2>3, <2>5, <2>6, OneKeeps
<1>11. CASE Of(f) # <<>> /\ i > Len(Of(f))
  <2>1. Become(t, <<>>)
    BY <1>5, <1>8, <1>11
  <2>2. Replaces(t, <<>>, 1)
    BY <1>3, <2>1 DEF Become, Replaces
  <2> QED BY <1>6, <2>2, NoneKeeps
<1>12. CASE Of(f) # <<>> /\ i \in DOMAIN Of(f) /\ Of(f)[i] = 0
  <2>1. PICK a : a = Call("settle", f, 0, "exception", f)
    OBVIOUS
  <2>2. a \in CallSet /\ a.step = "settle" /\ a.fut = f /\ a.state = "exception" /\ a.cause = f
    BY <1>5, <2>1 DEF Call, CallSet, Steps, States
  <2>3. ~(i > Len(Of(f)))
    BY <1>5, <1>12
  <2>4. Replaces(t, <<a>>, 1)
    BY <1>3, <1>8, <1>12, <2>1, <2>3 DEF Become, Replaces
  <2>5. f # 0
    BY <1>4, Numbers
  <2>6. Makes(a)
    BY <1>4, <1>5, <1>9, <2>2, <2>5 DEF Makes, Good, FailsOf
  <2>7. \A g, j : a \notin PartCalls(g, j)
    BY <2>2, TellsNothing
  <2> QED BY <1>6, <2>2, <2>4, <2>6, <2>7, OneKeeps
<1>13. CASE Of(f) # <<>> /\ i \in DOMAIN Of(f) /\ Of(f)[i] # 0
  <2>1. PICK a : a = At("onSettled", f, i)
    OBVIOUS
  <2>2. PICK b : b = At("watch", f, i + 1)
    OBVIOUS
  <2>3. a \in CallSet /\ a.step = "onSettled" /\ a.fut = f /\ a.part = i /\ a.cause = 0
    BY <1>4, <1>5, <2>1 DEF At, Call, CallSet, Steps, States
  <2>4. b \in CallSet /\ b.step = "watch" /\ b.fut = f /\ b.part = i + 1 /\ b.cause = 0
    BY <1>4, <1>5, <2>2 DEF At, Call, CallSet, Steps, States
  <2>5. ~(i > Len(Of(f)))
    BY <1>5, <1>13
  <2>6. Replaces(t, <<a, b>>, 1)
    BY <1>3, <1>8, <1>13, <2>1, <2>2, <2>5 DEF Become, Replaces
  <2>7. Makes(a)
    BY <1>4, <1>5, <1>9, <1>13, <2>3 DEF Makes, Good
  <2>8. Makes(b)
    BY <1>4, <1>5, <1>9, <2>4 DEF Makes, Good
  <2>9. ASSUME NEW g \in Futures, NEW j \in DOMAIN Of(g)
        PROVE  /\ a \in PartCalls(g, j) \/ b \in PartCalls(g, j) => Head(stack[t]) \in PartCalls(g, j)
               /\ ~(a \in PartCalls(g, j) /\ b \in PartCalls(g, j))
    <3>1. j \in Nat
      BY <1>4, Numbers
    <3>2. a \in PartCalls(g, j) => g = f /\ j = i
      BY <2>3 DEF PartCalls
    <3>3. b \in PartCalls(g, j) => g = f /\ i + 1 <= j
      BY <2>4 DEF PartCalls
    <3>4. g = f /\ i <= j => Head(stack[t]) \in PartCalls(g, j)
      BY <1>1, <1>2, <1>3, <1>4 DEF PartCalls
    <3> QED BY <1>4, <3>1, <3>2, <3>3, <3>4
  <2> QED BY <1>6, <2>3, <2>4, <2>6, <2>7, <2>8, <2>9, TwoKeep
<1> QED BY <1>4, <1>5, <1>10, <1>11, <1>12, <1>13

\* A call that tells of part i is told of once: the part is not filled, and no
\* continuation holds it.
LEMMA ToldOnce ==
    ASSUME Inv, NEW c \in InProgress(stack), NEW f \in created, NEW i \in DOMAIN Of(f), c \in PartCalls(f, i)
    PROVE  /\ i \notin parts[f].values
           /\ \A s \in Futures : \A k \in DOMAIN continuations[s] : continuations[s][k] # <<f, i>>
PROOF
<1>1. Parts /\ f \in Futures
  BY DEF Inv, Members
<1>2. ~None(stack, PartCalls(f, i))
  BY DEF None
<1>3. i \notin parts[f].values
  BY <1>1, <1>2 DEF Parts
<1>4. ASSUME NEW s \in Futures, NEW k \in DOMAIN continuations[s], continuations[s][k] = <<f, i>>
      PROVE  FALSE
  <2>1. PICK g \in created : \E j \in DOMAIN Of(g) :
            continuations[s][k] = <<g, j>> /\ None(stack, PartCalls(g, j))
    BY <1>1 DEF Parts
  <2>2. PICK j \in DOMAIN Of(g) : continuations[s][k] = <<g, j>> /\ None(stack, PartCalls(g, j))
    BY <2>1
  <2>3. g = f /\ j = i
    BY <1>4, <2>2
  <2> QED BY <1>2, <2>2, <2>3
<1> QED BY <1>3, <1>4

\* Keeping a continuation: it takes the place of the call.
LEMMA PartsRegistered ==
    ASSUME Inv, NEW t \in Threads, stack[t] # <<>>, Moved(t, <<>>, 1),
           NEW f \in created, NEW i \in DOMAIN Of(f), NEW s \in Futures, Of(f)[i] = s,
           Kind(f) \in {"then", "all"}, Head(stack[t]) \in PartCalls(f, i),
           continuations' = [continuations EXCEPT ![s] = Append(@, <<f, i>>)],
           UNCHANGED <<plan, created, state, parts>>
    PROVE  Parts'
PROOF
<1>1. /\ stack \in Stacks /\ Parts /\ f \in Futures /\ Futures' = Futures
      /\ \A g \in Futures : Kind(g)' = Kind(g) /\ Of(g)' = Of(g)
  BY DEF Inv, Members, Futures, Kind, Of
<1>2. ASSUME NEW K
      PROVE  /\ One(stack, K) => One(stack', K)
             /\ None(stack, K) => None(stack', K)
             /\ One(stack, K) /\ Head(stack[t]) \in K => None(stack', K)
  <2> DEFINE New == <<>>
  <2>1. New \in Seq(CallSet) /\ DOMAIN New = {} /\ Moved(t, New, 1)
    OBVIOUS
  <2> HIDE DEF New
  <2> QED BY <1>1, <2>1, NoneMade
<1>3. One(stack, PartCalls(f, i)) /\ None(stack', PartCalls(f, i))
  BY <1>1, <1>2 DEF Parts
<1>4. Head(stack[t]) \in InProgress(stack)
  BY Acting DEF Top
<1>5. /\ i \notin parts[f].values
      /\ \A r \in Futures : \A k \in DOMAIN continuations[r] : continuations[r][k] # <<f, i>>
  BY <1>4, ToldOnce
<1>6. PICK old : old = continuations[s]
  OBVIOUS
<1>7. PICK new : new = continuations'[s]
  OBVIOUS
<1>8. old \in Seq(Nat \X Nat) /\ f \in Nat /\ i \in Nat
  <2>1. Shape /\ continuations \in [Futures -> Seq(Nat \X Nat)]
    BY DEF Inv, Members
  <2>2. old \in Seq(Nat \X Nat)
    BY <1>6, <2>1
  <2>3. DOMAIN Of(f) \subseteq Nat
    BY <1>1, <2>1, Numbers
  <2> QED BY <1>1, <2>1, <2>2, <2>3, Numbers
<1>9. new = Append(old, <<f, i>>) /\ \A r \in Futures : r # s => continuations'[r] = continuations[r]
  BY <1>6, <1>7 DEF Inv, Members
<1>10. /\ DOMAIN old = 1 .. Len(old) /\ Len(old) \in Nat /\ DOMAIN new = 1 .. Len(old) + 1
       /\ new[Len(old) + 1] = <<f, i>> /\ \A k \in DOMAIN old : new[k] = old[k]
  BY <1>8, <1>9
<1>11. ASSUME NEW r \in Futures, NEW k \in DOMAIN continuations[r]
       PROVE  \E g \in created' : \E j \in DOMAIN Of(g)' :
                 /\ continuations[r][k] = <<g, j>> /\ Of(g)'[j] = r /\ Kind(g)' \in {"then", "all"}
                 /\ j \notin parts'[g].values /\ None(stack', PartCalls(g, j))
  <2>1. PICK g \in created : \E j \in DOMAIN Of(g) :
            /\ continuations[r][k] = <<g, j>> /\ Of(g)[j] = r /\ Kind(g) \in {"then", "all"}
            /\ j \notin parts[g].values /\ None(stack, PartCalls(g, j))
    BY <1>1 DEF Parts
  <2>2. g \in Futures
    BY DEF Inv, Members
  <2> QED BY <1>1, <1>2, <2>1, <2>2
<1>12. ASSUME NEW r \in Futures, NEW k \in DOMAIN continuations'[r]
       PROVE  \E g \in created' : \E j \in DOMAIN Of(g)' :
                 /\ continuations'[r][k] = <<g, j>> /\ Of(g)'[j] = r /\ Kind(g)' \in {"then", "all"}
                 /\ j \notin parts'[g].values /\ None(stack', PartCalls(g, j))
  <2>1. CASE r # s
    BY <1>9, <1>11, <1>12, <2>1
  <2>2. CASE r = s /\ k \in DOMAIN old
    BY <1>6, <1>7, <1>10, <1>11, <2>2
  <2>3. CASE r = s /\ k \notin DOMAIN old
    <3>1. k = Len(old) + 1
      BY <1>7, <1>10, <1>12, <2>3
    <3> QED BY <1>1, <1>3, <1>5, <1>7, <1>10, <2>3, <3>1
  <2> QED BY <2>1, <2>2, <2>3
<1>13. ASSUME NEW r \in Futures, NEW k \in DOMAIN continuations'[r], NEW l \in DOMAIN continuations'[r],
              continuations'[r][k] = continuations'[r][l]
       PROVE  k = l
  <2>1. CASE r # s
    BY <1>1, <1>9, <1>13, <2>1 DEF Parts
  <2>2. CASE r = s
    <3>1. \A m \in DOMAIN old : new[m] # <<f, i>>
      BY <1>5, <1>6, <1>10
    <3>2. \A m, n \in DOMAIN old : old[m] = old[n] => m = n
      BY <1>1, <1>6 DEF Parts
    <3>3. k \in DOMAIN new /\ l \in DOMAIN new /\ new[k] = new[l]
      BY <1>7, <1>13, <2>2
    <3>4. CASE k \in DOMAIN old /\ l \in DOMAIN old
      BY <1>10, <3>2, <3>3, <3>4
    <3>5. CASE k \notin DOMAIN old \/ l \notin DOMAIN old
      BY <1>10, <3>1, <3>3, <3>5
    <3> QED BY <3>4, <3>5
  <2> QED BY <2>1, <2>2
<1>14. \A g \in Futures : \A j \in DOMAIN Of(g)' : One(stack', PartCalls(g, j))
  BY <1>1, <1>2 DEF Parts
<1>15. ASSUME NEW g \in Futures, Kind(g)' = "all"
       PROVE  /\ parts'[g].values \subseteq DOMAIN Of(g)' /\ (g \notin created' => parts'[g].values = {})
              /\ parts'[g].remaining = Cardinality(DOMAIN Of(g)' \ parts'[g].values)
              /\ \A j \in parts'[g].values :
                   Of(g)'[j] # 0 /\ state'[Of(g)'[j]] = "value" /\ None(stack', PartCalls(g, j))
  <2>1. /\ parts[g].values \subseteq DOMAIN Of(g) /\ (g \notin created => parts[g].values = {})
        /\ parts[g].remaining = Cardinality(DOMAIN Of(g) \ parts[g].values)
        /\ \A j \in parts[g].values :
             Of(g)[j] # 0 /\ state[Of(g)[j]] = "value" /\ None(stack, PartCalls(g, j))
    BY <1>1, <1>15 DEF Parts
  <2> QED BY <1>1, <1>2, <2>1
<1>16. \A g \in Futures : Kind(g)' # "all" => parts'[g].values = {} /\ parts'[g].remaining = Len(Of(g)')
  BY <1>1 DEF Parts
<1> QED BY <1>1, <1>12, <1>13, <1>14, <1>15, <1>16 DEF Parts, One, None, InProgress

LEMMA OnSettledKeeps ==
    ASSUME Inv, NEW t \in Threads, OnSettled(t), Outside
    PROVE  Inv'
PROOF
<1>1. PICK f : f = Top(t).fut
  OBVIOUS
<1>2. PICK i : i = Top(t).part
  OBVIOUS
<1>3. PICK s : s = Of(f)[i]
  OBVIOUS
<1>4. stack[t] # <<>> /\ Top(t).step = "onSettled" /\ Top(t) = Head(stack[t])
  BY DEF OnSettled, In, Top
<1>5. /\ f \in created /\ f \in Futures /\ Kind(f) \in {"then", "all"} /\ Top(t) \in CallSet
      /\ i \in DOMAIN Of(f) /\ s # 0 /\ Shape /\ Members
  BY <1>1, <1>2, <1>3, <1>4, Acting DEF Good, Members
<1>6. s \in Futures /\ s \in Nat /\ f \in Nat /\ i \in Nat
  BY <1>3, <1>5, Numbers DEF Shape
<1>7. UNCHANGED <<plan, created, state, cause, body, parts, cancels, tail>>
  BY DEF OnSettled, Outside
<1>8. Shape' /\ Futures' = Futures
  BY <1>5, <1>7, PlanKept
<1>9. Head(stack[t]) \in PartCalls(f, i)
  BY <1>1, <1>2, <1>4, <1>5 DEF PartCalls
<1>10. CASE ~MustRegister(s)
  <2>1. /\ Become(t, <<Call("callback", f, i, state[s], cause[s])>>)
        /\ UNCHANGED <<ccall, parts, body, plan>>
    BY <1>1, <1>2, <1>3, <1>7, <1>10 DEF OnSettled, ccall
  <2>2. PICK a : a = Call("callback", f, i, state[s], cause[s])
    OBVIOUS
  <2>3. state[s] \in States /\ cause[s] \in Nat /\ cause[s] \in 0 .. Len(plan) /\ ~Pending(s)
    BY <1>5, <1>6, <1>10 DEF Members, MustRegister
  <2>4. /\ a \in CallSet /\ a.step = "callback" /\ a.fut = f /\ a.part = i
        /\ a.state = state[s] /\ a.cause = cause[s]
    BY <1>6, <2>2, <2>3 DEF Call, CallSet, Steps
  <2>5. Calm
    BY <1>5, <1>7, <2>1, Calmly DEF Members
  <2>6. Replaces(t, <<a>>, 1)
    BY <1>4, <2>1, <2>2 DEF Become, Replaces
  <2>7. Good(a)
    BY <1>3, <1>5, <2>3, <2>4 DEF Good
  <2>8. Makes(a)
    BY <1>5, <2>4, <2>5, <2>7, StaysGood DEF Makes, Calm
  <2>9. \A g, j : a \in PartCalls(g, j) => Head(stack[t]) \in PartCalls(g, j)
    BY <1>1, <1>2, <1>4, <1>5, <2>4 DEF PartCalls
  <2> QED BY <2>4, <2>5, <2>6, <2>8, <2>9, OneKeeps
<1>11. CASE MustRegister(s)
  <2>1. continuations' = [continuations EXCEPT ![s] = Append(@, <<f, i>>)] /\ Return(t)
    BY <1>1, <1>2, <1>3, <1>11 DEF OnSettled
  <2>2. Replaces(t, <<>>, 1)
    BY <1>4, <2>1 DEF Return, Become, Replaces
  <2>3. continuations' \in [Futures -> Seq(Nat \X Nat)]
    <3>1. <<f, i>> \in Nat \X Nat /\ continuations[s] \in Seq(Nat \X Nat)
      BY <1>5, <1>6 DEF Members
    <3>2. Append(continuations[s], <<f, i>>) \in Seq(Nat \X Nat)
      BY <3>1
    <3> QED BY <1>5, <2>1, <3>2 DEF Members
  <2>4. Members' /\ Monotone
    BY <1>5, <1>7, <1>8, <2>3 DEF Members, Monotone, body
  <2>5. Outcome'
    <3>1. \A r \in Futures : continuations'[r] # <<>> => Pending(r)
      BY <1>5, <1>11, <2>1 DEF Inv, Outcome, Members, MustRegister
    <3>2. \A g \in Futures : begun'[g] > 0 => g \in hasStarted'
      BY <1>7 DEF Inv, Outcome, body
    <3> QED BY <1>7, <2>4, <3>1, <3>2, OutcomeKept DEF body
  <2> DEFINE New == <<>>
  <2>6. New \in Seq(CallSet) /\ DOMAIN New = {} /\ Replaces(t, New, 1)
    BY <2>2
  <2>7. Moved(t, New, 1) => Parts'
    BY <1>3, <1>4, <1>5, <1>6, <1>7, <1>9, <2>1, PartsRegistered
  <2> HIDE DEF New
  <2>8. Moved(t, New, 1) => Bodies'
    BY <1>4, <1>7, <2>6, BodiesKept DEF body
  <2> QED BY <1>8, <2>4, <2>5, <2>6, <2>7, <2>8, StepKeeps
<1> QED BY <1>10, <1>11

LEMMA GoodMakes ==
    ASSUME Inv, Monotone, NEW a \in CallSet, Good(a)
    PROVE  Makes(a)
BY StaysGood DEF Inv, Makes

LEMMA CancelKeeps ==
    ASSUME Inv, NEW t \in Threads, NEW f \in Futures, Cancel(t, f), Outside
    PROVE  Inv'
PROOF
<1>1. Shape /\ Members /\ stack \in Stacks
  BY DEF Inv
<1>2. f \in created /\ stack[t] = <<>> /\ cancels' = cancels + 1 /\ cancels < MaxCancels
  BY DEF Cancel, Idle, Usable
<1>3. f \in Nat /\ f # 0 /\ f \in 0 .. Len(plan) /\ cancels' \in 0 .. MaxCancels
  BY <1>1, <1>2, Numbers, FutureAssumption DEF Members
<1>4. Calm
  BY <1>1, <1>3, Calmly DEF Cancel, Outside, Members
<1>5. PICK a : a = Call("settle", f, 0, "cancelled", f)
  OBVIOUS
<1>6. a \in CallSet /\ a.step = "settle" /\ a.fut = f /\ a.state = "cancelled" /\ a.cause = f
  BY <1>3, <1>5 DEF Call, CallSet, Steps, States
<1>7. Makes(a)
  BY <1>2, <1>3, <1>4, <1>6, GoodMakes DEF Good, FailsOf, Calm
<1>8. Replaces(t, <<a>>, 0)
  <2>1. stack' = [stack EXCEPT ![t] = <<a>>] /\ <<a>> \in Seq(CallSet)
    BY <1>5, <1>6 DEF Cancel
  <2> QED BY <1>1, <1>2, <2>1, FromIdle
<1>9. \A g, j : a \notin PartCalls(g, j)
  BY <1>6, TellsNothing
<1> QED BY <1>4, <1>6, <1>7, <1>8, <1>9, OneKeeps

LEMMA CallbackKeeps ==
    ASSUME Inv, NEW t \in Threads, Callback(t), Outside
    PROVE  Inv'
PROOF
<1>1. PICK f : f = Top(t).fut
  OBVIOUS
<1>2. PICK i : i = Top(t).part
  OBVIOUS
<1>3. PICK s : s = Of(f)[i]
  OBVIOUS
<1>4. stack[t] # <<>> /\ Top(t).step = "callback" /\ Top(t) = Head(stack[t])
  BY DEF Callback, In, Top
<1>5. /\ f \in created /\ f \in Futures /\ Kind(f) \in {"then", "all"} /\ Top(t) \in CallSet
      /\ i \in DOMAIN Of(f) /\ s # 0 /\ Shape /\ Members
      /\ ~Pending(s) /\ Top(t).state = state[s] /\ Top(t).cause = cause[s]
  BY <1>1, <1>2, <1>3, <1>4, Acting DEF Good, Members
<1>6. s \in Futures /\ s \in Nat /\ f \in Nat /\ i \in Nat /\ s \in 0 .. Len(plan) /\ 0 \in 0 .. Len(plan)
      /\ cause[s] \in Nat /\ cause[s] \in 0 .. Len(plan)
  <2>1. s \in Futures /\ Len(plan) \in Nat /\ Futures = 1 .. Len(plan) /\ DOMAIN Of(f) \subseteq Nat
    BY <1>3, <1>5, Numbers DEF Shape
  <2> QED BY <1>5, <2>1 DEF Members
<1>7. Calm
  BY <1>5, Calmly DEF Callback, Outside, Members
<1>8. CASE Top(t).state = "value" /\ Become(t, <<At("success", f, i)>>)
  <2>1. PICK a : a = At("success", f, i)
    OBVIOUS
  <2>2. a \in CallSet /\ a.step = "success" /\ a.fut = f /\ a.part = i /\ a.cause = 0
    BY <1>6, <2>1 DEF At, Call, CallSet, Steps, States
  <2>3. Makes(a)
    BY <1>3, <1>5, <1>6, <1>7, <1>8, <2>2, GoodMakes DEF Good, Calm
  <2>4. Replaces(t, <<a>>, 1)
    BY <1>4, <1>8, <2>1 DEF Become, Replaces
  <2>5. \A g, j : a \in PartCalls(g, j) => Head(stack[t]) \in PartCalls(g, j)
    BY <1>1, <1>2, <1>4, <1>5, <2>2 DEF PartCalls
  <2> QED BY <1>7, <2>2, <2>3, <2>4, <2>5, OneKeeps
<1>9. ASSUME NEW c \in Nat, c \in 0 .. Len(plan), Fails(s, c), Become(t, <<Call("failure", f, i, "exception", c)>>)
      PROVE  Inv'
  <2>1. PICK a : a = Call("failure", f, i, "exception", c)
    OBVIOUS
  <2>2. a \in CallSet /\ a.step = "failure" /\ a.fut = f /\ a.part = i /\ a.cause = c
    BY <1>6, <2>1 DEF Call, CallSet, Steps, States
  <2>3. Makes(a)
    BY <1>3, <1>5, <1>7, <1>9, <2>2, GoodMakes DEF Good, Calm
  <2>4. Replaces(t, <<a>>, 1)
    BY <1>4, <1>9, <2>1 DEF Become, Replaces
  <2>5. \A g, j : a \notin PartCalls(g, j)
    BY <2>2, TellsNothing
  <2> QED BY <1>7, <2>2, <2>3, <2>4, <2>5, OneKeeps
<1>10. state[s] = "value" => Fails(s, s)
  BY <1>5 DEF Fails
<1>11. state[s] # "value" => Fails(s, cause[s])
  BY <1>5 DEF Fails
<1> QED BY <1>1, <1>2, <1>3, <1>5, <1>6, <1>8, <1>9, <1>10, <1>11 DEF Callback

\* A failure that a future passes on as its own result.
LEMMA PassingOn ==
    ASSUME Inv, NEW t \in Threads, stack[t] # <<>>, Calm, NEW f \in created, NEW c \in Nat,
           c # 0, c \in 0 .. Len(plan), FailsOf(f, c), Become(t, <<Call("settle", f, 0, "exception", c)>>)
    PROVE  Inv'
PROOF
<1>1. f \in Nat
  BY Numbers DEF Inv, Members
<1>2. PICK a : a = Call("settle", f, 0, "exception", c)
  OBVIOUS
<1>3. a \in CallSet /\ a.step = "settle" /\ a.fut = f /\ a.state = "exception" /\ a.cause = c
  BY <1>1, <1>2 DEF Call, CallSet, Steps, States
<1>4. Makes(a)
  BY <1>3, GoodMakes DEF Good, Calm
<1>5. Replaces(t, <<a>>, 1)
  BY <1>2 DEF Become, Replaces
<1>6. \A g, j : a \notin PartCalls(g, j)
  BY <1>3, TellsNothing
<1> QED BY <1>3, <1>4, <1>5, <1>6, OneKeeps

\* What a source failed with is never nothing.
LEMMA FailsWithSomething ==
    ASSUME Members, Shape, NEW s \in Futures, NEW c, Fails(s, c)
    PROVE  c # 0 /\ c \in Nat /\ c \in 0 .. Len(plan)
PROOF
<1>1. s \in Nat /\ s # 0 /\ s \in 0 .. Len(plan)
  BY Numbers
<1>2. state[s] # "value" => cause[s] # 0 /\ cause[s] \in Nat /\ cause[s] \in 0 .. Len(plan)
  BY DEF Members, Fails, Pending, States
<1> QED BY <1>1, <1>2 DEF Fails

LEMMA ChainKeeps ==
    ASSUME Inv, NEW t \in Threads, Chain(t), Outside
    PROVE  Inv'
PROOF
<1>1. PICK f : f = Top(t).fut
  OBVIOUS
<1>2. PICK i : i = Top(t).part
  OBVIOUS
<1>3. stack[t] # <<>> /\ Top(t).step = "success" /\ Top(t) = Head(stack[t]) /\ Kind(f) = "then"
  BY <1>1 DEF Chain, In, Top
<1>4. /\ f \in created /\ f \in Futures /\ Shape /\ Members
      /\ i \in DOMAIN Of(f) /\ state[Of(f)[i]] = "value"
  BY <1>1, <1>2, <1>3, Acting DEF Good, Members
<1>5. f \in Nat /\ DOMAIN Of(f) = {1} /\ 0 \in 0 .. Len(plan)
  <2>1. Len(Of(f)) = 1 /\ DOMAIN Of(f) = 1 .. Len(Of(f)) /\ f \in Nat /\ Len(plan) \in Nat
    BY <1>3, <1>4, Numbers DEF Shape
  <2> QED BY <2>1
<1>6. Valued(f)
  BY <1>4, <1>5 DEF Valued, Sources
<1>7. Calm
  BY <1>4, Calmly DEF Chain, Outside, Members
<1>8. PICK a : a = At("call", f, 0)
  OBVIOUS
<1>9. a \in CallSet /\ a.step = "call" /\ a.fut = f /\ a.cause = 0
  BY <1>5, <1>8 DEF At, Call, CallSet, Steps, States
<1>10. Makes(a)
  BY <1>3, <1>4, <1>5, <1>6, <1>7, <1>9, GoodMakes DEF Good, Calm
<1>11. Replaces(t, <<a>>, 1)
  BY <1>1, <1>3, <1>8 DEF Chain, Become, Replaces
<1>12. \A g, j : a \notin PartCalls(g, j)
  BY <1>9, TellsNothing
<1> QED BY <1>7, <1>9, <1>10, <1>11, <1>12, OneKeeps

LEMMA ChainFailsKeeps ==
    ASSUME Inv, NEW t \in Threads, ChainFails(t), Outside
    PROVE  Inv'
PROOF
<1>1. PICK f : f = Top(t).fut
  OBVIOUS
<1>2. PICK c : c = Top(t).cause
  OBVIOUS
<1>3. stack[t] # <<>> /\ Top(t).step = "failure"
  BY DEF ChainFails, In, Top
<1>4. PICK s : s = Of(f)[Top(t).part]
  OBVIOUS
<1>5. f \in created /\ f \in Futures /\ Shape /\ Members /\ s \in Sources(f) /\ s \in Futures /\ Fails(s, c)
  <2>1. /\ f \in created /\ f \in Futures /\ Shape /\ Members /\ Fails(s, c)
        /\ Top(t).part \in DOMAIN Of(f) /\ s # 0
    BY <1>1, <1>2, <1>3, <1>4, Acting DEF Good, Members
  <2>2. s \in Futures
    BY <1>4, <2>1 DEF Shape
  <2>3. s \in Sources(f)
    BY <1>4, <2>1 DEF Sources
  <2> QED BY <2>1, <2>2, <2>3
<1>6. c # 0 /\ c \in Nat /\ c \in 0 .. Len(plan) /\ FailsOf(f, c)
  BY <1>5, FailsWithSomething DEF FailsOf
<1>7. Calm
  BY <1>5, Calmly DEF ChainFails, Outside, Members
<1>8. Become(t, <<Call("settle", f, 0, "exception", c)>>)
  BY <1>1, <1>2 DEF ChainFails, PassesOn
<1> QED BY <1>3, <1>5, <1>6, <1>7, <1>8, PassingOn

-----------------------------------------------------------------------------
(* Bodies.                                                                 *)

\* A body settles its future with a value of its own.
LEMMA BodyKeeps ==
    ASSUME Inv, NEW t \in Threads, Body(t), Outside
    PROVE  Inv'
PROOF
<1>1. PICK f : f = Top(t).fut
  OBVIOUS
<1>2. stack[t] # <<>> /\ Top(t).step = "body"
  BY DEF Body, In, Top
<1>3. /\ f \in created /\ f \in Futures /\ Shape /\ Members /\ Top(t).part \in Nat
      /\ Kind(f) # "all" /\ (Kind(f) = "then" => Valued(f))
      /\ Kind(f) = "join" => \A i \in DOMAIN Of(f) : i < Top(t).part => state[Of(f)[i]] = "value"
      /\ Kind(f) = "join" => Top(t).part > Len(Of(f))
  BY <1>1, <1>2, Acting DEF Good, Members, Body, CallSet
<1>4. f \in Nat /\ f # 0 /\ f \in 0 .. Len(plan) /\ 0 \in 0 .. Len(plan)
      /\ DOMAIN Of(f) = 1 .. Len(Of(f)) /\ Len(Of(f)) \in Nat
  BY <1>3, Numbers
<1>5. Calm
  BY <1>3, Calmly DEF Body, Outside, Members
<1>6. CASE Become(t, <<Call("settle", f, 0, "value", 0)>>)
  <2>1. Kind(f) \in Kinds
    <3> DEFINE R == [kind : Kinds, of : Seq(Nat)]
    <3>1. plan \in Seq(R)
      BY <1>3 DEF Shape
    <3> HIDE DEF R
    <3>2. plan[f] \in R
      BY <1>3, <3>1 DEF Futures
    <3> QED BY <3>2 DEF R, Kind
  <2>2. Kind(f) \in {"call", "start"} => Sources(f) = {}
    <3>1. Kind(f) \in {"call", "start"} => Of(f) = <<>>
      BY <1>3 DEF Shape
    <3> QED BY <3>1 DEF Sources
  <2>3. Kind(f) = "join" => Valued(f)
    <3> SUFFICES ASSUME Kind(f) = "join", NEW s \in Sources(f)
                 PROVE  state[s] = "value"
      BY DEF Valued
    <3>1. PICK i \in DOMAIN Of(f) : s = Of(f)[i]
      BY DEF Sources
    <3>2. i < Top(t).part
      BY <1>3, <1>4
    <3> QED BY <1>3, <3>1, <3>2
  <2>4. Valued(f)
    BY <1>3, <2>1, <2>2, <2>3 DEF Kinds, Valued
  <2>5. PICK a : a = Call("settle", f, 0, "value", 0)
    OBVIOUS
  <2>6. a \in CallSet /\ a.step = "settle" /\ a.fut = f /\ a.state = "value" /\ a.cause = 0
    BY <1>4, <2>5 DEF Call, CallSet, Steps, States
  <2>7. Makes(a)
    BY <1>3, <1>4, <1>5, <2>4, <2>6, GoodMakes DEF Good, Calm
  <2>8. Replaces(t, <<a>>, 1)
    BY <1>2, <1>6, <2>5 DEF Become, Replaces
  <2>9. \A g, j : a \notin PartCalls(g, j)
    BY <2>6, TellsNothing
  <2> QED BY <1>5, <2>6, <2>7, <2>8, <2>9, OneKeeps
<1>7. CASE Become(t, <<Call("settle", f, 0, "exception", f)>>)
  BY <1>2, <1>3, <1>4, <1>5, <1>7, PassingOn DEF FailsOf
<1> QED BY <1>1, <1>6, <1>7 DEF Body

\* The body of a join takes one value after the other.
LEMMA GetKeeps ==
    ASSUME Inv, NEW t \in Threads, Get(t), Outside
    PROVE  Inv'
PROOF
<1>1. PICK f : f = Top(t).fut
  OBVIOUS
<1>2. PICK i : i = Top(t).part
  OBVIOUS
<1>3. PICK s : s = Of(f)[i]
  OBVIOUS
<1>4. stack[t] # <<>> /\ Top(t).step = "body" /\ Top(t) = Head(stack[t])
  BY DEF Get, In, Top
<1>5. /\ f \in created /\ f \in Futures /\ Shape /\ Members /\ Top(t) \in CallSet /\ i \in Nat
      /\ f \in hasStarted /\ Kind(f) = "join" /\ i <= Len(Of(f)) /\ ~Pending(s)
      /\ \A j \in DOMAIN Of(f) : j < i => state[Of(f)[j]] = "value"
  BY <1>1, <1>2, <1>3, <1>4, Acting DEF Good, Members, Get, CallSet
<1>6. f \in Nat /\ 0 \in 0 .. Len(plan) /\ DOMAIN Of(f) = 1 .. Len(Of(f)) /\ Len(Of(f)) \in Nat
  BY <1>5, Numbers
<1>7. Calm
  BY <1>5, Calmly DEF Get, Outside, Members
<1>8. CASE state[s] = "value" /\ Become(t, <<At("body", f, i + 1)>>)
  <2>1. PICK a : a = At("body", f, i + 1)
    OBVIOUS
  <2>2. a \in CallSet /\ a.step = "body" /\ a.fut = f /\ a.part = i + 1 /\ a.cause = 0
    BY <1>5, <1>6, <2>1 DEF At, Call, CallSet, Steps, States
  <2>3. \A j \in DOMAIN Of(f) : j < i + 1 => state[Of(f)[j]] = "value"
    BY <1>3, <1>5, <1>6, <1>8
  <2>4. Makes(a)
    BY <1>5, <1>6, <1>7, <2>2, <2>3, GoodMakes DEF Good, Calm
  <2>5. Replaces(t, <<a>>, 1)
    BY <1>4, <1>8, <2>1 DEF Become, Replaces
  <2>6. \A g, j : a \notin PartCalls(g, j)
    BY <2>2, TellsNothing
  <2> QED BY <1>7, <2>2, <2>4, <2>5, <2>6, OneKeeps
<1>9. CASE Become(t, <<Call("settle", f, 0, "exception", IF state[s] = "value" THEN s ELSE cause[s])>>)
  <2>1. PICK c : c = IF state[s] = "value" THEN s ELSE cause[s]
    OBVIOUS
  <2>2. Fails(s, c)
    BY <1>5, <2>1 DEF Fails
  <2>3. s \in Sources(f) /\ s \in Futures
    <3>1. i \in DOMAIN Of(f)
      BY <1>2, <1>4, <1>5, <1>6, Acting DEF Good
    <3>2. s # 0 /\ s \in Futures \cup {0}
      BY <1>3, <1>5, <3>1 DEF Shape
    <3> QED BY <1>3, <3>1, <3>2 DEF Sources
  <2>4. c # 0 /\ c \in Nat /\ c \in 0 .. Len(plan) /\ FailsOf(f, c)
    BY <1>5, <2>2, <2>3, FailsWithSomething DEF FailsOf
  <2> QED BY <1>4, <1>5, <1>7, <1>9, <2>1, <2>4, PassingOn
<1> QED BY <1>1, <1>2, <1>3, <1>8, <1>9 DEF Get

LEMMA StoreKeeps ==
    ASSUME Inv, NEW t \in Threads, Store(t)
    PROVE  Inv'
PROOF
<1>1. stack[t] # <<>>
  BY DEF Store, In
<1>2. Top(t).fut \in Futures /\ Members
  BY <1>1, Acting DEF Good, Members
<1>3. Calm
  BY <1>2, Calmly DEF Store, Members
<1>4. Replaces(t, <<>>, 1)
  BY <1>1 DEF Store, Return, Become, Replaces
<1> QED BY <1>3, <1>4, NoneKeeps

\* A step of the body of f, which makes at most one call.
LEMMA BodiesStep ==
    ASSUME Inv, NEW t \in Threads, NEW New \in Seq(CallSet), NEW k \in {0, 1},
           k = 1 => stack[t] # <<>>, Moved(t, New, k), \A d, e \in DOMAIN New : d = e,
           DOMAIN plan' = DOMAIN plan, NEW f \in Futures,
           \A d \in DOMAIN New : New[d].step \in {"handler", "begin"} => New[d].fut = f /\
              (None(stack, BodyCalls(f)) \/ (k = 1 /\ Head(stack[t]) \in BodyCalls(f))),
           \A g \in Futures : g # f =>
              /\ g \in queued' <=> g \in queued
              /\ begun'[g] = begun[g]
              /\ g \in hasStarted' <=> g \in hasStarted,
           f \in queued' => begun'[f] = 0,
           f \in queued' \/ begun'[f] > 0 \/ f \notin hasStarted' => None(stack', BodyCalls(f))
    PROVE  Bodies'
PROOF
<1>1. stack \in Stacks /\ Bodies /\ Futures' = Futures
  BY DEF Inv, Futures
<1>2. One(stack', BodyCalls(f))
  <2> DEFINE K == BodyCalls(f)
  <2>1. One(stack, K)
    BY <1>1 DEF Bodies
  <2>2. (\E d \in DOMAIN New : New[d] \in K) => None(stack, K) \/ (k = 1 /\ Head(stack[t]) \in K)
    BY DEF BodyCalls
  <2>3. \A d, e \in DOMAIN New : New[d] \in K /\ New[e] \in K => d = e
    OBVIOUS
  <2> HIDE DEF K
  <2>4. One(stack', K)
    BY <1>1, <2>1, <2>2, <2>3, OneMade
  <2> QED BY <2>4 DEF K
<1>3. ASSUME NEW g \in Futures, g # f
      PROVE  /\ One(stack', BodyCalls(g))
             /\ g \in queued' \/ begun'[g] > 0 \/ g \notin hasStarted' => None(stack', BodyCalls(g))
             /\ g \in queued' => begun'[g] = 0
  <2> DEFINE K == BodyCalls(g)
  <2>1. One(stack, K) /\ (g \in queued \/ begun[g] > 0 \/ g \notin hasStarted => None(stack, K))
    BY <1>1 DEF Bodies
  <2>2. \A d \in DOMAIN New : New[d] \notin K
    BY <1>3 DEF BodyCalls
  <2> HIDE DEF K
  <2>3. One(stack', K) /\ (None(stack, K) => None(stack', K))
    BY <1>1, <2>1, <2>2, NoneMade
  <2> QED BY <1>1, <1>3, <2>1, <2>3 DEF K, Bodies
<1> QED BY <1>1, <1>2, <1>3 DEF Bodies, One, None, InProgress

\* Such a step settles nothing and tells no part.
LEMMA BodyStepKeeps ==
    ASSUME Inv, NEW t \in Threads, NEW New \in Seq(CallSet), NEW k, Replaces(t, New, k),
           UNCHANGED <<plan, ccall, parts, cancels, tail, created>>,
           \A d \in DOMAIN New : Makes(New[d]) /\ New[d].step \notin {"watch", "onSettled", "callback", "success"},
           hasStarted \subseteq hasStarted', queued' \subseteq hasStarted', dropped' \subseteq hasStarted',
           begun' \in [Futures -> 0 .. 1], \A f \in Futures : begun'[f] > 0 => f \in hasStarted',
           \A f \in hasStarted' : f \in hasStarted \/
               (f \in created /\ Kind(f) # "all" /\ (Kind(f) = "then" => Valued(f))),
           Moved(t, New, k) => Bodies'
    PROVE  Inv'
PROOF
<1>1. Shape /\ Members /\ Outcome
  BY DEF Inv
<1>2. Shape' /\ Futures' = Futures
  BY <1>1, PlanKept
<1>3. hasStarted' \subseteq created
  BY <1>1 DEF Members
<1>4. Members'
  BY <1>1, <1>2, <1>3 DEF Members, ccall
<1>5. Monotone
  BY DEF Monotone, ccall
<1>6. Outcome'
  <2>1. state' = state /\ cause' = cause /\ continuations' = continuations
    BY DEF ccall
  <2>2. \A s \in Futures : continuations[s] # <<>> => Pending(s)
    BY <1>1 DEF Outcome
  <2> QED BY <1>4, <1>5, <2>1, <2>2, OutcomeKept
<1>7. Moved(t, New, k) => Parts'
  <2>1. \A f, i : \A d \in DOMAIN New : New[d] \notin PartCalls(f, i)
    BY TellsNothing
  <2>2. \A f \in Futures : DOMAIN Of(f)' = DOMAIN Of(f) /\ Len(Of(f)') = Len(Of(f))
    BY DEF Of
  <2>3. continuations' = continuations /\ parts' = parts /\ k \in {0, 1} /\ (k = 1 => stack[t] # <<>>)
    BY DEF ccall, Replaces
  <2> QED BY <1>5, <2>1, <2>2, <2>3, PartsKept
<1> QED BY <1>2, <1>4, <1>5, <1>6, <1>7, StepKeeps

LEMMA CallBodyKeeps ==
    ASSUME Inv, NEW t \in Threads, CallBody(t), Outside
    PROVE  Inv'
PROOF
<1>1. PICK f : f = Top(t).fut
  OBVIOUS
<1>2. stack[t] # <<>> /\ Top(t).step = "call"
  BY DEF CallBody, In, Top
<1>3. /\ f \in created /\ f \in Futures /\ Shape /\ Members /\ Outcome /\ Bodies /\ stack \in Stacks
      /\ Kind(f) # "all" /\ (Kind(f) = "then" => Valued(f))
  BY <1>1, <1>2, Acting DEF Good, Members, Inv
<1>4. f \in Nat /\ 0 \in 0 .. Len(plan)
  BY <1>3, Numbers
<1>5. UNCHANGED <<plan, ccall, parts, cancels, tail, created, queued, dropped, begun>>
  BY DEF CallBody, Outside
<1>6. CASE ~MayCall(f)
  <2>1. Return(t) /\ hasStarted' = hasStarted
    BY <1>1, <1>6 DEF CallBody
  <2>2. Calm
    BY <1>3, <1>5, <2>1, Calmly DEF Members, body
  <2>3. Replaces(t, <<>>, 1)
    BY <1>2, <2>1 DEF Return, Become, Replaces
  <2> QED BY <2>2, <2>3, NoneKeeps
<1>7. CASE MayCall(f)
  <2>1. hasStarted' = hasStarted \cup {f} /\ Become(t, <<At("handler", f, 0)>>)
    BY <1>1, <1>7 DEF CallBody
  <2>2. f \notin hasStarted /\ f \notin queued /\ ~(begun[f] > 0) /\ None(stack, BodyCalls(f))
    BY <1>3, <1>7 DEF MayCall, Members, Outcome, Bodies
  <2>3. PICK a : a = At("handler", f, 0)
    OBVIOUS
  <2>4. a \in CallSet /\ a.step = "handler" /\ a.fut = f /\ a.cause = 0
    BY <1>4, <2>3 DEF At, Call, CallSet, Steps, States
  <2> DEFINE New == <<a>>
  <2>5. New \in Seq(CallSet) /\ DOMAIN New = {1} /\ New[1] = a /\ Replaces(t, New, 1)
    BY <1>2, <2>1, <2>3, <2>4 DEF Become, Replaces
  <2>6. Kind(f)' = Kind(f) /\ (Valued(f)' <=> Valued(f)) /\ Len(plan') = Len(plan)
    BY <1>5 DEF Kind, Valued, Sources, Of, ccall
  <2>7. Makes(a)
    BY <1>3, <1>4, <1>5, <2>1, <2>4, <2>6 DEF Makes, Good
  <2>8. DOMAIN plan' = DOMAIN plan
    BY <1>5
  <2> HIDE DEF New
  <2>9. Moved(t, New, 1) => Bodies'
    BY <1>2, <1>3, <1>5, <2>1, <2>2, <2>4, <2>5, <2>8, BodiesStep
  <2>10. /\ hasStarted \subseteq hasStarted' /\ queued' \subseteq hasStarted' /\ dropped' \subseteq hasStarted'
         /\ begun' \in [Futures -> 0 .. 1] /\ \A g \in Futures : begun'[g] > 0 => g \in hasStarted'
    BY <1>3, <1>5, <2>1 DEF Members, Outcome
  <2> QED BY <1>3, <1>5, <2>1, <2>4, <2>5, <2>7, <2>9, <2>10, BodyStepKeeps
<1> QED BY <1>6, <1>7

LEMMA HandleKeeps ==
    ASSUME Inv, NEW t \in Threads, Handle(t), Outside
    PROVE  Inv'
PROOF
<1>1. PICK f : f = Top(t).fut
  OBVIOUS
<1>2. stack[t] # <<>> /\ Top(t).step = "handler" /\ Top(t) = Head(stack[t])
  BY DEF Handle, In, Top
<1>3. /\ f \in created /\ f \in Futures /\ Shape /\ Members /\ Outcome /\ Bodies /\ stack \in Stacks
      /\ Kind(f) # "all" /\ (Kind(f) = "then" => Valued(f)) /\ f \in hasStarted
      /\ Head(stack[t]) \in BodyCalls(f) /\ Head(stack[t]) \in InProgress(stack)
  BY <1>1, <1>2, Acting DEF Good, Members, Inv, BodyCalls
<1>4. f \in Nat /\ f # 0 /\ f \in 0 .. Len(plan) /\ 0 \in 0 .. Len(plan)
  BY <1>3, Numbers
<1>5. UNCHANGED <<plan, ccall, parts, cancels, tail, created, hasStarted, begun>>
  BY DEF Handle, Outside
<1>6. f \notin queued /\ ~(begun[f] > 0) /\ begun[f] = 0 /\ One(stack, BodyCalls(f))
  BY <1>3 DEF Bodies, None, Members
<1>7. ASSUME NEW New \in Seq(CallSet), Replaces(t, New, 1), \A d, e \in DOMAIN New : d = e,
             \A d \in DOMAIN New : Makes(New[d]) /\ New[d].fut = f
                /\ New[d].step \notin {"watch", "onSettled", "callback", "success"},
             queued' \subseteq queued \cup {f}, queued \subseteq queued', dropped' \subseteq dropped \cup {f},
             f \in queued' => \A d \in DOMAIN New : New[d] \notin BodyCalls(f)
      PROVE  Inv'
  <2>1. f \in queued' => begun'[f] = 0
    BY <1>5, <1>6
  <2>2. Moved(t, New, 1) /\ f \in queued' => None(stack', BodyCalls(f))
    BY <1>2, <1>3, <1>6, <1>7, NoneMade
  <2>3. ~(begun'[f] > 0) /\ f \in hasStarted' /\ DOMAIN plan' = DOMAIN plan
    BY <1>3, <1>5, <1>6
  <2>4. Moved(t, New, 1) => Bodies'
    BY <1>2, <1>3, <1>5, <1>7, <2>1, <2>2, <2>3, BodiesStep
  <2>5. /\ hasStarted \subseteq hasStarted' /\ queued' \subseteq hasStarted' /\ dropped' \subseteq hasStarted'
        /\ begun' \in [Futures -> 0 .. 1] /\ \A g \in Futures : begun'[g] > 0 => g \in hasStarted'
    BY <1>3, <1>5, <1>7 DEF Members, Outcome
  <2> QED BY <1>5, <1>7, <2>4, <2>5, BodyStepKeeps
<1>8. CASE Become(t, <<At("begin", f, 0)>>) /\ UNCHANGED <<queued, dropped>>
  <2>1. PICK a : a = At("begin", f, 0)
    OBVIOUS
  <2>2. a \in CallSet /\ a.step = "begin" /\ a.fut = f /\ a.cause = 0
    BY <1>4, <2>1 DEF At, Call, CallSet, Steps, States
  <2> DEFINE New == <<a>>
  <2>3. New \in Seq(CallSet) /\ DOMAIN New = {1} /\ New[1] = a /\ Replaces(t, New, 1)
    BY <1>2, <1>8, <2>1, <2>2 DEF Become, Replaces
  <2>4. Monotone
    BY <1>5 DEF Monotone, ccall
  <2>5. Makes(a)
    BY <1>3, <1>4, <2>2, <2>4, GoodMakes DEF Good
  <2> HIDE DEF New
  <2> QED BY <1>6, <1>7, <1>8, <2>2, <2>3, <2>5
<1>9. ASSUME Return(t), queued' \subseteq queued \cup {f}, queued \subseteq queued', dropped' \subseteq dropped \cup {f}
      PROVE  Inv'
  <2> DEFINE New == <<>>
  <2>1. New \in Seq(CallSet) /\ DOMAIN New = {} /\ Replaces(t, New, 1)
    BY <1>2, <1>9 DEF Return, Become, Replaces
  <2> HIDE DEF New
  <2> QED BY <1>7, <1>9, <2>1
<1>10. CASE Become(t, <<Call("settle", f, 0, "exception", f)>>) /\ UNCHANGED <<queued, dropped>>
  <2>1. Calm
    BY <1>3, <1>5, <1>10, Calmly DEF Members, body
  <2> QED BY <1>2, <1>3, <1>4, <1>10, <2>1, PassingOn DEF FailsOf
<1> QED BY <1>1, <1>8, <1>9, <1>10 DEF Handle

LEMMA RunQueuedKeeps ==
    ASSUME Inv, NEW t \in Threads, NEW f, RunQueued(t, f), Outside
    PROVE  Inv'
PROOF
<1>1. stack[t] = <<>> /\ f \in queued /\ queued' = queued \ {f} /\ stack' = [stack EXCEPT ![t] = <<At("begin", f, 0)>>]
  BY DEF RunQueued, Idle
<1>2. UNCHANGED <<plan, ccall, parts, cancels, tail, created, hasStarted, dropped, begun>>
  BY DEF RunQueued, Outside
<1>3. /\ f \in hasStarted /\ f \in created /\ f \in Futures /\ Shape /\ Members /\ Outcome /\ Bodies /\ stack \in Stacks
      /\ Kind(f) # "all" /\ (Kind(f) = "then" => Valued(f))
  BY <1>1 DEF Members, Inv, Outcome
<1>4. None(stack, BodyCalls(f)) /\ begun[f] = 0 /\ ~(begun'[f] > 0)
  BY <1>1, <1>2, <1>3 DEF Bodies
<1>5. f \in Nat /\ 0 \in 0 .. Len(plan)
  BY <1>3, Numbers
<1>6. PICK a : a = At("begin", f, 0)
  OBVIOUS
<1>7. a \in CallSet /\ a.step = "begin" /\ a.fut = f /\ a.cause = 0
  BY <1>5, <1>6 DEF At, Call, CallSet, Steps, States
<1> DEFINE New == <<a>>
<1>8. New \in Seq(CallSet) /\ DOMAIN New = {1} /\ New[1] = a /\ stack' = [stack EXCEPT ![t] = New]
  BY <1>1, <1>6, <1>7
<1>9. Makes(a)
  <2>1. Monotone
    BY <1>2 DEF Monotone, ccall
  <2> QED BY <1>3, <1>5, <1>7, <2>1, GoodMakes DEF Good
<1> HIDE DEF New
<1>10. Replaces(t, New, 0)
  BY <1>1, <1>3, <1>8, FromIdle
<1>11. Moved(t, New, 0) => Bodies'
  <2>1. DOMAIN plan' = DOMAIN plan /\ f \notin queued' /\ f \in hasStarted'
    BY <1>1, <1>2, <1>3
  <2> QED BY <1>1, <1>2, <1>3, <1>4, <1>7, <1>8, <2>1, BodiesStep
<1>12. /\ hasStarted \subseteq hasStarted' /\ queued' \subseteq hasStarted' /\ dropped' \subseteq hasStarted'
       /\ begun' \in [Futures -> 0 .. 1] /\ \A g \in Futures : begun'[g] > 0 => g \in hasStarted'
  BY <1>1, <1>2, <1>3 DEF Members, Outcome
<1> QED BY <1>2, <1>7, <1>8, <1>9, <1>10, <1>11, <1>12, BodyStepKeeps

LEMMA BeginKeeps ==
    ASSUME Inv, NEW t \in Threads, Begin(t), Outside
    PROVE  Inv'
PROOF
<1>1. PICK f : f = Top(t).fut
  OBVIOUS
<1>2. stack[t] # <<>> /\ Top(t).step = "begin" /\ Top(t) = Head(stack[t])
  BY DEF Begin, In, Top
<1>3. /\ f \in created /\ f \in Futures /\ Shape /\ Members /\ Outcome /\ Bodies /\ stack \in Stacks
      /\ Kind(f) # "all" /\ (Kind(f) = "then" => Valued(f)) /\ f \in hasStarted
      /\ Head(stack[t]) \in BodyCalls(f) /\ Head(stack[t]) \in InProgress(stack)
  BY <1>1, <1>2, Acting DEF Good, Members, Inv, BodyCalls
<1>4. f \in Nat /\ 0 \in 0 .. Len(plan) /\ \A g \in Futures : DOMAIN Of(g) = 1 .. Len(Of(g)) /\ Len(Of(g)) \in Nat
  BY <1>3, Numbers
<1>5. /\ UNCHANGED <<plan, ccall, parts, cancels, tail, created, hasStarted, queued, dropped>>
      /\ begun' = [begun EXCEPT ![f] = @ + 1] /\ Become(t, <<At("body", f, 1)>>)
  BY <1>1 DEF Begin, Outside
<1>6. f \notin queued /\ begun[f] = 0 /\ One(stack, BodyCalls(f))
  <2>1. f \notin queued /\ ~(begun[f] > 0) /\ One(stack, BodyCalls(f))
    BY <1>3 DEF Bodies, None
  <2>2. begun[f] \in 0 .. 1
    BY <1>3 DEF Members
  <2> QED BY <2>1, <2>2
<1>7. begun' \in [Futures -> 0 .. 1] /\ \A g \in Futures : g # f => begun'[g] = begun[g]
  BY <1>3, <1>5, <1>6 DEF Members
<1>8. PICK a : a = At("body", f, 1)
  OBVIOUS
<1>9. a \in CallSet /\ a.step = "body" /\ a.fut = f /\ a.part = 1 /\ a.cause = 0
  BY <1>4, <1>8 DEF At, Call, CallSet, Steps, States
<1> DEFINE New == <<a>>
<1>10. New \in Seq(CallSet) /\ DOMAIN New = {1} /\ New[1] = a /\ Replaces(t, New, 1)
  BY <1>2, <1>5, <1>8, <1>9 DEF Become, Replaces
<1>11. Makes(a)
  <2>1. Monotone
    BY <1>5 DEF Monotone, ccall
  <2>2. \A i \in DOMAIN Of(f) : ~(i < 1)
    BY <1>3, <1>4
  <2> QED BY <1>3, <1>4, <1>9, <2>1, <2>2, GoodMakes DEF Good
<1> HIDE DEF New
<1>12. Moved(t, New, 1) => Bodies'
  <2>1. a \notin BodyCalls(f)
    BY <1>9 DEF BodyCalls
  <2>2. Moved(t, New, 1) => None(stack', BodyCalls(f))
    BY <1>2, <1>3, <1>6, <1>10, <2>1, NoneMade
  <2>3. DOMAIN plan' = DOMAIN plan /\ f \notin queued'
    BY <1>5, <1>6
  <2> QED BY <1>2, <1>3, <1>5, <1>7, <1>9, <1>10, <2>2, <2>3, BodiesStep
<1>13. /\ hasStarted \subseteq hasStarted' /\ queued' \subseteq hasStarted' /\ dropped' \subseteq hasStarted'
       /\ \A g \in Futures : begun'[g] > 0 => g \in hasStarted'
  <2>1. \A g \in Futures : g # f => (begun'[g] > 0 => g \in hasStarted)
    BY <1>3, <1>7 DEF Outcome
  <2> QED BY <1>3, <1>5, <2>1 DEF Members
<1> QED BY <1>5, <1>7, <1>9, <1>10, <1>11, <1>12, <1>13, BodyStepKeeps

-----------------------------------------------------------------------------
(* Settling.                                                               *)

\* The callbacks of a settled future tell, once, what its continuations held.
LEMMA PartsTold ==
    ASSUME Inv, NEW t \in Threads, stack[t] # <<>>, NEW f \in Futures, NEW New \in Seq(CallSet),
           DOMAIN New = DOMAIN continuations[f],
           \A d \in DOMAIN New : New[d].step = "callback" /\ continuations[f][d] = <<New[d].fut, New[d].part>>,
           Moved(t, New, 1), continuations' = [continuations EXCEPT ![f] = <<>>],
           UNCHANGED <<plan, created, parts>>, \A s \in Futures : state[s] = "value" => state'[s] = "value"
    PROVE  Parts'
PROOF
<1>1. /\ stack \in Stacks /\ Parts /\ Shape /\ Members /\ Futures' = Futures
      /\ \A g \in Futures : Kind(g)' = Kind(g) /\ Of(g)' = Of(g)
  BY DEF Inv, Futures, Kind, Of
<1>2. /\ \A s \in Futures : s # f => continuations'[s] = continuations[s]
      /\ continuations'[f] = <<>> /\ DOMAIN continuations'[f] = {}
  BY <1>1 DEF Members
<1>3. ASSUME NEW d \in DOMAIN New, NEW g \in Futures, NEW i \in DOMAIN Of(g), New[d] \in PartCalls(g, i)
      PROVE  /\ continuations[f][d] = <<g, i>> /\ Of(g)[i] = f
             /\ i \notin parts[g].values /\ None(stack, PartCalls(g, i))
  <2>1. continuations[f][d] = <<g, i>>
    BY <1>3 DEF PartCalls
  <2>2. PICK h \in created : \E j \in DOMAIN Of(h) :
            /\ continuations[f][d] = <<h, j>> /\ Of(h)[j] = f
            /\ j \notin parts[h].values /\ None(stack, PartCalls(h, j))
    BY <1>1 DEF Parts
  <2> QED BY <2>1, <2>2
<1>4. ASSUME NEW g \in Futures, NEW i \in DOMAIN Of(g)
      PROVE  /\ One(stack', PartCalls(g, i))
             /\ (Of(g)[i] # f \/ i \in parts[g].values) /\ None(stack, PartCalls(g, i)) => None(stack', PartCalls(g, i))
  <2> DEFINE K == PartCalls(g, i)
  <2>1. \A d, e \in DOMAIN New : New[d] \in K /\ New[e] \in K => d = e
    <3>1. \A s \in Futures : \A k, l \in DOMAIN continuations[s] :
             continuations[s][k] = continuations[s][l] => k = l
      BY <1>1 DEF Parts
    <3>2. ASSUME NEW d \in DOMAIN New, NEW e \in DOMAIN New, New[d] \in K, New[e] \in K
          PROVE  d = e
      <4>1. continuations[f][d] = <<g, i>> /\ continuations[f][e] = <<g, i>>
        BY <1>3, <3>2
      <4>2. continuations[f][d] = continuations[f][e]
        BY <4>1
      <4>3. d \in DOMAIN continuations[f] /\ e \in DOMAIN continuations[f]
        OBVIOUS
      <4> QED BY <3>1, <4>2, <4>3, Zenon
    <3> QED BY <3>2
  <2>2. (\E d \in DOMAIN New : New[d] \in K) => None(stack, K)
    BY <1>3
  <2>3. One(stack, K)
    BY <1>1 DEF Parts
  <2>4. Of(g)[i] # f \/ i \in parts[g].values => \A d \in DOMAIN New : New[d] \notin K
    BY <1>3
  <2> HIDE DEF K
  <2>5. One(stack', K)
    BY <1>1, <2>1, <2>2, <2>3, OneMade
  <2>6. (\A d \in DOMAIN New : New[d] \notin K) /\ None(stack, K) => None(stack', K)
    BY <1>1, NoneMade
  <2> QED BY <2>4, <2>5, <2>6 DEF K
<1>5. ASSUME NEW s \in Futures, NEW k \in DOMAIN continuations'[s]
      PROVE  \E g \in created' : \E i \in DOMAIN Of(g)' :
                /\ continuations'[s][k] = <<g, i>> /\ Of(g)'[i] = s /\ Kind(g)' \in {"then", "all"}
                /\ i \notin parts'[g].values /\ None(stack', PartCalls(g, i))
  <2>1. s # f /\ continuations'[s] = continuations[s]
    BY <1>2, <1>5
  <2>2. PICK g \in created : \E i \in DOMAIN Of(g) :
            /\ continuations[s][k] = <<g, i>> /\ Of(g)[i] = s /\ Kind(g) \in {"then", "all"}
            /\ i \notin parts[g].values /\ None(stack, PartCalls(g, i))
    BY <1>1, <1>5, <2>1 DEF Parts
  <2>3. g \in Futures
    BY <1>1 DEF Members
  <2> QED BY <1>1, <1>4, <2>1, <2>2, <2>3
<1>6. ASSUME NEW s \in Futures, NEW k \in DOMAIN continuations'[s], NEW l \in DOMAIN continuations'[s],
             continuations'[s][k] = continuations'[s][l]
      PROVE  k = l
  BY <1>1, <1>2, <1>6 DEF Parts
<1>7. ASSUME NEW g \in Futures, Kind(g)' = "all"
      PROVE  /\ parts'[g].values \subseteq DOMAIN Of(g)' /\ (g \notin created' => parts'[g].values = {})
             /\ parts'[g].remaining = Cardinality(DOMAIN Of(g)' \ parts'[g].values)
             /\ \A i \in parts'[g].values :
                  Of(g)'[i] # 0 /\ state'[Of(g)'[i]] = "value" /\ None(stack', PartCalls(g, i))
  <2>1. /\ parts[g].values \subseteq DOMAIN Of(g) /\ (g \notin created => parts[g].values = {})
        /\ parts[g].remaining = Cardinality(DOMAIN Of(g) \ parts[g].values)
        /\ \A i \in parts[g].values :
             Of(g)[i] # 0 /\ state[Of(g)[i]] = "value" /\ None(stack, PartCalls(g, i))
    BY <1>1, <1>7 DEF Parts
  <2>2. \A i \in DOMAIN Of(g) : Of(g)[i] \in Futures \cup {0}
    BY <1>1 DEF Shape
  <2>3. \A i \in parts[g].values : Of(g)[i] # 0 /\ state'[Of(g)[i]] = "value" /\ None(stack', PartCalls(g, i))
    BY <1>4, <2>1, <2>2
  <2> QED BY <1>1, <2>1, <2>3
<1>8. \A g \in Futures : Kind(g)' # "all" => parts'[g].values = {} /\ parts'[g].remaining = Len(Of(g)')
  BY <1>1 DEF Parts
<1>9. \A g \in Futures : \A i \in DOMAIN Of(g)' : One(stack', PartCalls(g, i))
  BY <1>1, <1>4
<1> QED BY <1>1, <1>5, <1>6, <1>7, <1>8, <1>9 DEF Parts, One, None, InProgress

LEMMA SettleKeeps ==
    ASSUME Inv, NEW t \in Threads, Settle(t), Outside
    PROVE  Inv'
PROOF
<1>1. PICK f : f = Top(t).fut
  OBVIOUS
<1>2. stack[t] # <<>> /\ Top(t).step = "settle" /\ Top(t) \in CallSet
  BY Acting DEF Settle, In
<1>3. /\ f \in created /\ f \in Futures /\ Shape /\ Members /\ Outcome /\ Parts /\ stack \in Stacks
      /\ Top(t).state \in States /\ Top(t).state # "pending"
      /\ Top(t).state = "value" => Top(t).cause = 0 /\ Valued(f)
      /\ Top(t).state # "value" => Top(t).cause # 0 /\ FailsOf(f, Top(t).cause)
      /\ Top(t).cause \in Nat /\ Top(t).cause \in 0 .. Len(plan)
  BY <1>1, <1>2, Acting DEF Good, Members, Inv, CallSet
<1>4. f \in Nat /\ f # 0 /\ f \in 0 .. Len(plan)
  BY <1>3, Numbers
<1>5. UNCHANGED <<plan, created, body, parts, cancels, tail>>
  BY DEF Settle, Outside
<1>6. CASE ~MaySettle(f)
  <2>1. Return(t) /\ UNCHANGED ccall
    BY <1>1, <1>6 DEF Settle
  <2>2. Calm
    BY <1>3, <1>5, <2>1, Calmly DEF Members
  <2>3. Replaces(t, <<>>, 1)
    BY <1>2, <2>1 DEF Return, Become, Replaces
  <2> QED BY <2>2, <2>3, NoneKeeps
<1>7. CASE MaySettle(f)
  <2>1. PICK o \in Outcomes(f, Top(t).state, Top(t).cause) :
          /\ state' = [state EXCEPT ![f] = o[1]] /\ cause' = [cause EXCEPT ![f] = o[2]]
          /\ Become(t, Told(f, o[1], o[2])) /\ continuations' = [continuations EXCEPT ![f] = <<>>]
    BY <1>1, <1>7 DEF Settle
  <2>2. PICK r : r = o[1]
    OBVIOUS
  <2>3. PICK c : c = o[2]
    OBVIOUS
  <2>4. /\ r \in States /\ r # "pending" /\ c \in Nat /\ c \in 0 .. Len(plan)
        /\ r = "value" => c = 0 /\ Valued(f)
        /\ r # "value" => c # 0 /\ FailsOf(f, c)
    <3>1. CASE o = <<Top(t).state, Top(t).cause>>
      BY <1>3, <2>2, <2>3, <3>1
    <3>2. CASE o = <<"exception", f>>
      BY <1>4, <2>2, <2>3, <3>2 DEF States, FailsOf
    <3> QED BY <2>1, <3>1, <3>2 DEF Outcomes
  <2>5. state' = [state EXCEPT ![f] = r] /\ cause' = [cause EXCEPT ![f] = c] /\ Become(t, Told(f, r, c))
    BY <2>1, <2>2, <2>3
  <2>6. /\ state' \in [Futures -> States] /\ cause' \in [Futures -> Nat] /\ state'[f] = r /\ cause'[f] = c
        /\ \A g \in Futures : g # f => state'[g] = state[g] /\ cause'[g] = cause[g]
    BY <1>3, <2>4, <2>5 DEF Members
  <2>7. Monotone
    BY <1>5, <1>7, <2>6 DEF Monotone, MaySettle, Pending, body
  <2>8. Shape' /\ Futures' = Futures
    BY <1>3, <1>5, PlanKept
  <2>9. continuations' \in [Futures -> Seq(Nat \X Nat)]
    BY <1>3, <2>1 DEF Members
  <2>10. Members'
    <3>1. \A g \in Futures : cause'[g] \in 0 .. Len(plan)
              /\ (cause'[g] # 0 <=> state'[g] \in {"exception", "cancelled"})
      <4>1. \A g \in Futures : g # f => cause'[g] \in 0 .. Len(plan)
                /\ (cause'[g] # 0 <=> state'[g] \in {"exception", "cancelled"})
        BY <1>3, <2>6 DEF Members
      <4>2. cause'[f] \in 0 .. Len(plan) /\ (cause'[f] # 0 <=> state'[f] \in {"exception", "cancelled"})
        BY <2>4, <2>6 DEF States
      <4> QED BY <4>1, <4>2
    <3> QED BY <1>3, <1>5, <2>6, <2>8, <2>9, <3>1 DEF Members, body
  <2>11. Outcome'
    <3>1. ASSUME NEW g \in Futures, state'[g] = "value"
          PROVE  Valued(g)'
      <4>1. g \in created /\ Valued(g)
        BY <1>3, <2>4, <2>6, <3>1 DEF Outcome, Pending
      <4> QED BY <1>3, <2>7, <4>1, StaysTrue
    <3>2. ASSUME NEW g \in Futures, cause'[g] # 0
          PROVE  FailsOf(g, cause[g])'
      <4>1. PICK x : x = cause'[g]
        OBVIOUS
      <4>2. g \in created /\ FailsOf(g, x)
        <5>1. CASE g = f
          <6>1. r # "value"
            BY <2>4, <2>6, <3>2, <5>1
          <6> QED BY <1>3, <2>4, <2>6, <4>1, <5>1, <6>1
        <5>2. CASE g # f
          <6>1. cause[g] # 0 /\ x = cause[g]
            BY <2>6, <3>2, <4>1, <5>2
          <6>2. ~Pending(g)
            BY <1>3, <6>1 DEF Members, Pending
          <6> QED BY <1>3, <6>1, <6>2 DEF Outcome
        <5> QED BY <5>1, <5>2
      <4>3. FailsOf(g, x)'
        BY <1>3, <2>7, <4>2, StaysTrue
      <4> QED BY <4>1, <4>3 DEF FailsOf, Fails, Sources, Of, Pending
    <3>3. \A g \in Futures : g \notin created' => Pending(g)'
      BY <1>3, <1>5, <2>6 DEF Outcome, Pending
    <3>4. ASSUME NEW g \in hasStarted'
          PROVE  Kind(g)' # "all" /\ (Kind(g)' = "then" => Valued(g)')
      <4>1. g \in created /\ Kind(g) # "all" /\ (Kind(g) = "then" => Valued(g))
        BY <1>3, <1>5, <3>4 DEF Outcome, Members, body
      <4> QED BY <1>3, <2>7, <4>1, StaysTrue
    <3>5. \A g \in Futures : begun'[g] > 0 => g \in hasStarted'
      BY <1>3, <1>5 DEF Outcome, body
    <3>6. \A s \in Futures : continuations'[s] # <<>> => Pending(s)'
      BY <1>3, <2>1, <2>6 DEF Outcome, Members, Pending
    <3> QED BY <2>8, <3>1, <3>2, <3>3, <3>4, <3>5, <3>6 DEF Outcome
  <2>12. PICK old : old = continuations[f]
    OBVIOUS
  <2>13. old \in Seq(Nat \X Nat)
    BY <1>3, <2>12 DEF Members
  <2>14. DOMAIN old = 1 .. Len(old) /\ Len(old) \in Nat
    BY <2>13
  <2> DEFINE New == [k \in DOMAIN old |-> Call("callback", old[k][1], old[k][2], r, c)]
  <2>15. ASSUME NEW d \in DOMAIN old
         PROVE  /\ New[d] \in CallSet /\ Good(New[d])' /\ New[d].step = "callback"
                /\ old[d] = <<New[d].fut, New[d].part>>
    <3>1. PICK g \in created : \E i \in DOMAIN Of(g) :
              old[d] = <<g, i>> /\ Of(g)[i] = f /\ Kind(g) \in {"then", "all"}
      BY <1>3, <2>12, <2>15 DEF Parts
    <3>2. PICK i \in DOMAIN Of(g) : old[d] = <<g, i>> /\ Of(g)[i] = f /\ Kind(g) \in {"then", "all"}
      BY <3>1
    <3>3. g \in Nat /\ i \in Nat
      <4>1. g \in Futures
        BY <1>3 DEF Members
      <4>2. g \in Nat /\ DOMAIN Of(g) = 1 .. Len(Of(g))
        BY <1>3, <4>1, Numbers
      <4> QED BY <4>2
    <3>4. PICK a : a = Call("callback", g, i, r, c)
      OBVIOUS
    <3>5. New[d] = a
      BY <3>2, <3>4
    <3>6. a \in CallSet /\ a.step = "callback" /\ a.fut = g /\ a.part = i /\ a.state = r /\ a.cause = c
      BY <2>4, <3>3, <3>4 DEF Call, CallSet, Steps
    <3>7. /\ g \in created' /\ Kind(g)' = Kind(g) /\ Of(g)' = Of(g) /\ Len(plan') = Len(plan)
          /\ state'[f] = r /\ cause'[f] = c /\ ~Pending(f)'
      BY <1>5, <2>4, <2>6 DEF Kind, Of, Pending
    <3>8. Good(a)'
      BY <1>4, <2>4, <3>2, <3>6, <3>7 DEF Good
    <3> HIDE DEF New
    <3> QED BY <3>2, <3>5, <3>6, <3>8
  <2>16. New \in Seq(CallSet) /\ DOMAIN New = DOMAIN old
    <3>1. New \in [1 .. Len(old) -> CallSet]
      BY <2>14, <2>15
    <3>2. Seq(CallSet) = UNION {[1 .. n -> CallSet] : n \in Nat}
      BY SeqDef
    <3> HIDE DEF New
    <3> QED BY <2>14, <3>1, <3>2
  <2>17. Replaces(t, New, 1)
    BY <1>2, <2>5, <2>12 DEF Become, Replaces, Told
  <2> HIDE DEF New
  <2>18. \A d \in DOMAIN New : Makes(New[d])
    BY <2>15, <2>16 DEF Makes
  <2>19. UNCHANGED <<hasStarted, queued, begun>> /\ DOMAIN plan' = DOMAIN plan
    BY <1>5 DEF body
  <2>20. Moved(t, New, 1) => Bodies'
    <3>1. \A d \in DOMAIN New : New[d].step \notin {"handler", "begin"}
      BY <2>15, <2>16
    <3> QED BY <1>2, <2>16, <2>19, <3>1, BodiesKept
  <2>21. Moved(t, New, 1) => Parts'
    <3>1. \A s \in Futures : state[s] = "value" => state'[s] = "value"
      BY <2>7 DEF Monotone, Pending
    <3> QED BY <1>2, <1>3, <1>5, <2>1, <2>12, <2>15, <2>16, <3>1, PartsTold
  <2> QED BY <2>7, <2>8, <2>10, <2>11, <2>16, <2>17, <2>18, <2>20, <2>21, StepKeeps
<1> QED BY <1>6, <1>7

-----------------------------------------------------------------------------
(* Joining.                                                                *)

\* One part less is left, and the rest are filled when none is.
LEMMA OneLess ==
    ASSUME Inv, NEW f \in Futures, Kind(f) = "all", NEW i \in DOMAIN Of(f), i \notin parts[f].values
    PROVE  /\ parts[f].remaining \in Nat /\ parts[f].remaining # 0
           /\ Cardinality(DOMAIN Of(f) \ (parts[f].values \cup {i})) = parts[f].remaining - 1
           /\ parts[f].remaining - 1 = 0 => DOMAIN Of(f) \subseteq parts[f].values \cup {i}
PROOF
<1>1. parts[f].remaining = Cardinality(DOMAIN Of(f) \ parts[f].values)
  BY DEF Inv, Parts
<1>2. DOMAIN Of(f) = 1 .. Len(Of(f)) /\ Len(Of(f)) \in Nat
  BY Numbers DEF Inv
<1>3. PICK S : S = DOMAIN Of(f) \ parts[f].values
  OBVIOUS
<1>4. IsFiniteSet(S)
  <2>1. IsFiniteSet(1 .. Len(Of(f)))
    BY <1>2, FS_Interval
  <2>2. S \subseteq 1 .. Len(Of(f))
    BY <1>2, <1>3
  <2> QED BY <2>1, <2>2, FS_Subset
<1>5. i \in S /\ DOMAIN Of(f) \ (parts[f].values \cup {i}) = S \ {i}
  BY <1>3
<1>6. Cardinality(S \ {i}) = Cardinality(S) - 1 /\ IsFiniteSet(S \ {i})
  BY <1>4, <1>5, FS_RemoveElement
<1>7. Cardinality(S) \in Nat /\ Cardinality(S \ {i}) \in Nat
  BY <1>4, <1>6, FS_CardinalityType
<1>8. Cardinality(S \ {i}) = 0 => S \ {i} = {}
  BY <1>6, FS_EmptySet
<1>9. Cardinality(S) # 0
  BY <1>4, <1>5, FS_EmptySet
<1> QED BY <1>1, <1>3, <1>5, <1>6, <1>7, <1>8, <1>9

\* Filling a part in the place of the call that tells it.
LEMMA PartsFilled ==
    ASSUME Inv, NEW t \in Threads, stack[t] # <<>>, NEW New \in Seq(CallSet), Moved(t, New, 1),
           \A g, j : \A d \in DOMAIN New : New[d] \notin PartCalls(g, j),
           NEW f \in created, NEW i \in DOMAIN Of(f), Kind(f) = "all", Head(stack[t]) \in PartCalls(f, i),
           Of(f)[i] # 0, state[Of(f)[i]] = "value", UNCHANGED <<plan, created, ccall>>,
           parts'[f].values = parts[f].values \cup {i}, parts'[f].remaining = parts[f].remaining - 1,
           \A g \in Futures : g # f => parts'[g] = parts[g]
    PROVE  Parts'
PROOF
<1>1. /\ stack \in Stacks /\ Parts /\ f \in Futures /\ Futures' = Futures
      /\ continuations' = continuations /\ state' = state
      /\ \A g \in Futures : Kind(g)' = Kind(g) /\ Of(g)' = Of(g)
  BY DEF Inv, Members, Futures, Kind, Of, ccall
<1>2. ASSUME NEW g, NEW j
      PROVE  /\ One(stack, PartCalls(g, j)) => One(stack', PartCalls(g, j))
             /\ None(stack, PartCalls(g, j)) => None(stack', PartCalls(g, j))
             /\ One(stack, PartCalls(g, j)) /\ Head(stack[t]) \in PartCalls(g, j) => None(stack', PartCalls(g, j))
  <2> DEFINE K == PartCalls(g, j)
  <2>1. \A d \in DOMAIN New : New[d] \notin K
    OBVIOUS
  <2> HIDE DEF K
  <2>2. /\ One(stack, K) => One(stack', K)
        /\ None(stack, K) => None(stack', K)
        /\ One(stack, K) /\ Head(stack[t]) \in K => None(stack', K)
    BY <1>1, <2>1, NoneMade
  <2> QED BY <2>2 DEF K
<1>3. None(stack', PartCalls(f, i))
  BY <1>1, <1>2 DEF Parts
<1>4. Head(stack[t]) \in InProgress(stack)
  BY Acting DEF Top
<1>5. /\ i \notin parts[f].values
      /\ \A r \in Futures : \A k \in DOMAIN continuations[r] : continuations[r][k] # <<f, i>>
  BY <1>4, ToldOnce
<1>6. ASSUME NEW s \in Futures, NEW k \in DOMAIN continuations'[s]
      PROVE  \E g \in created' : \E j \in DOMAIN Of(g)' :
                /\ continuations'[s][k] = <<g, j>> /\ Of(g)'[j] = s /\ Kind(g)' \in {"then", "all"}
                /\ j \notin parts'[g].values /\ None(stack', PartCalls(g, j))
  <2>1. PICK g \in created : \E j \in DOMAIN Of(g) :
            /\ continuations[s][k] = <<g, j>> /\ Of(g)[j] = s /\ Kind(g) \in {"then", "all"}
            /\ j \notin parts[g].values /\ None(stack, PartCalls(g, j))
    BY <1>1 DEF Parts
  <2>2. PICK j \in DOMAIN Of(g) :
            /\ continuations[s][k] = <<g, j>> /\ Of(g)[j] = s /\ Kind(g) \in {"then", "all"}
            /\ j \notin parts[g].values /\ None(stack, PartCalls(g, j))
    BY <2>1
  <2>3. g \in Futures
    BY DEF Inv, Members
  <2>4. ~(g = f /\ j = i)
    <3>1. k \in DOMAIN continuations[s]
      BY <1>1, <1>6
    <3>2. continuations[s][k] # <<f, i>>
      BY <1>5, <3>1
    <3> QED BY <2>2, <3>2
  <2>5. j \notin parts'[g].values
    BY <2>2, <2>3, <2>4
  <2> QED BY <1>1, <1>2, <2>2, <2>3, <2>5
<1>7. \A s \in Futures : \A k, l \in DOMAIN continuations'[s] :
         continuations'[s][k] = continuations'[s][l] => k = l
  BY <1>1 DEF Parts
<1>8. ASSUME NEW g \in Futures, Kind(g)' = "all"
      PROVE  /\ parts'[g].values \subseteq DOMAIN Of(g)' /\ (g \notin created' => parts'[g].values = {})
             /\ parts'[g].remaining = Cardinality(DOMAIN Of(g)' \ parts'[g].values)
             /\ \A j \in parts'[g].values :
                  Of(g)'[j] # 0 /\ state'[Of(g)'[j]] = "value" /\ None(stack', PartCalls(g, j))
  <2>1. /\ parts[g].values \subseteq DOMAIN Of(g) /\ (g \notin created => parts[g].values = {})
        /\ parts[g].remaining = Cardinality(DOMAIN Of(g) \ parts[g].values)
        /\ \A j \in parts[g].values :
             Of(g)[j] # 0 /\ state[Of(g)[j]] = "value" /\ None(stack, PartCalls(g, j))
    BY <1>1, <1>8 DEF Parts
  <2>2. \A j \in parts[g].values : Of(g)[j] # 0 /\ state[Of(g)[j]] = "value" /\ None(stack', PartCalls(g, j))
    BY <1>2, <2>1
  <2>3. CASE g # f
    BY <1>1, <2>1, <2>2, <2>3
  <2>4. CASE g = f
    <3>1. Cardinality(DOMAIN Of(f) \ (parts[f].values \cup {i})) = parts[f].remaining - 1
      BY <1>1, <1>5, OneLess
    <3>2. \A j \in parts'[f].values : Of(f)[j] # 0 /\ state[Of(f)[j]] = "value" /\ None(stack', PartCalls(f, j))
      BY <1>3, <2>2, <2>4
    <3> QED BY <1>1, <2>1, <2>4, <3>1, <3>2
  <2> QED BY <2>3, <2>4
<1>9. \A g \in Futures : Kind(g)' # "all" => parts'[g].values = {} /\ parts'[g].remaining = Len(Of(g)')
  BY <1>1 DEF Parts
<1>10. \A g \in Futures : \A j \in DOMAIN Of(g)' : One(stack', PartCalls(g, j))
  BY <1>1, <1>2 DEF Parts
<1> QED BY <1>1, <1>6, <1>7, <1>8, <1>9, <1>10 DEF Parts, One, None, InProgress

\* A change of the parts of f: the results stay, and the bodies.
LEMMA PartStepKeeps ==
    ASSUME Inv, NEW t \in Threads, NEW New \in Seq(CallSet), Replaces(t, New, 1), stack[t] # <<>>,
           UNCHANGED <<plan, created, ccall, body, cancels, tail>>,
           parts' \in [Futures -> [remaining : Nat, settled : BOOLEAN, values : SUBSET Nat]],
           \A d \in DOMAIN New : New[d].step \in {"settle", "failure"} /\ (Monotone => Makes(New[d])),
           Moved(t, New, 1) => Parts'
    PROVE  Inv'
PROOF
<1>1. Shape /\ Members /\ Outcome
  BY DEF Inv
<1>2. Shape' /\ Futures' = Futures
  BY <1>1, PlanKept
<1>3. Members'
  BY <1>1, <1>2 DEF Members, ccall, body
<1>4. Monotone
  BY DEF Monotone, ccall, body
<1>5. Outcome'
  <2>1. state' = state /\ cause' = cause /\ hasStarted' = hasStarted /\ begun' = begun
        /\ continuations' = continuations
    BY DEF ccall, body
  <2>2. \A f \in Futures : begun[f] > 0 => f \in hasStarted
    BY <1>1 DEF Outcome
  <2>3. \A s \in Futures : continuations[s] # <<>> => Pending(s)
    BY <1>1 DEF Outcome
  <2> QED BY <1>3, <1>4, <2>1, <2>2, <2>3, OutcomeKept
<1>6. Moved(t, New, 1) => Bodies'
  <2>1. UNCHANGED <<hasStarted, queued, begun>> /\ DOMAIN plan' = DOMAIN plan
    BY DEF body
  <2> QED BY <2>1, BodiesKept
<1> QED BY <1>2, <1>3, <1>4, <1>5, <1>6, StepKeeps

LEMMA PartKeeps ==
    ASSUME Inv, NEW t \in Threads, Part(t), Outside
    PROVE  Inv'
PROOF
<1>1. PICK f : f = Top(t).fut
  OBVIOUS
<1>2. PICK i : i = Top(t).part
  OBVIOUS
<1>3. PICK s : s = Of(f)[i]
  OBVIOUS
<1>4. stack[t] # <<>> /\ Top(t).step = "success" /\ Top(t) = Head(stack[t]) /\ Kind(f) = "all"
  BY <1>1 DEF Part, In, Top
<1>5. /\ f \in created /\ f \in Futures /\ Shape /\ Members /\ Parts /\ Top(t) \in CallSet
      /\ i \in DOMAIN Of(f) /\ s # 0 /\ state[s] = "value" /\ Top(t) \in InProgress(stack)
  BY <1>1, <1>2, <1>3, <1>4, Acting DEF Good, Members, Inv
<1>6. s \in Futures /\ s \in Nat /\ f \in Nat /\ i \in Nat /\ s \in 0 .. Len(plan) /\ 0 \in 0 .. Len(plan)
  <2>1. s \in Futures /\ Len(plan) \in Nat /\ Futures = 1 .. Len(plan) /\ DOMAIN Of(f) \subseteq Nat
    BY <1>3, <1>5, Numbers DEF Shape
  <2> QED BY <1>5, <2>1
<1>7. Head(stack[t]) \in PartCalls(f, i)
  BY <1>1, <1>2, <1>4, <1>5 DEF PartCalls
<1>8. i \notin parts[f].values
  BY <1>4, <1>5, <1>7, ToldOnce
<1>9. /\ parts[f].remaining \in Nat /\ parts[f].remaining # 0
      /\ parts[f].remaining - 1 = 0 => DOMAIN Of(f) \subseteq parts[f].values \cup {i}
  BY <1>4, <1>5, <1>8, OneLess
<1>10. UNCHANGED <<plan, created, ccall, body, cancels, tail>>
  BY DEF Part, Outside
<1>11. PICK filled : filled = Filled(parts[f], i)
  OBVIOUS
<1>12. /\ filled \in [remaining : Nat, settled : BOOLEAN, values : SUBSET Nat]
       /\ filled.values = parts[f].values \cup {i} /\ filled.remaining = parts[f].remaining - 1
  <2>1. parts[f] \in [remaining : Nat, settled : BOOLEAN, values : SUBSET Nat]
    BY <1>5 DEF Members
  <2>2. parts[f].remaining - 1 \in Nat
    BY <1>9
  <2>3. parts[f].values \cup {i} \in SUBSET Nat
    BY <1>6, <2>1
  <2> QED BY <1>11, <2>1, <2>2, <2>3 DEF Filled
<1>13. ASSUME NEW p \in [remaining : Nat, settled : BOOLEAN, values : SUBSET Nat],
              p.values = filled.values, p.remaining = filled.remaining, parts' = [parts EXCEPT ![f] = p],
              NEW New \in Seq(CallSet), Replaces(t, New, 1),
              \A d \in DOMAIN New : New[d].step \in {"settle", "failure"} /\ Good(New[d])
       PROVE  Inv'
  <2>1. parts' \in [Futures -> [remaining : Nat, settled : BOOLEAN, values : SUBSET Nat]]
    BY <1>5, <1>13 DEF Members
  <2>2. parts'[f] = p /\ \A g \in Futures : g # f => parts'[g] = parts[g]
    BY <1>5, <1>13 DEF Members
  <2>3. \A g, j : \A d \in DOMAIN New : New[d] \notin PartCalls(g, j)
    BY <1>13, TellsNothing
  <2>4. Moved(t, New, 1) => Parts'
    BY <1>3, <1>4, <1>5, <1>7, <1>10, <1>12, <1>13, <2>2, <2>3, PartsFilled
  <2>5. \A d \in DOMAIN New : Monotone => Makes(New[d])
    BY <1>13, GoodMakes
  <2> QED BY <1>4, <1>10, <1>13, <2>1, <2>4, <2>5, PartStepKeeps
<1>14. ASSUME NEW p \in [remaining : Nat, settled : BOOLEAN, values : SUBSET Nat],
              p.values = filled.values, p.remaining = filled.remaining, parts' = [parts EXCEPT ![f] = p],
              NEW a \in CallSet, a.step \in {"settle", "failure"}, Good(a), Become(t, <<a>>)
       PROVE  Inv'
  <2> DEFINE New == <<a>>
  <2>1. New \in Seq(CallSet) /\ DOMAIN New = {1} /\ New[1] = a /\ Replaces(t, New, 1)
    BY <1>4, <1>14 DEF Become, Replaces
  <2> HIDE DEF New
  <2> QED BY <1>13, <1>14, <2>1
<1>15. CASE parts[f].settled /\ Return(t) /\ UNCHANGED parts
  <2>1. Calm
    BY <1>5, <1>10, <1>15, Calmly DEF Members
  <2>2. Replaces(t, <<>>, 1)
    BY <1>4, <1>15 DEF Return, Become, Replaces
  <2> QED BY <2>1, <2>2, NoneKeeps
<1>16. CASE parts' = [parts EXCEPT ![f] = filled] /\ Return(t)
  <2> DEFINE New == <<>>
  <2>1. New \in Seq(CallSet) /\ DOMAIN New = {} /\ Replaces(t, New, 1)
    BY <1>4, <1>16 DEF Return, Become, Replaces
  <2> HIDE DEF New
  <2> QED BY <1>12, <1>13, <1>16, <2>1
<1>17. CASE /\ filled.remaining = 0 /\ parts' = [parts EXCEPT ![f] = [filled EXCEPT !.settled = TRUE]]
            /\ Become(t, <<Call("settle", f, 0, "value", 0)>>)
  <2>1. PICK a : a = Call("settle", f, 0, "value", 0)
    OBVIOUS
  <2>2. a \in CallSet /\ a.step = "settle" /\ a.fut = f /\ a.state = "value" /\ a.cause = 0
    BY <1>6, <2>1 DEF Call, CallSet, Steps, States
  <2>3. Valued(f)
    <3> SUFFICES ASSUME NEW r \in Sources(f)
                 PROVE  state[r] = "value"
      BY DEF Valued
    <3>1. PICK j \in DOMAIN Of(f) : r = Of(f)[j]
      BY DEF Sources
    <3>2. j \in parts[f].values \/ j = i
      BY <1>9, <1>12, <1>17
    <3>3. \A l \in parts[f].values : state[Of(f)[l]] = "value"
      BY <1>4, <1>5 DEF Parts
    <3> QED BY <1>3, <1>5, <3>1, <3>2, <3>3
  <2>4. Good(a)
    BY <1>5, <1>6, <2>2, <2>3 DEF Good
  <2>5. PICK p : p = [filled EXCEPT !.settled = TRUE]
    OBVIOUS
  <2>6. p \in [remaining : Nat, settled : BOOLEAN, values : SUBSET Nat]
        /\ p.values = filled.values /\ p.remaining = filled.remaining
    BY <1>12, <2>5
  <2> QED BY <1>14, <1>17, <2>1, <2>2, <2>4, <2>5, <2>6
<1>18. CASE /\ filled.remaining = 0 /\ parts' = [parts EXCEPT ![f] = filled]
            /\ Become(t, <<Call("failure", f, i, "exception", s)>>)
  <2>1. PICK a : a = Call("failure", f, i, "exception", s)
    OBVIOUS
  <2>2. a \in CallSet /\ a.step = "failure" /\ a.fut = f /\ a.part = i /\ a.cause = s
    BY <1>6, <2>1 DEF Call, CallSet, Steps, States
  <2>3. Fails(s, s)
    BY <1>5 DEF Fails, Pending
  <2>4. Good(a)
    BY <1>3, <1>4, <1>5, <1>6, <2>2, <2>3 DEF Good
  <2> QED BY <1>12, <1>14, <1>18, <2>1, <2>2, <2>4
<1> QED BY <1>1, <1>2, <1>3, <1>11, <1>15, <1>16, <1>17, <1>18 DEF Part

LEMMA PartFailsKeeps ==
    ASSUME Inv, NEW t \in Threads, PartFails(t), Outside
    PROVE  Inv'
PROOF
<1>1. PICK f : f = Top(t).fut
  OBVIOUS
<1>2. PICK c : c = Top(t).cause
  OBVIOUS
<1>3. PICK s : s = Of(f)[Top(t).part]
  OBVIOUS
<1>4. stack[t] # <<>> /\ Top(t).step = "failure"
  BY DEF PartFails, In, Top
<1>5. f \in created /\ f \in Futures /\ Shape /\ Members /\ Parts /\ s \in Sources(f) /\ s \in Futures /\ Fails(s, c)
  <2>1. /\ f \in created /\ f \in Futures /\ Shape /\ Members /\ Parts /\ Fails(s, c)
        /\ Top(t).part \in DOMAIN Of(f) /\ s # 0
    BY <1>1, <1>2, <1>3, <1>4, Acting DEF Good, Members, Inv
  <2>2. s \in Futures
    BY <1>3, <2>1 DEF Shape
  <2>3. s \in Sources(f)
    BY <1>3, <2>1 DEF Sources
  <2> QED BY <2>1, <2>2, <2>3
<1>6. c # 0 /\ c \in Nat /\ c \in 0 .. Len(plan) /\ FailsOf(f, c)
  BY <1>5, FailsWithSomething DEF FailsOf
<1>7. UNCHANGED <<plan, created, ccall, body, cancels, tail>>
  BY DEF PartFails, Outside
<1>8. CASE parts[f].settled
  <2>1. Return(t) /\ UNCHANGED parts
    BY <1>1, <1>8 DEF PartFails
  <2>2. Calm
    BY <1>5, <1>7, <2>1, Calmly DEF Members
  <2>3. Replaces(t, <<>>, 1)
    BY <1>4, <2>1 DEF Return, Become, Replaces
  <2> QED BY <2>2, <2>3, NoneKeeps
<1>9. CASE ~parts[f].settled
  <2>1. parts' = [parts EXCEPT ![f] = Failed(@)] /\ Become(t, <<Call("settle", f, 0, "exception", c)>>)
    BY <1>1, <1>2, <1>9 DEF PartFails
  <2>2. PICK p : p = Failed(parts[f])
    OBVIOUS
  <2>3. /\ p \in [remaining : Nat, settled : BOOLEAN, values : SUBSET Nat]
        /\ p.values = parts[f].values /\ p.remaining = parts[f].remaining
    <3>1. parts[f] \in [remaining : Nat, settled : BOOLEAN, values : SUBSET Nat]
      BY <1>5 DEF Members
    <3> QED BY <2>2, <3>1 DEF Failed
  <2>4. /\ parts' \in [Futures -> [remaining : Nat, settled : BOOLEAN, values : SUBSET Nat]]
        /\ parts'[f] = p /\ \A g \in Futures : g # f => parts'[g] = parts[g]
    BY <1>5, <2>1, <2>2, <2>3 DEF Members
  <2>5. \A g \in Futures : parts'[g].values = parts[g].values /\ parts'[g].remaining = parts[g].remaining
    BY <2>3, <2>4
  <2>6. PICK a : a = Call("settle", f, 0, "exception", c)
    OBVIOUS
  <2>7. a \in CallSet /\ a.step = "settle" /\ a.fut = f /\ a.state = "exception" /\ a.cause = c
    <3>1. f \in Nat
      BY <1>5, Numbers
    <3> QED BY <1>6, <2>6, <3>1 DEF Call, CallSet, Steps, States
  <2>8. Good(a)
    BY <1>5, <1>6, <2>7 DEF Good
  <2> DEFINE New == <<a>>
  <2>9. New \in Seq(CallSet) /\ DOMAIN New = {1} /\ New[1] = a /\ Replaces(t, New, 1)
    BY <1>4, <2>1, <2>6, <2>7 DEF Become, Replaces
  <2> HIDE DEF New
  <2>10. Monotone
    BY <1>7 DEF Monotone, ccall, body
  <2>11. Makes(a)
    BY <2>7, <2>8, <2>10, GoodMakes
  <2>12. Moved(t, New, 1) => Parts'
    <3>1. \A g, i : \A d \in DOMAIN New : New[d] \notin PartCalls(g, i)
      BY <2>7, <2>9, TellsNothing
    <3>2. \A g \in Futures : DOMAIN Of(g)' = DOMAIN Of(g) /\ Len(Of(g)') = Len(Of(g))
      BY <1>7 DEF Of
    <3>3. continuations' = continuations
      BY <1>7 DEF ccall
    <3> QED BY <1>4, <2>5, <2>9, <2>10, <3>1, <3>2, <3>3, PartsKept
  <2> QED BY <1>4, <1>7, <2>4, <2>7, <2>9, <2>11, <2>12, PartStepKeeps
<1> QED BY <1>8, <1>9

-----------------------------------------------------------------------------
(* The chain.                                                              *)

LEMMA InvokeAsyncKeeps ==
    ASSUME Inv, NEW t \in Threads, NEW f \in Futures, InvokeAsync(t, f)
    PROVE  Inv'
PROOF
<1>1. Shape /\ Members /\ stack \in Stacks
  BY DEF Inv
<1>2. f \in Links /\ f \notin created /\ IsChain /\ f # 1 /\ Kind(f) = "then" /\ Len(Of(f)) = 1
  <2>1. f \in Links /\ f \notin created
    BY DEF InvokeAsync
  <2>2. IsChain /\ f # 1
    BY <2>1 DEF Links
  <2>3. Kind(f) = "then"
    BY <1>1, <2>2 DEF Shape
  <2> QED BY <1>1, <2>1, <2>2, <2>3 DEF Shape
<1>3. tail \in Futures /\ tail \in Nat /\ tail # 0 /\ f \in Nat /\ 0 \in 0 .. Len(plan) /\ 1 \in Futures
      /\ DOMAIN Of(f) = {1} /\ Len(plan) \in Nat /\ Futures = 1 .. Len(plan)
  <2>1. tail \in Futures
    BY <1>1 DEF Members
  <2>2. Len(plan) \in Nat /\ Futures = 1 .. Len(plan) /\ DOMAIN Of(f) = 1 .. Len(Of(f))
    BY <1>1, Numbers
  <2> QED BY <1>2, <2>1, <2>2
<1>4. /\ created' = created \cup {f}
      /\ stack' = [stack EXCEPT ![t] = <<At("onSettled", f, 1), At("store", f, 0)>> \o @]
      /\ UNCHANGED <<ccall, body, parts, cancels, tail>>
  BY DEF InvokeAsync
<1>5. PICK new : new = [plan[f] EXCEPT !.of = <<tail>>]
  OBVIOUS
<1>6. plan' = [plan EXCEPT ![f] = new]
  BY <1>5 DEF InvokeAsync
<1>7. plan' \in Seq([kind : Kinds, of : Seq(Nat)]) /\ Len(plan') = Len(plan) /\ new.kind = plan[f].kind /\ new.of = <<tail>>
  <2> DEFINE R == [kind : Kinds, of : Seq(Nat)]
  <2>1. plan \in Seq(R)
    BY <1>1 DEF Shape
  <2>2. plan[f] \in R
    <3> HIDE DEF R
    <3> QED BY <2>1 DEF Futures
  <2>3. <<tail>> \in Seq(Nat)
    BY <1>3
  <2>4. new \in R /\ new.kind = plan[f].kind /\ new.of = <<tail>>
    BY <1>5, <2>2, <2>3
  <2> HIDE DEF R
  <2>5. [plan EXCEPT ![f] = new] \in Seq(R) /\ Len([plan EXCEPT ![f] = new]) = Len(plan)
    BY <1>3, <2>1, <2>4, ExceptSeq
  <2>6. plan' \in Seq(R) /\ Len(plan') = Len(plan)
    BY <1>6, <2>5
  <2> QED BY <2>4, <2>6 DEF R
<1>8. /\ DOMAIN plan' = DOMAIN plan /\ Futures' = Futures
      /\ plan'[f] = new /\ \A g \in Futures : g # f => plan'[g] = plan[g]
  BY <1>6 DEF Futures
<1>9. /\ \A g \in Futures : Kind(g)' = Kind(g) /\ (g # f => Of(g)' = Of(g))
      /\ Of(f)' = <<tail>> /\ DOMAIN Of(f)' = {1} /\ Len(Of(f)') = 1 /\ Of(f)'[1] = tail
  <2>1. Of(f)' = <<tail>>
    BY <1>7, <1>8 DEF Of
  <2>2. DOMAIN <<tail>> = {1} /\ Len(<<tail>>) = 1 /\ <<tail>>[1] = tail
    OBVIOUS
  <2>3. \A g \in Futures : Kind(g)' = Kind(g) /\ (g # f => Of(g)' = Of(g))
    BY <1>7, <1>8 DEF Kind, Of
  <2> QED BY <2>1, <2>2, <2>3
<1>10. IsChain' /\ Links' = Links
  BY <1>2, <1>3, <1>8, <1>9 DEF IsChain, Links
<1>11. Shape'
  <2>1. plan' # <<>>
    BY <1>3, <1>7
  <2>2. \A g \in Futures \ {1} : Kind(g)' = "then"
    BY <1>1, <1>2, <1>9 DEF Shape
  <2>3. ASSUME NEW g \in Futures
        PROVE  /\ \A i \in DOMAIN Of(g)' : Of(g)'[i] \in Futures \cup {0}
               /\ Kind(g)' \in {"call", "start"} => Of(g)' = <<>>
               /\ Kind(g)' \in {"then", "join"} => \A i \in DOMAIN Of(g)' : Of(g)'[i] # 0
               /\ Kind(g)' = "then" => Len(Of(g)') = 1
    <3>1. CASE g = f
      BY <1>2, <1>3, <1>9, <3>1
    <3>2. CASE g # f
      <4>1. Of(g)' = Of(g) /\ Kind(g)' = Kind(g)
        BY <1>9, <3>2
      <4>2. /\ \A i \in DOMAIN Of(g) : Of(g)[i] \in Futures \cup {0}
            /\ Kind(g) \in {"call", "start"} => Of(g) = <<>>
            /\ Kind(g) \in {"then", "join"} => \A i \in DOMAIN Of(g) : Of(g)[i] # 0
            /\ Kind(g) = "then" => Len(Of(g)) = 1
        BY <1>1 DEF Shape
      <4> QED BY <4>1, <4>2
    <3> QED BY <3>1, <3>2
  <2>4. \E p \in Plans : DOMAIN p = Futures' /\ \A g \in Futures' : p[g].kind = Kind(g)'
    <3>1. PICK p \in Plans : DOMAIN p = Futures /\ \A g \in Futures : p[g].kind = Kind(g)
      BY <1>1 DEF Shape
    <3>2. DOMAIN p = Futures' /\ \A g \in Futures' : p[g].kind = Kind(g)'
      BY <1>8, <1>9, <3>1
    <3> QED BY <3>2
  <2>5. \A g \in Futures' \ {1} : Kind(g)' = "then"
    BY <1>8, <2>2
  <2> QED BY <1>7, <1>8, <2>1, <2>3, <2>4, <2>5 DEF Shape
<1>12. Calm
  <2>1. \A g \in Futures : plan'[g].kind = plan[g].kind /\ (g # f => plan'[g] = plan[g])
    BY <1>7, <1>8
  <2>2. \A g \in Futures : DOMAIN Of(g)' = DOMAIN Of(g) /\ Len(Of(g)') = Len(Of(g))
    BY <1>2, <1>3, <1>9
  <2> QED BY <1>2, <1>4, <1>8, <1>11, <2>1, <2>2, Making
<1>13. PICK a : a = At("onSettled", f, 1)
  OBVIOUS
<1>14. PICK b : b = At("store", f, 0)
  OBVIOUS
<1>15. a \in CallSet /\ a.step = "onSettled" /\ a.fut = f /\ a.part = 1 /\ a.cause = 0
  BY <1>3, <1>13 DEF At, Call, CallSet, Steps, States
<1>16. b \in CallSet /\ b.step = "store" /\ b.fut = f /\ b.cause = 0
  BY <1>3, <1>14 DEF At, Call, CallSet, Steps, States
<1>17. Replaces(t, <<a, b>>, 0)
  BY <1>4, <1>13, <1>14 DEF Replaces
<1>18. f \in created' /\ Kind(f)' = "then" /\ 0 \in 0 .. Len(plan')
  BY <1>2, <1>3, <1>4, <1>7, <1>9
<1>19. Makes(a)
  BY <1>3, <1>9, <1>15, <1>18 DEF Makes, Good
<1>20. Makes(b)
  BY <1>2, <1>10, <1>14, <1>16, <1>18 DEF Makes, Good
<1>21. \A g, i : b \notin PartCalls(g, i)
  BY <1>16, TellsNothing
<1>22. \A g, i : a \in PartCalls(g, i) => g \notin created
  BY <1>2, <1>15 DEF PartCalls
<1> QED BY <1>12, <1>15, <1>16, <1>17, <1>19, <1>20, <1>21, <1>22, TwoKeep

-----------------------------------------------------------------------------
(* Every step keeps the invariant.                                         *)

LEMMA InvStep == Inv /\ [ChainNext]_chainVars => Inv'
PROOF
<1> SUFFICES ASSUME Inv, [ChainNext]_chainVars
             PROVE  Inv'
  OBVIOUS
<1>1. Callers \subseteq Threads /\ Workers \subseteq Threads
  BY DEF Threads
<1>2. ASSUME NEW t \in Threads, Continue(t), Outside
      PROVE  Inv'
  BY <1>2, MadeKeeps, WatchKeeps, OnSettledKeeps, SettleKeeps, CallbackKeeps, ChainKeeps, ChainFailsKeeps,
     PartKeeps, PartFailsKeeps, CallBodyKeeps, HandleKeeps, BeginKeeps, BodyKeeps, GetKeeps DEF Continue
<1>3. ASSUME NEW t \in Threads, ChainContinue(t)
      PROVE  Inv'
  BY <1>2, <1>3, StoreKeeps DEF ChainContinue
<1>4. ASSUME NEW t \in Threads, NEW f \in Futures, InvokeAsync(t, f)
      PROVE  Inv'
  BY <1>4, InvokeAsyncKeeps
<1>5. ASSUME NEW t \in Callers, NEW f \in Futures \ Links, Create(t, f), Outside
      PROVE  Inv'
  BY <1>1, <1>5, CreateKeeps
<1>6. ASSUME NEW t \in Callers, NEW f \in Futures, Cancel(t, f), Outside
      PROVE  Inv'
  BY <1>1, <1>6, CancelKeeps
<1>7. ASSUME ChainWorkerRuns
      PROVE  Inv'
  <2>1. PICK t \in Workers, f \in queued : RunQueued(t, f)
    BY <1>7 DEF ChainWorkerRuns, WorkerRuns
  <2> QED BY <1>1, <1>7, <2>1, RunQueuedKeeps DEF ChainWorkerRuns
<1>8. CASE UNCHANGED chainVars
  BY <1>8, Stutter
<1> QED BY <1>3, <1>4, <1>5, <1>6, <1>7, <1>8 DEF ChainNext

\* The invariant holds in every state that a program of futures or a chain reaches.
THEOREM Invariance == ChainSafe => []Inv
PROOF BY InitInv, InvStep, PTL DEF ChainSafe

-----------------------------------------------------------------------------
(* What follows.                                                           *)

\* A future follows the futures it depends on, a body begins once and for the value it
\* takes, and an all that counted its last part holds them all (setResult, setException,
\* chainCall, when_all and join of vfuture.h).
THEOREM OutcomesFollow == ChainSafe => []OutcomeFollows
PROOF
<1>1. Inv => OutcomeFollows
  <2> SUFFICES ASSUME Inv
               PROVE  OutcomeFollows
    OBVIOUS
  <2>1. Shape /\ Members /\ Outcome /\ Parts /\ Bodies /\ stack \in Stacks
    BY DEF Inv
  <2>2. \A f \in Futures : Of(f) \in Seq(Nat) /\ DOMAIN Of(f) = 1 .. Len(Of(f)) /\ Len(Of(f)) \in Nat
    BY <2>1, Numbers
  <2>3. ASSUME NEW f \in Futures
        PROVE  /\ parts[f].remaining <= Len(Of(f)) /\ parts[f].values \subseteq DOMAIN Of(f)
               /\ Kind(f) = "all" /\ parts[f].remaining = 0 => parts[f].values = DOMAIN Of(f)
    <3>1. CASE Kind(f) # "all"
      BY <2>1, <2>2, <3>1 DEF Parts
    <3>2. CASE Kind(f) = "all"
      <4>1. parts[f].values \subseteq DOMAIN Of(f) /\ parts[f].remaining = Cardinality(DOMAIN Of(f) \ parts[f].values)
        BY <2>1, <3>2 DEF Parts
      <4>2. PICK n \in Nat : n = Len(Of(f))
        BY <2>2
      <4>3. IsFiniteSet(1 .. n) /\ Cardinality(1 .. n) = n
        <5>1. IsFiniteSet(1 .. n) /\ Cardinality(1 .. n) = IF 1 > n THEN 0 ELSE n - 1 + 1
          BY FS_Interval
        <5> QED BY <5>1
      <4>4. PICK S : S = DOMAIN Of(f) \ parts[f].values
        OBVIOUS
      <4>5. S \subseteq 1 .. n
        BY <2>2, <4>2, <4>4
      <4>6. IsFiniteSet(S) /\ Cardinality(S) <= n
        BY <4>3, <4>5, FS_Subset
      <4>7. Cardinality(S) = 0 => S = {}
        BY <4>6, FS_EmptySet
      <4> QED BY <4>1, <4>2, <4>4, <4>6, <4>7
    <3> QED BY <3>1, <3>2
  <2>4. \A t \in Threads : \A d \in DOMAIN stack[t] : stack[t][d].step \in Steps
    <3> SUFFICES ASSUME NEW t \in Threads, NEW d \in DOMAIN stack[t]
                 PROVE  stack[t][d].step \in Steps
      OBVIOUS
    <3>1. stack[t] \in Seq(CallSet)
      BY <2>1 DEF Stacks
    <3>2. stack[t][d] \in CallSet
      BY <3>1
    <3> QED BY <3>2 DEF CallSet
  <2>5. \A s \in Futures : \A k \in DOMAIN continuations[s] :
           \E f \in created : \E i \in DOMAIN Of(f) : continuations[s][k] = <<f, i>> /\ Of(f)[i] = s
    BY <2>1 DEF Parts
  <2>6. queued \cup dropped \cup {f \in Futures : begun[f] > 0} \subseteq hasStarted
    BY <2>1 DEF Members, Outcome
  <2>7. TypeOK
    BY <2>1, <2>3, <2>4, <2>5, <2>6 DEF TypeOK, Shape, Members, States
  <2>8. ASSUME NEW f \in Futures
        PROVE  /\ state[f] = "value" => \A s \in Sources(f) : state[s] = "value"
               /\ cause[f] \notin {0, f} => \E s \in Sources(f) : Fails(s, cause[f])
               /\ begun[f] > 0 => begun[f] = 1 /\ (Kind(f) = "then" => state[Of(f)[1]] = "value")
    <3>1. state[f] = "value" => \A s \in Sources(f) : state[s] = "value"
      BY <2>1 DEF Outcome, Valued
    <3>2. cause[f] \notin {0, f} => \E s \in Sources(f) : Fails(s, cause[f])
      BY <2>1 DEF Outcome, FailsOf
    <3>3. ASSUME begun[f] > 0
          PROVE  begun[f] = 1 /\ (Kind(f) = "then" => state[Of(f)[1]] = "value")
      <4>1. begun[f] \in 0 .. 1
        BY <2>1 DEF Members
      <4>2. f \in hasStarted /\ (Kind(f) = "then" => Valued(f))
        BY <2>1, <3>3 DEF Outcome
      <4>3. Kind(f) = "then" => Of(f)[1] \in Sources(f)
        <5> SUFFICES ASSUME Kind(f) = "then"
                     PROVE  Of(f)[1] \in Sources(f)
          OBVIOUS
        <5>1. Len(Of(f)) = 1 /\ \A i \in DOMAIN Of(f) : Of(f)[i] # 0
          BY <2>1 DEF Shape
        <5>2. 1 \in DOMAIN Of(f)
          BY <2>2, <5>1
        <5> QED BY <5>1, <5>2 DEF Sources
      <4> QED BY <3>3, <4>1, <4>2, <4>3 DEF Valued
    <3> QED BY <3>1, <3>2, <3>3
  <2> QED BY <2>3, <2>7, <2>8 DEF OutcomeFollows
<1> QED BY <1>1, Invariance, PTL

\* A registration that races the settlement is not forgotten (onSettled and setResult
\* of vfuture.h).
THEOREM NothingForgotten == ChainSafe => []NoneForgotten
PROOF
<1>1. Inv => NoneForgotten
  BY DEF Inv, Outcome, NoneForgotten
<1> QED BY <1>1, Invariance, PTL

-----------------------------------------------------------------------------
(* The links of a chain, when no invocation nests.                         *)

\* The step makes and takes no call that stores the tail.
Storeless(t) ==
    \E New \in Seq(CallSet), k \in {0, 1} :
        /\ Replaces(t, New, k) /\ \A d \in DOMAIN New : New[d].step # "store"
        /\ k = 1 => Head(stack[t]).step # "store"

LEMMA StoresStay ==
    ASSUME Inv, NEW t \in Threads, Storeless(t)
    PROVE  /\ One(stack, StoreCalls) => One(stack', StoreCalls)
           /\ \A c : c.step = "store" => (c \in InProgress(stack) <=> c \in InProgress(stack'))
PROOF
<1>1. PICK New \in Seq(CallSet), k \in {0, 1} :
        /\ Replaces(t, New, k) /\ \A d \in DOMAIN New : New[d].step # "store"
        /\ k = 1 => Head(stack[t]).step # "store"
  BY DEF Storeless
<1>2. stack \in Stacks /\ (k = 1 => stack[t] # <<>>)
  BY <1>1 DEF Inv, Replaces
<1>3. Moved(t, New, k)
  BY <1>1, <1>2, ReplacingMoves
<1> DEFINE K == StoreCalls
<1>4. \A d \in DOMAIN New : New[d] \notin K
  BY <1>1 DEF StoreCalls
<1> HIDE DEF K
<1>5. One(stack, K) => One(stack', K)
  BY <1>2, <1>3, <1>4, NoneMade
<1>6. /\ \A c \in InProgress(stack') : c \in InProgress(stack) \/ \E d \in DOMAIN New : c = New[d]
      /\ \A c \in InProgress(stack) : c \in InProgress(stack') \/ (k = 1 /\ c = Head(stack[t]))
  BY <1>2, <1>3, MovedCalls
<1> QED BY <1>1, <1>5, <1>6 DEF K

\* A call that takes the place of another is one too.
LEMMA Storing ==
    ASSUME Inv, Inv', NEW t \in Threads, stack[t] # <<>>, Head(stack[t]).step # "store"
    PROVE  /\ Return(t) => Storeless(t)
           /\ \A x : Become(t, <<x>>) /\ x.step # "store" => Storeless(t)
           /\ \A x, y : Become(t, <<x, y>>) /\ x.step # "store" /\ y.step # "store" => Storeless(t)
PROOF
<1>1. stack[t] \in Seq(CallSet) /\ stack'[t] \in Seq(CallSet) /\ stack \in [Threads -> Seq(CallSet)]
  BY DEF Inv, Stacks
<1>2. PICK rest : rest = Tail(stack[t])
  OBVIOUS
<1>3. rest \in Seq(CallSet)
  BY <1>1, <1>2
<1>4. ASSUME NEW New \in Seq(CallSet), Become(t, New), \A d \in DOMAIN New : New[d].step # "store"
      PROVE  Storeless(t)
  BY <1>4 DEF Storeless, Replaces, Become
<1>5. Return(t) => Storeless(t)
  <2> DEFINE New == <<>>
  <2>1. New \in Seq(CallSet) /\ DOMAIN New = {} /\ (Return(t) => Become(t, New))
    BY DEF Return
  <2> HIDE DEF New
  <2> QED BY <1>4, <2>1
<1>6. ASSUME NEW x, Become(t, <<x>>), x.step # "store"
      PROVE  Storeless(t)
  <2> DEFINE S == CallSet \cup {x}
             New == <<x>>
  <2>1. New \in Seq(S) /\ rest \in Seq(S) /\ Len(New) = 1 /\ New[1] = x /\ DOMAIN New = {1}
    BY <1>3
  <2>2. stack'[t] = New \o rest /\ Become(t, New)
    BY <1>1, <1>2, <1>6 DEF Become
  <2> HIDE DEF S, New
  <2>3. Len(New \o rest) = 1 + Len(rest) /\ (New \o rest)[1] = x /\ Len(rest) \in Nat
    BY <2>1, ConcatProperties
  <2>4. stack'[t][1] = x /\ 1 \in DOMAIN stack'[t]
    BY <1>1, <2>2, <2>3
  <2>5. x \in CallSet
    BY <1>1, <2>4
  <2>6. New \in Seq(CallSet)
    BY <2>5 DEF New
  <2> QED BY <1>4, <1>6, <2>1, <2>2, <2>6
<1>7. ASSUME NEW x, NEW y, Become(t, <<x, y>>), x.step # "store", y.step # "store"
      PROVE  Storeless(t)
  <2> DEFINE S == CallSet \cup {x, y}
             New == <<x, y>>
  <2>1. New \in Seq(S) /\ rest \in Seq(S) /\ Len(New) = 2 /\ New[1] = x /\ New[2] = y /\ DOMAIN New = {1, 2}
    BY <1>3
  <2>2. stack'[t] = New \o rest /\ Become(t, New)
    BY <1>1, <1>2, <1>7 DEF Become
  <2> HIDE DEF S, New
  <2>3. Len(New \o rest) = 2 + Len(rest) /\ (New \o rest)[1] = x /\ (New \o rest)[2] = y /\ Len(rest) \in Nat
    <3>1. New \in Seq(S) /\ rest \in Seq(S)
      BY <2>1
    <3>2. Len(New \o rest) = Len(New) + Len(rest) /\ Len(rest) \in Nat
      BY <3>1
    <3>3. \A d \in 1 .. Len(New) : (New \o rest)[d] = New[d]
      BY <3>1
    <3> QED BY <2>1, <3>2, <3>3
  <2>4. stack'[t][1] = x /\ stack'[t][2] = y /\ 1 \in DOMAIN stack'[t] /\ 2 \in DOMAIN stack'[t]
    BY <1>1, <2>2, <2>3
  <2>5. x \in CallSet /\ y \in CallSet
    BY <1>1, <2>4
  <2>6. New \in Seq(CallSet)
    BY <2>5 DEF New
  <2> QED BY <1>4, <1>7, <2>1, <2>2, <2>6
<1> QED BY <1>5, <1>6, <1>7

\* Only a thread that stores the tail takes such a call.
LEMMA ContinuesStoreless ==
    ASSUME Inv, Inv', NEW t \in Threads, Continue(t)
    PROVE  Storeless(t)
PROOF
<1>1. /\ stack[t] # <<>> /\ Top(t) = Head(stack[t])
      /\ Top(t).step \in Steps \ {"store"}
  BY DEF Continue, Made, Watch, OnSettled, Settle, Callback, Chain, ChainFails, Part, PartFails, CallBody,
         Handle, Begin, Body, Get, In, Top, Steps
<1>2. /\ Return(t) => Storeless(t)
      /\ \A x : Become(t, <<x>>) /\ x.step # "store" => Storeless(t)
      /\ \A x, y : Become(t, <<x, y>>) /\ x.step # "store" /\ y.step # "store" => Storeless(t)
  BY <1>1, Storing
<1>3. ASSUME NEW step, NEW f, NEW i, NEW s, NEW c, step # "store", Become(t, <<Call(step, f, i, s, c)>>)
      PROVE  Storeless(t)
  <2>1. Call(step, f, i, s, c).step # "store"
    BY <1>3 DEF Call
  <2> QED BY <1>2, <1>3, <2>1
<1>4. ASSUME NEW step, NEW f, NEW i, step # "store", Become(t, <<At(step, f, i)>>)
      PROVE  Storeless(t)
  BY <1>3, <1>4 DEF At
<1>5. CASE Made(t)
  BY <1>2, <1>5 DEF Made
<1>6. CASE Watch(t)
  <2>1. PICK f : f = Top(t).fut
    OBVIOUS
  <2>2. PICK i : i = Top(t).part
    OBVIOUS
  <2>3. Become(t, CASE Of(f) = <<>> -> <<Call("settle", f, 0, "value", 0)>>
                    [] Of(f) # <<>> /\ i > Len(Of(f)) -> <<>>
                    [] i \in DOMAIN Of(f) /\ Of(f)[i] = 0 -> <<Call("settle", f, 0, "exception", f)>>
                    [] OTHER -> <<At("onSettled", f, i), At("watch", f, i + 1)>>)
    BY <1>6, <2>1, <2>2 DEF Watch
  <2>4. CASE Of(f) = <<>>
    <3>1. ~(i \in DOMAIN Of(f))
      BY <2>4
    <3>2. Become(t, <<Call("settle", f, 0, "value", 0)>>)
      BY <2>3, <2>4, <3>1
    <3> QED BY <1>3, <3>2
  <2>5. CASE Of(f) # <<>> /\ i > Len(Of(f))
    <3>1. ~(i \in DOMAIN Of(f))
      <4>1. Good(Top(t)) /\ Shape /\ Members
        BY <1>1, Acting
      <4>2. f \in Futures
        BY <2>1, <4>1 DEF Good, Members
      <4>3. DOMAIN Of(f) = 1 .. Len(Of(f)) /\ Len(Of(f)) \in Nat
        BY <4>1, <4>2, Numbers
      <4> QED BY <2>5, <4>3
    <3>2. Become(t, <<>>)
      BY <2>3, <2>5, <3>1
    <3> QED BY <1>2, <3>2 DEF Return
  <2>6. CASE Of(f) # <<>> /\ ~(i > Len(Of(f))) /\ i \in DOMAIN Of(f) /\ Of(f)[i] = 0
    <3>1. Become(t, <<Call("settle", f, 0, "exception", f)>>)
      BY <2>3, <2>6
    <3> QED BY <1>3, <3>1
  <2>7. CASE Of(f) # <<>> /\ ~(i > Len(Of(f))) /\ ~(i \in DOMAIN Of(f) /\ Of(f)[i] = 0)
    <3>1. Become(t, <<At("onSettled", f, i), At("watch", f, i + 1)>>)
      BY <2>3, <2>7
    <3>2. At("onSettled", f, i).step # "store" /\ At("watch", f, i + 1).step # "store"
      BY DEF At, Call
    <3> QED BY <1>2, <3>1, <3>2
  <2> QED BY <2>4, <2>5, <2>6, <2>7
<1>7. CASE OnSettled(t)
  BY <1>2, <1>3, <1>7 DEF OnSettled
<1>8. CASE Settle(t)
  <2>1. CASE Return(t)
    BY <1>2, <2>1
  <2>2. ASSUME NEW r, NEW c, Become(t, Told(Top(t).fut, r, c))
        PROVE  Storeless(t)
    <3>1. PICK f : f = Top(t).fut
      OBVIOUS
    <3>2. PICK old : old = continuations[f]
      OBVIOUS
    <3> DEFINE New == [k \in DOMAIN old |-> Call("callback", old[k][1], old[k][2], r, c)]
               S == {New[k] : k \in DOMAIN old}
    <3>3. Become(t, New)
      BY <2>2, <3>1, <3>2 DEF Told
    <3>4. old \in Seq(Nat \X Nat) /\ DOMAIN old = 1 .. Len(old) /\ Len(old) \in Nat
      BY <1>1, <3>1, <3>2, Acting DEF Good, Members
    <3>5. DOMAIN New = DOMAIN old /\ \A d \in DOMAIN New : New[d].step # "store" /\ New[d] \in S
      BY DEF Call
    <3>6. stack[t] \in Seq(CallSet) /\ stack'[t] \in Seq(CallSet) /\ stack \in [Threads -> Seq(CallSet)]
      BY DEF Inv, Stacks
    <3>7. PICK rest : rest = Tail(stack[t])
      OBVIOUS
    <3>8. rest \in Seq(CallSet) /\ stack'[t] = New \o rest
      <4> HIDE DEF New
      <4> QED BY <1>1, <3>3, <3>6, <3>7 DEF Become
    <3>9. New \in Seq(CallSet \cup S) /\ rest \in Seq(CallSet \cup S) /\ Len(New) = Len(old)
      <4>1. New \in [1 .. Len(old) -> CallSet \cup S]
        <5>1. \A d \in DOMAIN old : New[d] \in CallSet \cup S
          OBVIOUS
        <5> QED BY <3>4, <5>1
      <4>2. Seq(CallSet \cup S) = UNION {[1 .. n -> CallSet \cup S] : n \in Nat}
        BY SeqDef
      <4>3. DOMAIN New = 1 .. Len(old)
        BY <3>4
      <4> HIDE DEF New, S
      <4>4. New \in Seq(CallSet \cup S)
        BY <3>4, <4>1, <4>2
      <4> QED BY <3>4, <3>8, <4>3, <4>4
    <3> HIDE DEF New, S
    <3>10. \A d \in DOMAIN New : New[d] \in CallSet
      <4> SUFFICES ASSUME NEW d \in DOMAIN New
                   PROVE  New[d] \in CallSet
        OBVIOUS
      <4>1. d \in 1 .. Len(New) /\ Len(New) \in Nat /\ Len(rest) \in Nat
        BY <3>4, <3>5, <3>9
      <4>2. (New \o rest)[d] = New[d] /\ Len(New \o rest) = Len(New) + Len(rest)
        <5> DEFINE T == CallSet \cup S
        <5>1. New \in Seq(T) /\ rest \in Seq(T)
          BY <3>9
        <5> HIDE DEF T
        <5>2. Len(New \o rest) = Len(New) + Len(rest)
          BY <5>1
        <5>3. \A e \in 1 .. Len(New) : (New \o rest)[e] = New[e]
          BY <5>1
        <5> QED BY <4>1, <5>2, <5>3
      <4>3. d \in DOMAIN stack'[t] /\ stack'[t][d] = New[d]
        BY <3>6, <3>8, <4>1, <4>2
      <4> QED BY <3>6, <4>3
    <3>11. New \in Seq(CallSet)
      <4>1. New \in [1 .. Len(old) -> CallSet]
        <5>1. New = [k \in 1 .. Len(old) |-> New[k]]
          BY <3>4 DEF New
        <5>2. \A d \in 1 .. Len(old) : New[d] \in CallSet
          BY <3>4, <3>5, <3>10
        <5> QED BY <5>1, <5>2
      <4>2. Seq(CallSet) = UNION {[1 .. n -> CallSet] : n \in Nat}
        BY SeqDef
      <4> QED BY <3>4, <4>1, <4>2
    <3> QED BY <1>1, <3>3, <3>5, <3>11 DEF Storeless, Replaces, Become
  <2> QED BY <1>8, <2>1, <2>2 DEF Settle
<1>9. CASE Callback(t)
  BY <1>3, <1>4, <1>9 DEF Callback
<1>10. CASE Chain(t) \/ ChainFails(t)
  BY <1>3, <1>4, <1>10 DEF Chain, ChainFails, PassesOn
<1>11. CASE Part(t) \/ PartFails(t)
  BY <1>2, <1>3, <1>11 DEF Part, PartFails
<1>12. CASE CallBody(t)
  BY <1>2, <1>4, <1>12 DEF CallBody
<1>13. CASE Handle(t)
  BY <1>2, <1>3, <1>4, <1>13 DEF Handle
<1>14. CASE Begin(t) \/ Body(t)
  BY <1>3, <1>4, <1>14 DEF Begin, Body
<1>15. CASE Get(t)
  BY <1>3, <1>4, <1>15 DEF Get
<1> QED BY <1>5, <1>6, <1>7, <1>8, <1>9, <1>10, <1>11, <1>12, <1>13, <1>14, <1>15 DEF Continue

\* Numbers of links.
LEMMA LinkNumbers ==
    ASSUME Shape, Members
    PROVE  /\ tail \in Nat /\ tail >= 1 /\ (IsChain => Futures \ Links = {1})
           /\ \A f \in Links : IsChain /\ f \in Futures /\ f \in Nat /\ f >= 2
           /\ IsChain => \A f \in Futures : f # 1 => f \in Links
           /\ \A f \in Links : \A g \in Nat : 2 <= g /\ g < f => g \in Links
PROOF
<1>1. Futures = 1 .. Len(plan) /\ Len(plan) \in Nat /\ tail \in Futures
  BY Numbers DEF Members
<1>2. 1 \in Futures
  BY <1>1
<1>3. \A f \in Links : IsChain /\ f \in Futures /\ f # 1
  BY DEF Links
<1>4. IsChain => \A f \in Futures : f # 1 => f \in Links
  BY DEF Links
<1>5. IsChain => Futures \ Links = {1}
  BY <1>2 DEF Links
<1>6. ASSUME NEW f \in Links, NEW g \in Nat, 2 <= g, g < f
      PROVE  g \in Links
  <2>1. g \in Futures /\ g # 1
    BY <1>1, <1>3, <1>6
  <2> QED BY <1>3, <1>4, <2>1
<1> QED BY <1>1, <1>3, <1>4, <1>5, <1>6

\* A step that leaves the links as they are, and gives a value only to a future whose
\* sources have one.
LEMMA LinkedKept ==
    ASSUME Inv, Linked, NEW t \in Threads, Storeless(t), UNCHANGED <<plan, tail, nested>>,
           created \subseteq created', created' \subseteq created \cup (Futures \ Links),
           \A f \in Futures : state[f] = "value" => state'[f] = "value",
           \A f \in Futures : state'[f] = "value" => state[f] = "value" \/ Valued(f)
    PROVE  Linked'
PROOF
<1>1. /\ Futures' = Futures /\ Links' = Links /\ (IsChain' <=> IsChain)
      /\ \A f \in Futures : Of(f)' = Of(f)
  BY DEF Futures, Links, IsChain, Kind, Of
<1> SUFFICES ASSUME IsChain, nested = {}
             PROVE  Linked'
  BY <1>1 DEF Linked
<1>2. /\ One(stack, StoreCalls)
      /\ \A f \in created \cap Links : Of(f) = <<f - 1>>
      /\ \A c \in InProgress(stack) : c.step = "store" => c.fut = tail + 1
      /\ \A f \in created : f <= tail \/ \E c \in InProgress(stack) : c.step = "store" /\ c.fut = f
      /\ tail # 1 => tail \in created
      /\ \A f \in created \cap Links : \A g \in Links :
            g < f => g \in created /\ (state[f] = "value" => state[g] = "value")
  BY DEF Linked
<1>3. /\ One(stack', StoreCalls)
      /\ \A c : c.step = "store" => (c \in InProgress(stack) <=> c \in InProgress(stack'))
  BY <1>2, StoresStay
<1>4. /\ tail \in Nat /\ tail >= 1 /\ Futures \ Links = {1}
      /\ \A f \in Links : f \in Futures /\ f \in Nat /\ f >= 2
      /\ \A f \in Links : \A g \in Nat : 2 <= g /\ g < f => g \in Links
  BY LinkNumbers DEF Inv
<1>5. created' \cap Links = created \cap Links
  BY <1>4
<1>6. ASSUME NEW f \in created \cap Links, NEW g \in Links, g < f
      PROVE  g \in created' /\ (state'[f] = "value" => state'[g] = "value")
  <2>1. g \in created /\ (state[f] = "value" => state[g] = "value")
    BY <1>2, <1>6
  <2>2. ASSUME Valued(f)
        PROVE  state[g] = "value"
    <3>1. Of(f) = <<f - 1>> /\ f - 1 # 0 /\ f - 1 \in Nat
      BY <1>2, <1>4
    <3>2. f - 1 \in Sources(f)
      <4>1. PICK p : p = f - 1
        OBVIOUS
      <4>2. Of(f) = <<p>> /\ p # 0
        BY <3>1, <4>1
      <4>3. 1 \in DOMAIN Of(f) /\ Of(f)[1] = p
        BY <4>2
      <4> QED BY <4>1, <4>2, <4>3 DEF Sources
    <3>3. state[f - 1] = "value"
      BY <2>2, <3>2 DEF Valued
    <3>4. CASE g = f - 1
      BY <3>3, <3>4
    <3>5. CASE g < f - 1
      <4>1. f - 1 \in Links
        BY <1>4, <1>6, <3>1, <3>5
      <4>2. f - 1 \in created
        BY <1>2, <1>4, <4>1
      <4> QED BY <1>2, <3>3, <3>5, <4>1, <4>2
    <3> QED BY <1>4, <1>6, <3>4, <3>5
  <2> QED BY <1>4, <2>1, <2>2
<1>7. \A f \in created' : f <= tail \/ \E c \in InProgress(stack') : c.step = "store" /\ c.fut = f
  BY <1>2, <1>3, <1>4
<1>8. \A f \in created' \cap Links : Of(f)' = <<f - 1>>
  BY <1>1, <1>2, <1>4, <1>5
<1>9. \A c \in InProgress(stack') : c.step = "store" => c.fut = tail' + 1
  BY <1>2, <1>3
<1>10. \A f \in created' \cap Links' : \A g \in Links' :
          g < f => g \in created' /\ (state'[f] = "value" => state'[g] = "value")
  BY <1>1, <1>5, <1>6
<1> QED BY <1>1, <1>2, <1>3, <1>5, <1>7, <1>8, <1>9, <1>10 DEF Linked, One, StoreCalls, InProgress

\* Storing the tail: the link that was invoked is the last.
LEMMA StoreLinked ==
    ASSUME Inv, Inv', Linked, NEW t \in Threads, Store(t)
    PROVE  Linked'
PROOF
<1>1. /\ UNCHANGED <<plan, created, state, nested>> /\ tail' = Top(t).fut /\ stack[t] # <<>>
      /\ Top(t).step = "store" /\ Top(t) = Head(stack[t])
      /\ Futures' = Futures /\ Links' = Links /\ (IsChain' <=> IsChain)
      /\ \A f \in Futures : Of(f)' = Of(f)
  BY DEF Store, In, Top, Futures, Links, IsChain, Kind, Of, ccall
<1> SUFFICES ASSUME IsChain, nested = {}
             PROVE  Linked'
  BY <1>1 DEF Linked
<1>2. /\ One(stack, StoreCalls)
      /\ \A f \in created \cap Links : Of(f) = <<f - 1>>
      /\ \A c \in InProgress(stack) : c.step = "store" => c.fut = tail + 1
      /\ \A f \in created : f <= tail \/ \E c \in InProgress(stack) : c.step = "store" /\ c.fut = f
      /\ \A f \in created \cap Links : \A g \in Links :
            g < f => g \in created /\ (state[f] = "value" => state[g] = "value")
  BY DEF Linked
<1>3. Top(t) \in CallSet /\ Top(t) \in InProgress(stack) /\ Top(t).fut \in created /\ stack \in Stacks /\ stack' \in Stacks
  BY <1>1, Acting DEF Good, Inv
<1>4. tail' = tail + 1 /\ tail' \in created /\ tail \in Nat
  BY <1>1, <1>2, <1>3, LinkNumbers DEF Inv
<1>5. None(stack', StoreCalls) /\ One(stack', StoreCalls)
  <2> DEFINE New == <<>>
             K == StoreCalls
  <2>1. New \in Seq(CallSet) /\ DOMAIN New = {} /\ Replaces(t, New, 1)
    BY <1>1 DEF Store, Return, Become, Replaces
  <2>2. Head(stack[t]) \in K /\ One(stack, K)
    BY <1>1, <1>2, <1>3 DEF StoreCalls
  <2> HIDE DEF New, K
  <2>3. Moved(t, New, 1)
    BY <1>3, <2>1, ReplacingMoves
  <2>4. None(stack', K) /\ One(stack', K)
    BY <1>1, <1>3, <2>1, <2>2, <2>3, NoneMade
  <2> QED BY <2>4 DEF K
<1>6. ASSUME NEW c \in InProgress(stack')
      PROVE  c.step # "store"
  <2>1. PICK u \in Threads : c \in {stack'[u][d] : d \in DOMAIN stack'[u]}
    BY <1>6 DEF InProgress
  <2>2. PICK d \in DOMAIN stack'[u] : c = stack'[u][d]
    BY <2>1
  <2>3. stack'[u] \in Seq(CallSet)
    BY <1>3 DEF Stacks
  <2>4. c \in CallSet
    BY <2>2, <2>3
  <2> QED BY <1>5, <1>6, <2>4 DEF None, StoreCalls
<1>7. ASSUME NEW f \in created
      PROVE  f <= tail'
  <2>1. f \in Nat
    BY Numbers DEF Inv, Members
  <2>2. CASE f <= tail
    BY <1>4, <2>1, <2>2
  <2>3. CASE \E c \in InProgress(stack) : c.step = "store" /\ c.fut = f
    BY <1>2, <1>4, <2>1, <2>3
  <2> QED BY <1>2, <2>2, <2>3
<1>8. \A f \in created \cap Links : Of(f)' = <<f - 1>>
  BY <1>1, <1>2, LinkNumbers DEF Inv
<1> QED BY <1>1, <1>2, <1>4, <1>5, <1>6, <1>7, <1>8 DEF Linked, One, StoreCalls, InProgress

\* An invocation that does not nest waits for the link that was invoked last.
LEMMA InvokeLinked ==
    ASSUME Inv, Inv', Linked, NEW t \in Threads, NEW f \in Futures, InvokeAsync(t, f)
    PROVE  Linked'
PROOF
<1>1. f \in Links /\ f \notin created /\ f - 1 \in created /\ created' = created \cup {f}
      /\ UNCHANGED <<state, tail>> /\ MayLock(t) /\ plan' = [plan EXCEPT ![f].of = <<tail>>]
  BY DEF InvokeAsync, ccall
<1>2. Shape /\ Members /\ Outcome /\ stack \in Stacks /\ stack' \in Stacks
  BY DEF Inv
<1>3. /\ tail \in Nat /\ tail >= 1 /\ IsChain /\ f \in Nat /\ f >= 2
      /\ \A g \in Links : g \in Futures /\ g \in Nat /\ g >= 2
      /\ \A g \in Futures : g # 1 => g \in Links
      /\ \A g \in Links : \A h \in Nat : 2 <= h /\ h < g => h \in Links
  BY <1>1, <1>2, LinkNumbers
<1>4. /\ Futures' = Futures /\ \A g \in Futures : Kind(g)' = Kind(g) /\ (g # f => Of(g)' = Of(g))
      /\ Of(f)' = <<tail>>
  <2>1. plan \in Seq([kind : Kinds, of : Seq(Nat)])
    BY <1>2 DEF Shape
  <2> DEFINE R == [kind : Kinds, of : Seq(Nat)]
  <2>2. plan[f] \in R
    <3>1. plan \in Seq(R)
      BY <2>1
    <3> HIDE DEF R
    <3> QED BY <3>1 DEF Futures
  <2>3. PICK new : new = [plan[f] EXCEPT !.of = <<tail>>]
    OBVIOUS
  <2>4. new.kind = plan[f].kind /\ new.of = <<tail>>
    BY <2>2, <2>3
  <2>5. plan' = [plan EXCEPT ![f] = new]
    BY <1>1, <2>3
  <2>6. DOMAIN plan' = DOMAIN plan /\ plan'[f] = new /\ \A g \in Futures : g # f => plan'[g] = plan[g]
    BY <2>5 DEF Futures
  <2> QED BY <2>4, <2>6 DEF Futures, Kind, Of
<1>5. 1 \in Futures /\ (IsChain' <=> IsChain) /\ Links' = Links
  <2>1. 1 \in Futures
    BY <1>2, Numbers DEF Shape
  <2> QED BY <1>4, <2>1 DEF IsChain, Links
<1> SUFFICES ASSUME nested' = {}
             PROVE  Linked'
  BY DEF Linked
<1>6. nested = {} /\ ~Locked(t)
  BY DEF InvokeAsync
<1>7. /\ \A g \in created \cap Links : Of(g) = <<g - 1>>
      /\ \A g \in created : g <= tail \/ \E c \in InProgress(stack) : c.step = "store" /\ c.fut = g
      /\ tail # 1 => tail \in created
      /\ \A g \in created \cap Links : \A h \in Links :
            h < g => h \in created /\ (state[g] = "value" => state[h] = "value")
  BY <1>3, <1>6 DEF Linked
<1>8. ASSUME NEW c \in InProgress(stack)
      PROVE  c.step # "store"
  <2> SUFFICES ASSUME c.step = "store"
               PROVE  FALSE
    OBVIOUS
  <2>1. PICK u \in Threads : c \in {stack[u][d] : d \in DOMAIN stack[u]}
    BY <1>8 DEF InProgress
  <2>2. PICK d \in DOMAIN stack[u] : c = stack[u][d]
    BY <2>1
  <2>3. c = At("store", c.fut, 0) /\ c.fut \in Links
    BY <1>8 DEF Inv, Good
  <2>4. Locked(u)
    BY <2>2, <2>3 DEF Locked, Invokes
  <2> QED BY <1>1, <1>6, <2>4 DEF MayLock
<1>9. tail = f - 1
  <2>1. f - 1 <= tail
    BY <1>1, <1>7, <1>8
  <2>2. ~(tail >= f)
    <3> SUFFICES ASSUME tail >= f
                 PROVE  FALSE
      OBVIOUS
    <3>1. tail # 1 /\ tail \in created /\ tail \in Links
      <4>1. tail # 1
        BY <1>3
      <4> QED BY <1>2, <1>3, <1>7, <4>1 DEF Members
    <3>2. tail # f /\ f < tail
      BY <1>1, <1>3, <3>1
    <3> QED BY <1>1, <1>7, <3>1, <3>2
  <2> QED BY <1>3, <2>1, <2>2
<1>10. PICK a : a = At("onSettled", f, 1)
  OBVIOUS
<1>11. PICK b : b = At("store", f, 0)
  OBVIOUS
<1>12. a \in CallSet /\ a.step = "onSettled"
  BY <1>3, <1>10 DEF At, Call, CallSet, Steps, States
<1>13. b \in CallSet /\ b.step = "store" /\ b.fut = f
  BY <1>3, <1>11 DEF At, Call, CallSet, Steps, States
<1> DEFINE New == <<a, b>>
           K == StoreCalls
<1>14. New \in Seq(CallSet) /\ DOMAIN New = {1, 2} /\ New[1] = a /\ New[2] = b
  BY <1>12, <1>13
<1>15. Replaces(t, New, 0)
  BY <1>10, <1>11 DEF InvokeAsync, Replaces
<1> HIDE DEF New
<1>16. Moved(t, New, 0)
  BY <1>2, <1>14, <1>15, ReplacingMoves
<1>17. One(stack', StoreCalls)
  <2>1. None(stack, K) /\ One(stack, K)
    BY <1>8 DEF None, StoreCalls, One, InProgress
  <2>2. \A d, e \in DOMAIN New : New[d] \in K /\ New[e] \in K => d = e
    BY <1>12, <1>14 DEF StoreCalls
  <2> HIDE DEF K
  <2>3. One(stack', K)
    BY <1>2, <1>14, <1>16, <2>1, <2>2, OneMade
  <2> QED BY <2>3 DEF K
<1>18. /\ \A c \in InProgress(stack') : c.step = "store" => c = b
       /\ b \in InProgress(stack')
  <2>1. /\ \A c \in InProgress(stack') : c \in InProgress(stack) \/ \E d \in DOMAIN New : c = New[d]
        /\ \A d \in DOMAIN New : New[d] \in InProgress(stack')
    BY <1>2, <1>14, <1>16, MovedCalls
  <2> QED BY <1>8, <1>12, <1>14, <2>1
<1>19. ASSUME NEW g \in created' \cap Links
       PROVE  Of(g)' = <<g - 1>>
  <2>1. CASE g = f
    BY <1>4, <1>9, <2>1
  <2>2. CASE g # f
    <3>1. g \in created \cap Links /\ g \in Futures
      BY <1>1, <1>3, <2>2
    <3> QED BY <1>4, <1>7, <2>2, <3>1
  <2> QED BY <2>1, <2>2
<1>20. \A c \in InProgress(stack') : c.step = "store" => c.fut = tail' + 1
  BY <1>1, <1>3, <1>9, <1>13, <1>18
<1>21. \A g \in created' : g <= tail' \/ \E c \in InProgress(stack') : c.step = "store" /\ c.fut = g
  BY <1>1, <1>7, <1>8, <1>13, <1>18
<1>22. tail' # 1 => tail' \in created'
  BY <1>1, <1>7
<1>23. ASSUME NEW g \in created' \cap Links, NEW h \in Links, h < g
       PROVE  h \in created' /\ (state'[g] = "value" => state'[h] = "value")
  <2>1. CASE g # f
    BY <1>1, <1>7, <1>23, <2>1
  <2>2. CASE g = f
    <3>1. state[f] # "value"
      BY <1>1, <1>2 DEF Outcome, Pending
    <3>2. CASE h = f - 1
      BY <1>1, <2>2, <3>1, <3>2
    <3>3. CASE h < f - 1
      <4>1. f - 1 \in Links
        BY <1>1, <1>3, <3>3
      <4> QED BY <1>1, <1>7, <2>2, <3>1, <3>3, <4>1
    <3> QED BY <1>3, <1>23, <2>2, <3>2, <3>3
  <2> QED BY <2>1, <2>2
<1> QED BY <1>5, <1>17, <1>19, <1>20, <1>21, <1>22, <1>23 DEF Linked, One, StoreCalls, InProgress

\* The first calls of an idle thread store no tail.
LEMMA StartsStoreless ==
    ASSUME Inv, Inv', NEW t \in Threads, stack[t] = <<>>
    PROVE  /\ \A x : stack' = [stack EXCEPT ![t] = <<x>>] /\ x.step # "store" => Storeless(t)
           /\ \A x, y : stack' = [stack EXCEPT ![t] = <<x, y>>] /\ x.step # "store" /\ y.step # "store" => Storeless(t)
PROOF
<1>1. stack'[t] \in Seq(CallSet) /\ stack \in Stacks /\ stack \in [Threads -> Seq(CallSet)]
  BY DEF Inv, Stacks
<1>2. ASSUME NEW New \in Seq(CallSet), stack' = [stack EXCEPT ![t] = New], \A d \in DOMAIN New : New[d].step # "store"
      PROVE  Storeless(t)
  <2>1. Replaces(t, New, 0)
    BY <1>1, <1>2, FromIdle
  <2> QED BY <1>2, <2>1 DEF Storeless
<1>3. ASSUME NEW x, stack' = [stack EXCEPT ![t] = <<x>>], x.step # "store"
      PROVE  Storeless(t)
  <2> DEFINE New == <<x>>
  <2>1. stack' = [stack EXCEPT ![t] = New] /\ DOMAIN New = {1} /\ New[1] = x
    BY <1>3
  <2> HIDE DEF New
  <2>2. New \in Seq(CallSet)
    BY <1>1, <2>1
  <2> QED BY <1>2, <1>3, <2>1, <2>2
<1>4. ASSUME NEW x, NEW y, stack' = [stack EXCEPT ![t] = <<x, y>>], x.step # "store", y.step # "store"
      PROVE  Storeless(t)
  <2> DEFINE New == <<x, y>>
  <2>1. stack' = [stack EXCEPT ![t] = New] /\ DOMAIN New = {1, 2} /\ New[1] = x /\ New[2] = y
    BY <1>4
  <2> HIDE DEF New
  <2>2. New \in Seq(CallSet)
    BY <1>1, <2>1
  <2> QED BY <1>2, <1>4, <2>1, <2>2
<1> QED BY <1>3, <1>4

\* Only settling gives values.
LEMMA ValuesFollow ==
    ASSUME Inv, NEW t \in Threads, Continue(t)
    PROVE  /\ UNCHANGED <<plan, created>>
           /\ \A f \in Futures : state[f] = "value" => state'[f] = "value"
           /\ \A f \in Futures : state'[f] = "value" => state[f] = "value" \/ Valued(f)
PROOF
<1>1. UNCHANGED <<plan, created>>
  BY DEF Continue, Made, Watch, OnSettled, Settle, Callback, Chain, ChainFails, Part, PartFails, CallBody,
         Handle, Begin, Body, Get
<1>2. ASSUME Settle(t)
      PROVE  /\ \A f \in Futures : state[f] = "value" => state'[f] = "value"
             /\ \A f \in Futures : state'[f] = "value" => state[f] = "value" \/ Valued(f)
  <2>1. PICK f : f = Top(t).fut
    OBVIOUS
  <2>2. /\ f \in Futures /\ state \in [Futures -> States]
        /\ Top(t).state = "value" => Valued(f)
    BY <1>2, <2>1, Acting DEF Good, Members, Settle, In
  <2>3. CASE UNCHANGED ccall
    BY <2>3 DEF ccall
  <2>4. CASE MaySettle(f) /\ \E o \in Outcomes(f, Top(t).state, Top(t).cause) : state' = [state EXCEPT ![f] = o[1]]
    <3>1. PICK o \in Outcomes(f, Top(t).state, Top(t).cause) : state' = [state EXCEPT ![f] = o[1]]
      BY <2>4
    <3>2. o[1] = "value" => Top(t).state = "value"
      BY <3>1 DEF Outcomes
    <3> QED BY <2>2, <2>4, <3>1, <3>2 DEF MaySettle, Pending
  <2> QED BY <1>2, <2>1, <2>3, <2>4 DEF Settle
<1>3. Settle(t) \/ state' = state
  BY DEF Continue, Made, Watch, OnSettled, Callback, Chain, ChainFails, Part, PartFails, CallBody,
         Handle, Begin, Body, Get, ccall
<1> QED BY <1>1, <1>2, <1>3

LEMMA LinkedInit == ChainInit => Linked
PROOF
<1> SUFFICES ASSUME ChainInit
             PROVE  Linked
  OBVIOUS
<1>1. created = {} /\ tail = 1 /\ \A t \in Threads : stack[t] = <<>>
  BY DEF ChainInit, Init
<1>2. InProgress(stack) = {} /\ \A t \in Threads : DOMAIN stack[t] = {}
  <2>1. \A t \in Threads : DOMAIN stack[t] = {}
    BY <1>1
  <2> QED BY <2>1 DEF InProgress
<1> QED BY <1>1, <1>2 DEF Linked, One

LEMMA LinkedStep == Inv /\ Inv' /\ Linked /\ [ChainNext]_chainVars => Linked'
PROOF
<1> SUFFICES ASSUME Inv, Inv', Linked, [ChainNext]_chainVars
             PROVE  Linked'
  OBVIOUS
<1>1. Callers \subseteq Threads /\ Workers \subseteq Threads
  BY DEF Threads
<1>2. ASSUME NEW t \in Threads, Continue(t), Outside
      PROVE  Linked'
  <2>1. Storeless(t)
    BY <1>2, ContinuesStoreless
  <2>2. /\ UNCHANGED <<plan, created>>
        /\ \A f \in Futures : state[f] = "value" => state'[f] = "value"
        /\ \A f \in Futures : state'[f] = "value" => state[f] = "value" \/ Valued(f)
    BY <1>2, ValuesFollow
  <2> QED BY <1>2, <2>1, <2>2, LinkedKept DEF Outside
<1>3. ASSUME NEW t \in Threads, Store(t)
      PROVE  Linked'
  BY <1>3, StoreLinked
<1>4. ASSUME NEW t \in Threads, NEW f \in Futures, InvokeAsync(t, f)
      PROVE  Linked'
  BY <1>4, InvokeLinked
<1>5. ASSUME NEW t \in Callers, NEW f \in Futures \ Links, Create(t, f), Outside
      PROVE  Linked'
  <2>1. t \in Threads /\ stack[t] = <<>> /\ created' = created \cup {f} /\ UNCHANGED <<plan, state>>
    BY <1>1, <1>5 DEF Create, Idle, ccall
  <2>2. PICK first : first = CASE Kind(f) \in {"call", "start", "join"} -> At("call", f, 0)
                               [] Kind(f) = "then" -> At("onSettled", f, 1)
                               [] Kind(f) = "all" -> At("watch", f, 1)
    OBVIOUS
  <2>3. stack' = [stack EXCEPT ![t] = <<first, At("made", f, 0)>>]
    BY <1>5, <2>2 DEF Create
  <2>4. At("made", f, 0).step # "store" /\ first.step # "store"
    <3>1. Kind(f) \in Kinds
      <4> DEFINE R == [kind : Kinds, of : Seq(Nat)]
      <4>1. plan \in Seq(R)
        BY DEF Inv, Shape
      <4> HIDE DEF R
      <4>2. plan[f] \in R
        BY <4>1 DEF Futures
      <4> QED BY <4>2 DEF R, Kind
    <3>2. CASE Kind(f) \in {"call", "start", "join"}
      BY <2>2, <3>2 DEF At, Call
    <3>3. CASE Kind(f) = "then"
      BY <2>2, <3>3 DEF At, Call
    <3>4. CASE Kind(f) = "all"
      BY <2>2, <3>4 DEF At, Call
    <3>5. At("made", f, 0).step # "store"
      BY DEF At, Call
    <3> QED BY <3>1, <3>2, <3>3, <3>4, <3>5 DEF Kinds
  <2>5. Storeless(t)
    BY <2>1, <2>3, <2>4, StartsStoreless
  <2> QED BY <1>5, <2>1, <2>5, LinkedKept DEF Outside
<1>6. ASSUME NEW t \in Callers, NEW f \in Futures, Cancel(t, f), Outside
      PROVE  Linked'
  <2>1. /\ t \in Threads /\ stack[t] = <<>> /\ UNCHANGED <<plan, state, created>>
        /\ stack' = [stack EXCEPT ![t] = <<Call("settle", f, 0, "cancelled", f)>>]
    BY <1>1, <1>6 DEF Cancel, Idle, ccall
  <2>2. Call("settle", f, 0, "cancelled", f).step # "store"
    BY DEF Call
  <2>3. Storeless(t)
    BY <2>1, <2>2, StartsStoreless
  <2> QED BY <1>6, <2>1, <2>3, LinkedKept DEF Outside
<1>7. ASSUME ChainWorkerRuns
      PROVE  Linked'
  <2>1. PICK t \in Workers, f \in queued : RunQueued(t, f)
    BY <1>7 DEF ChainWorkerRuns, WorkerRuns
  <2>2. /\ t \in Threads /\ stack[t] = <<>> /\ UNCHANGED <<plan, state, created>>
        /\ stack' = [stack EXCEPT ![t] = <<At("begin", f, 0)>>]
    BY <1>1, <2>1 DEF RunQueued, Idle, ccall
  <2>3. At("begin", f, 0).step # "store"
    BY DEF At, Call
  <2>4. Storeless(t)
    BY <2>2, <2>3, StartsStoreless
  <2> QED BY <1>7, <2>2, <2>4, LinkedKept DEF Outside, ChainWorkerRuns
<1>8. CASE UNCHANGED chainVars
  <2>1. UNCHANGED <<plan, created, state, tail, nested, stack>>
    BY <1>8 DEF chainVars, vars, ccall
  <2> QED BY <2>1 DEF Linked, One, InProgress, IsChain, Links, Futures, Kind, Of, StoreCalls
<1> QED BY <1>2, <1>3, <1>4, <1>5, <1>6, <1>7, <1>8 DEF ChainNext, ChainContinue

\* A callback of a chain begins only when all before it ended, and the tail has a value
\* only when no callback is left, in any program whose invocations do not nest
\* (invoke_async of vchain.h).
THEOREM ChainInOrder == ChainSafe => []ChainSerialized
PROOF
<1>1. Inv /\ Linked => ChainSerialized
  <2> SUFFICES ASSUME Inv, Linked, nested = {}
               PROVE  /\ \A f, g \in Links : f < g /\ begun[g] > 0 => state[f] = "value"
                      /\ state[tail] = "value" => \A f \in created \cap Links :
                            state[f] = "value" \/ \E t \in Threads : Invokes(t, f)
    BY DEF ChainSerialized
  <2>1. Shape /\ Members /\ Outcome
    BY DEF Inv
  <2>2. /\ tail \in Nat /\ \A f \in Links : IsChain /\ f \in Futures /\ f \in Nat /\ f >= 2
        /\ IsChain => \A f \in Futures : f # 1 => f \in Links
        /\ \A f \in Links : \A g \in Nat : 2 <= g /\ g < f => g \in Links
    BY <2>1, LinkNumbers
  <2>3. ASSUME NEW f \in Links, NEW g \in Links, f < g, begun[g] > 0
        PROVE  state[f] = "value"
    <3>1. g \in hasStarted /\ g \in created /\ Kind(g) = "then" /\ g - 1 \in Nat /\ g - 1 # 0
      BY SMTT(30), <2>1, <2>2, <2>3 DEF Outcome, Members, Shape
    <3>2. Valued(g) /\ Of(g) = <<g - 1>>
      BY <2>1, <2>2, <3>1 DEF Outcome, Linked
    <3>3. state[g - 1] = "value"
      <4>1. PICK p : p = g - 1
        OBVIOUS
      <4>2. Of(g) = <<p>> /\ p # 0
        BY <3>1, <3>2, <4>1
      <4>3. 1 \in DOMAIN Of(g) /\ Of(g)[1] = p
        BY <4>2
      <4>4. p \in Sources(g)
        BY <4>2, <4>3 DEF Sources
      <4> QED BY <3>2, <4>1, <4>4 DEF Valued
    <3>4. CASE f = g - 1
      BY <3>3, <3>4
    <3>5. CASE f < g - 1
      <4>1. g - 1 \in Links
        BY <2>2, <3>1, <3>5
      <4>2. g - 1 \in created
        BY <2>2, <3>1, <4>1 DEF Linked
      <4> QED BY <2>2, <3>3, <3>5, <4>1, <4>2 DEF Linked
    <3> QED BY <2>2, <2>3, <3>4, <3>5
  <2>4. ASSUME state[tail] = "value", NEW f \in created \cap Links
        PROVE  state[f] = "value" \/ \E t \in Threads : Invokes(t, f)
    <3>1. f <= tail \/ \E c \in InProgress(stack) : c.step = "store" /\ c.fut = f
      BY <2>2, <2>4 DEF Linked
    <3>2. CASE f = tail
      BY <2>4, <3>2
    <3>3. CASE f < tail
      <4>1. tail # 1 /\ tail \in created /\ tail \in Links
        BY <2>1, <2>2, <2>4, <3>3 DEF Linked, Members
      <4> QED BY <2>2, <2>4, <3>3, <4>1 DEF Linked
    <3>4. ASSUME NEW c \in InProgress(stack), c.step = "store", c.fut = f
          PROVE  \E t \in Threads : Invokes(t, f)
      <4>1. PICK t \in Threads : c \in {stack[t][d] : d \in DOMAIN stack[t]}
        BY <3>4 DEF InProgress
      <4>2. PICK d \in DOMAIN stack[t] : c = stack[t][d]
        BY <4>1
      <4>3. c = At("store", f, 0)
        BY <3>4 DEF Inv, Good
      <4> QED BY <4>2, <4>3 DEF Invokes
    <3> QED BY <2>2, <3>1, <3>2, <3>3, <3>4
  <2> QED BY <2>3, <2>4
<1>2. ChainInit => Inv /\ Linked
  BY InitInv, LinkedInit
<1>3. Inv /\ Linked /\ [ChainNext]_chainVars => (Inv /\ Linked)'
  BY InvStep, LinkedStep
<1> QED BY <1>1, <1>2, <1>3, PTL DEF ChainSafe
=============================================================================
