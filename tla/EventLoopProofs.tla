--------------------------- MODULE EventLoopProofs ---------------------------
(***************************************************************************)
(* The event loop for any programs of registrations, any depth to which    *)
(* callbacks pump the loop and any other threads: a batch runs what was    *)
(* there before it, tasks, timers and conditions run once, and what was    *)
(* reset is silent.                                                        *)
(***************************************************************************)
EXTENDS EventLoop, SequenceTheorems, FiniteSetTheorems, TLAPS

CallSet == [op : Ops, item : Nat, list : Seq(Nat), now : Nat, limit : Nat, before : SUBSET Nat]
RemoteCalls == [op : {"idle", "insert", "wake", "await", "unregister"}, item : Nat, list : Seq(Nat),
                now : Nat, limit : Nat, before : SUBSET Nat]

-----------------------------------------------------------------------------
(* The inductive invariant.                                                *)

\* What is in a list.
Elements(list) == {list[k] : k \in DOMAIN list}

\* What is in a queue has been registered, and as many ids were given as there
\* are registrations.
Numbered ==
    /\ nextId = Cardinality(Registered) + 1
    /\ \A i \in Registered : id[i] < nextId
    /\ Elements(taskQueue) \cup Elements(conditionalQueue) \cup Elements(frameCallbackList)
          \cup Elements(eventCallbackList) \cup delays \subseteq Registered
    /\ \A i \in cancelled : ~Is(i, "task")

\* What the calls of other threads rely on.
Remote(p) ==
    remote[p].op = "insert" => remote[p].item \in Registered /\ ~Is(remote[p].item, "task")

\* What a call of the loop's thread relies on: what a batch may run was there before.
Good(c) ==
    /\ c.op \in {"callback", "predicate", "claim", "evaluated", "fire"} => c.item \in Registered
    /\ c.op \in {"predicate", "claim", "evaluated"} => Is(c.item, "condition")
    /\ c.op = "fire" => Is(c.item, "timer")
    /\ c.op \in {"evaluate", "dispatch"} => Elements(c.list) \subseteq c.before \cap Registered
    /\ c.op = "evaluate" => \A i \in Elements(c.list) : Is(i, "condition")
    /\ c.op \in {"clearWake", "draining"} =>
          c.limit < nextId /\ \A i \in Registered : id[i] <= c.limit => i \in c.before
    /\ c.op = "delaying" =>
          c.limit <= nextId /\ \A i \in Registered : id[i] < c.limit => i \in c.before

GoodCalls == \A d \in DOMAIN stack : Good(stack[d])

\* What a call relies on of the call that it was made by.
Batches == {"draining", "delaying", "evaluate", "dispatch"}
NeedsCaller(c) == c.op \in {"predicate", "claim"} \/ (c.op = "callback" /\ Is(c.item, "event"))
Above(c, e) ==
    /\ c.op \in {"predicate", "claim"} => e.op = "evaluated" /\ e.item = c.item
    /\ c.op = "callback" /\ Is(c.item, "event") => e.op = "dispatch"
    /\ c.op \in {"callback", "evaluated", "fire"} /\ e.op \in Batches => c.item \in e.before

Nested == \A d \in DOMAIN stack :
    /\ NeedsCaller(stack[d]) => d + 1 \in DOMAIN stack
    /\ d + 1 \in DOMAIN stack => Above(stack[d], stack[d + 1])

\* A condition is evaluated once at a time, and a timer that was taken fires once.
Same(c, e) == c.op = e.op /\ c.item = e.item /\ c.op \in {"evaluated", "fire"}
Alone == \A d, e \in DOMAIN stack : Same(stack[d], stack[e]) => d = e

\* What is still to begin has not begun.
Waits(i) ==
    \/ i \in Elements(taskQueue) \cup delays
    \/ \E d \in DOMAIN stack : stack[d].op \in {"fire", "predicate", "claim"} /\ stack[d].item = i
    \/ \E p \in Posters : remote[p].op = "insert" /\ remote[p].item = i /\ Is(i, "timer")

Once ==
    /\ \A i \in Items :
         /\ began[i] \in 0 .. 1
         /\ i \notin Registered => began[i] = 0
         /\ Is(i, "condition") /\ began[i] # 0 => i \in cancelled
         /\ Waits(i) => began[i] = 0
    /\ \A k, l \in DOMAIN taskQueue : taskQueue[k] = taskQueue[l] => k = l
    /\ \A i \in delays : Calls("fire", i) = {}
    /\ \A p \in Posters : remote[p].op = "insert" =>
         /\ remote[p].item \notin delays /\ Calls("fire", remote[p].item) = {}
         /\ \A q \in Posters : remote[q].op = "insert" /\ remote[q].item = remote[p].item => q = p

Inv ==
    /\ TypeOK /\ stack \in Seq(CallSet) /\ remote \in [Posters -> RemoteCalls]
    /\ \A p \in Posters : Remote(p)
    /\ GoodCalls /\ Numbered /\ Nested /\ Alone /\ Once

-----------------------------------------------------------------------------
(* Lists and stacks.                                                       *)

\* Two lists, one after the other.
LEMMA Concatenated ==
    ASSUME NEW S, NEW a \in Seq(S), NEW b \in Seq(S)
    PROVE  /\ a \o b \in Seq(S) /\ Len(a \o b) = Len(a) + Len(b) /\ DOMAIN (a \o b) = 1 .. Len(a) + Len(b)
           /\ \A d \in 1 .. Len(a) + Len(b) : (a \o b)[d] = IF d <= Len(a) THEN a[d] ELSE b[d - Len(a)]
PROOF
<1>1. a \o b \in Seq(S)
  OBVIOUS
<1>2. Len(a \o b) = Len(a) + Len(b)
  OBVIOUS
<1>3. DOMAIN (a \o b) = 1 .. Len(a) + Len(b)
  BY <1>1, <1>2, LenProperties
<1>4. ASSUME NEW d \in 1 .. Len(a) + Len(b)
      PROVE  (a \o b)[d] = IF d <= Len(a) THEN a[d] ELSE b[d - Len(a)]
  OBVIOUS
<1> QED BY <1>1, <1>2, <1>3, <1>4

\* What is left of a list when an item is taken out was in it.
LEMMA WithoutKeeps ==
    ASSUME NEW S, NEW list \in Seq(S), NEW i
    PROVE  Without(list, i) \in Seq(S) /\ Elements(Without(list, i)) \subseteq Elements(list)
PROOF
<1> DEFINE k == CHOOSE k \in DOMAIN list : list[k] = i
<1>1. CASE ~Has(list, i)
  BY <1>1 DEF Without
<1>2. CASE Has(list, i)
  <2>1. k \in 1 .. Len(list) /\ Len(list) \in Nat
    BY <1>2 DEF Has
  <2> HIDE DEF k
  <2> DEFINE a == SubSeq(list, 1, k - 1)
             b == SubSeq(list, k + 1, Len(list))
  <2>2. a \in Seq(S) /\ Len(a) = k - 1 /\ \A d \in 1 .. Len(a) : a[d] = list[d]
    BY <2>1
  <2>3. b \in Seq(S) /\ Len(b) = Len(list) - k /\ \A d \in 1 .. Len(b) : b[d] = list[d + k]
    BY <2>1
  <2>4. Without(list, i) = a \o b
    BY <1>2 DEF Without, k
  <2> HIDE DEF a, b
  <2>5. a \o b \in Seq(S) /\ Len(a \o b) = Len(a) + Len(b) /\ DOMAIN (a \o b) = 1 .. Len(a) + Len(b)
        /\ \A d \in 1 .. Len(a) + Len(b) : (a \o b)[d] = IF d <= Len(a) THEN a[d] ELSE b[d - Len(a)]
    BY <2>2, <2>3, Concatenated
  <2>6. ASSUME NEW d \in 1 .. Len(a) + Len(b)
        PROVE  (a \o b)[d] \in Elements(list)
    <3>1. CASE d <= Len(a)
      <4>1. d \in 1 .. Len(a) /\ d \in DOMAIN list
        BY <2>1, <2>2, <2>5, <3>1
      <4> QED BY <2>2, <2>5, <3>1, <4>1 DEF Elements
    <3>2. CASE d > Len(a)
      <4>1. d - Len(a) \in 1 .. Len(b) /\ d - Len(a) + k \in DOMAIN list
        BY <2>1, <2>2, <2>3, <2>5, <3>2
      <4> QED BY <2>3, <2>5, <3>2, <4>1 DEF Elements
    <3> QED BY <2>5, <3>1, <3>2
  <2> QED BY <2>4, <2>5, <2>6 DEF Elements
<1> QED BY <1>1, <1>2

\* A list grows by what is appended, and shrinks by its head.
LEMMA ListElements ==
    ASSUME NEW S, NEW list \in Seq(S)
    PROVE  /\ \A i : Elements(Append(list, i)) = Elements(list) \cup {i}
           /\ list # <<>> => Head(list) \in Elements(list) /\ Elements(Tail(list)) \subseteq Elements(list)
PROOF
<1>1. ASSUME NEW i
      PROVE  Elements(Append(list, i)) = Elements(list) \cup {i}
  <2>1. DOMAIN list = 1 .. Len(list) /\ Len(list) \in Nat
    OBVIOUS
  <2>2. list \in Seq(S \cup {i})
    OBVIOUS
  <2>3. DOMAIN Append(list, i) = 1 .. Len(list) + 1
        /\ \A k \in 1 .. Len(list) : Append(list, i)[k] = list[k]
        /\ Append(list, i)[Len(list) + 1] = i
    BY <2>2
  <2>4. 1 .. Len(list) + 1 = 1 .. Len(list) \cup {Len(list) + 1}
    BY <2>1
  <2> QED BY <2>1, <2>3, <2>4 DEF Elements
<1>2. CASE list # <<>>
  <2>1. Len(list) \in Nat /\ Len(list) > 0 /\ DOMAIN list = 1 .. Len(list) /\ Head(list) = list[1]
    BY <1>2
  <2>2. DOMAIN Tail(list) = 1 .. Len(list) - 1 /\ \A k \in 1 .. Len(list) - 1 : Tail(list)[k] = list[k + 1]
    BY <1>2
  <2>3. \A k \in 1 .. Len(list) - 1 : k + 1 \in 1 .. Len(list)
    BY <2>1
  <2> QED BY <2>1, <2>2, <2>3 DEF Elements
<1> QED BY <1>1, <1>2

\* Calls New take the place of the k innermost calls.
Replaces(New, k) ==
    /\ k \in 0 .. 2 /\ k <= Len(stack)
    /\ stack' = New \o (IF k = 0 THEN stack ELSE IF k = 1 THEN Tail(stack) ELSE Tail(Tail(stack)))

Moved(New, k) ==
    /\ stack' \in Seq(CallSet) /\ Len(stack') = Len(New) + Len(stack) - k
    /\ \A d \in DOMAIN stack' : IF d <= Len(New) THEN stack'[d] = New[d] ELSE stack'[d] = stack[d - Len(New) + k]

\* Whatever replaces calls moves the others.
LEMMA ReplacingMoves ==
    ASSUME stack \in Seq(CallSet), NEW New \in Seq(CallSet), NEW k, Replaces(New, k)
    PROVE  Moved(New, k)
PROOF
<1> DEFINE rest == IF k = 0 THEN stack ELSE IF k = 1 THEN Tail(stack) ELSE Tail(Tail(stack))
<1>1. k \in 0 .. 2 /\ k <= Len(stack) /\ Len(stack) \in Nat /\ Len(New) \in Nat
  BY DEF Replaces
<1>2. rest \in Seq(CallSet) /\ Len(rest) = Len(stack) - k /\ \A d \in 1 .. Len(rest) : rest[d] = stack[d + k]
  <2>1. CASE k = 0
    BY <2>1
  <2>2. CASE k = 1
    BY <1>1, <2>2
  <2>3. CASE k = 2
    <3>1. Tail(stack) \in Seq(CallSet) /\ Len(Tail(stack)) = Len(stack) - 1
          /\ \A d \in 1 .. Len(stack) - 1 : Tail(stack)[d] = stack[d + 1]
      BY <1>1, <2>3
    <3>2. PICK mid \in Seq(CallSet) : mid = Tail(stack)
      BY <3>1
    <3>2a. Len(mid) > 0
      BY <1>1, <2>3, <3>1, <3>2
    <3>3. Tail(mid) \in Seq(CallSet) /\ Len(Tail(mid)) = Len(mid) - 1
          /\ \A d \in 1 .. Len(mid) - 1 : Tail(mid)[d] = mid[d + 1]
      BY <3>2a
    <3>4. \A d \in 1 .. Len(stack) - 2 : d + 1 \in 1 .. Len(stack) - 1
      BY <1>1
    <3>5. \A d \in 1 .. Len(stack) - 2 : Tail(mid)[d] = stack[d + 2]
      BY <1>1, <3>1, <3>2, <3>3, <3>4
    <3>6. rest = Tail(mid)
      BY <2>3, <3>2
    <3> HIDE DEF rest
    <3> QED BY <1>1, <2>3, <3>1, <3>2, <3>3, <3>5, <3>6
  <2> QED BY <1>1, <2>1, <2>2, <2>3
<1>3. stack' = New \o rest
  BY DEF Replaces
<1> HIDE DEF rest
<1>4. New \o rest \in Seq(CallSet) /\ Len(New \o rest) = Len(New) + Len(rest)
      /\ DOMAIN (New \o rest) = 1 .. Len(New) + Len(rest)
  BY <1>2, Concatenated
<1>5. \A d \in 1 .. Len(New) + Len(rest) : (New \o rest)[d] = IF d <= Len(New) THEN New[d] ELSE rest[d - Len(New)]
  BY <1>2, Concatenated
<1>6. ASSUME NEW d \in DOMAIN stack'
      PROVE  IF d <= Len(New) THEN stack'[d] = New[d] ELSE stack'[d] = stack[d - Len(New) + k]
  <2>1. d \in 1 .. Len(New) + Len(rest)
    BY <1>3, <1>4
  <2>2. ~(d <= Len(New)) => d - Len(New) \in 1 .. Len(rest)
    BY <1>1, <1>2, <2>1
  <2> QED BY <1>2, <1>3, <1>5, <2>1, <2>2
<1> QED BY <1>1, <1>2, <1>3, <1>4, <1>6 DEF Moved

\* What a call is for, and none of it where a batch is about to begin.
Plain == Ops \ {"callback", "predicate", "claim", "evaluated", "fire"}

\* The calls of the loop's thread stay in order when the new ones fit on what is below.
LEMMA CallsKept ==
    ASSUME stack \in Seq(CallSet), Nested, Alone, program' = program,
           NEW New \in Seq(CallSet), NEW k, Replaces(New, k),
           \A d \in DOMAIN New : d + 1 \in DOMAIN New => Above(New[d], New[d + 1]),
           New # <<>> /\ k < Len(stack) => Above(New[Len(New)], stack[k + 1]),
           \A d \in DOMAIN New : NeedsCaller(New[d]) => d < Len(New) \/ k < Len(stack),
           \A d \in DOMAIN New : \A e \in DOMAIN New : Same(New[d], New[e]) => d = e,
           \A d \in DOMAIN New : \A e \in DOMAIN stack : e > k => ~Same(New[d], stack[e])
    PROVE  stack' \in Seq(CallSet) /\ Nested' /\ Alone'
PROOF
<1> USE DEF Moved
<1>1. Moved(New, k) /\ k \in 0 .. 2 /\ k <= Len(stack)
  BY ReplacingMoves DEF Replaces
<1>2. /\ Len(New) \in Nat /\ DOMAIN New = 1 .. Len(New) /\ Len(stack) \in Nat /\ DOMAIN stack = 1 .. Len(stack)
      /\ DOMAIN stack' = 1 .. Len(New) + Len(stack) - k
  BY <1>1
<1>3. \A c : NeedsCaller(c)' <=> NeedsCaller(c)
  BY DEF NeedsCaller, Is
<1>4. \A c, e : Above(c, e)' <=> Above(c, e)
  BY DEF Above, Is
<1>5. ASSUME NEW d \in DOMAIN stack'
      PROVE  /\ NeedsCaller(stack'[d]) => d + 1 \in DOMAIN stack'
             /\ d + 1 \in DOMAIN stack' => Above(stack'[d], stack'[d + 1])
  <2>1. CASE d < Len(New)
    <3>1. d \in DOMAIN New /\ d + 1 \in DOMAIN New /\ d + 1 \in DOMAIN stack'
          /\ stack'[d] = New[d] /\ stack'[d + 1] = New[d + 1]
      BY <1>1, <1>2, <1>5, <2>1
    <3> QED BY <3>1
  <2>2. CASE d = Len(New)
    <3>1. d \in DOMAIN New /\ stack'[d] = New[d] /\ New # <<>>
      BY <1>1, <1>2, <1>5, <2>2
    <3>2. CASE k < Len(stack)
      <4>1. d + 1 \in DOMAIN stack' /\ stack'[d + 1] = stack[k + 1]
        BY <1>1, <1>2, <2>2, <3>2
      <4> QED BY <2>2, <3>1, <3>2, <4>1
    <3>3. CASE ~(k < Len(stack))
      <4>1. d + 1 \notin DOMAIN stack'
        BY <1>1, <1>2, <2>2, <3>3
      <4> QED BY <1>2, <2>2, <3>1, <3>3, <4>1
    <3> QED BY <3>2, <3>3
  <2>3. CASE d > Len(New)
    <3> DEFINE e == d - Len(New) + k
    <3>1. e \in DOMAIN stack /\ stack'[d] = stack[e]
      BY <1>1, <1>2, <1>5, <2>3
    <3>2. e + 1 \in DOMAIN stack <=> d + 1 \in DOMAIN stack'
      BY <1>1, <1>2, <1>5, <2>3, SMTT(60)
    <3>3. ASSUME d + 1 \in DOMAIN stack'
          PROVE  stack'[d + 1] = stack[e + 1]
      <4>1. ~(d + 1 <= Len(New)) /\ (d + 1) - Len(New) + k = e + 1
        BY <1>1, <1>2, <1>5, <2>3
      <4>2. stack'[d + 1] = stack[(d + 1) - Len(New) + k]
        BY <1>1, <3>3, <4>1
      <4> QED BY <4>1, <4>2
    <3> HIDE DEF e
    <3> QED BY <3>1, <3>2, <3>3 DEF Nested
  <2> QED BY <1>2, <1>5, <2>1, <2>2, <2>3
<1>6. ASSUME NEW d \in DOMAIN stack', NEW e \in DOMAIN stack', Same(stack'[d], stack'[e])
      PROVE  d = e
  <2>0. d \in Nat /\ e \in Nat /\ Same(stack'[e], stack'[d])
    BY <1>2, <1>6 DEF Same
  <2>1. CASE d <= Len(New) /\ e <= Len(New)
    BY <1>1, <1>2, <1>6, <2>1
  <2>2. CASE d <= Len(New) /\ e > Len(New)
    <3>1. d \in DOMAIN New /\ e - Len(New) + k \in DOMAIN stack /\ e - Len(New) + k > k
      BY <1>1, <1>2, <1>6, <2>2
    <3> QED BY <1>1, <1>2, <1>6, <2>2, <3>1
  <2>3. CASE d > Len(New) /\ e <= Len(New)
    <3>1. e \in DOMAIN New /\ d - Len(New) + k \in DOMAIN stack /\ d - Len(New) + k > k
      BY <1>1, <1>2, <1>6, <2>3
    <3> QED BY <1>1, <1>2, <2>0, <2>3, <3>1
  <2>4. CASE d > Len(New) /\ e > Len(New)
    <3>1. d - Len(New) + k \in DOMAIN stack /\ e - Len(New) + k \in DOMAIN stack
      BY <1>1, <1>2, <1>6, <2>4, SMTT(60)
    <3>2. d - Len(New) + k = e - Len(New) + k
      BY <1>1, <1>2, <1>6, <2>4, <3>1 DEF Alone
    <3> QED BY <1>1, <1>2, <2>0, <3>2
  <2> QED BY <1>2, <2>0, <2>1, <2>2, <2>3, <2>4
<1>7. Nested'
  BY <1>3, <1>4, <1>5 DEF Nested
<1>8. Alone'
  BY <1>6 DEF Alone, Same
<1> QED BY <1>1, <1>7, <1>8

\* The calls that are about an item are the same, but for those that come and go.
LEMMA CallsMoved ==
    ASSUME stack \in Seq(CallSet), NEW New \in Seq(CallSet), NEW k, Replaces(New, k)
    PROVE  /\ \A d \in DOMAIN stack' : (\E e \in DOMAIN New : stack'[d] = New[e])
                                       \/ (\E e \in DOMAIN stack : e > k /\ stack'[d] = stack[e])
           /\ \A d \in DOMAIN New : \E e \in DOMAIN stack' : stack'[e] = New[d]
           /\ \A d \in DOMAIN stack : d > k => \E e \in DOMAIN stack' : stack'[e] = stack[d]
PROOF
<1> USE DEF Moved
<1>1. Moved(New, k) /\ k \in 0 .. 2 /\ k <= Len(stack)
  BY ReplacingMoves DEF Replaces
<1>2. /\ Len(New) \in Nat /\ DOMAIN New = 1 .. Len(New) /\ Len(stack) \in Nat /\ DOMAIN stack = 1 .. Len(stack)
      /\ DOMAIN stack' = 1 .. Len(New) + Len(stack) - k
  BY <1>1
<1>3. ASSUME NEW d \in DOMAIN stack'
      PROVE  (\E e \in DOMAIN New : stack'[d] = New[e]) \/ (\E e \in DOMAIN stack : e > k /\ stack'[d] = stack[e])
  <2>1. CASE d <= Len(New)
    BY <1>1, <1>2, <1>3, <2>1
  <2>2. CASE d > Len(New)
    <3>1. d - Len(New) + k \in DOMAIN stack /\ d - Len(New) + k > k /\ stack'[d] = stack[d - Len(New) + k]
      BY <1>1, <1>2, <1>3, <2>2
    <3> QED BY <3>1
  <2> QED BY <1>2, <1>3, <2>1, <2>2
<1>4. ASSUME NEW d \in DOMAIN New
      PROVE  \E e \in DOMAIN stack' : stack'[e] = New[d]
  <2>1. d \in DOMAIN stack' /\ stack'[d] = New[d]
    BY <1>1, <1>2, <1>4
  <2> QED BY <2>1
<1>5. ASSUME NEW d \in DOMAIN stack, d > k
      PROVE  \E e \in DOMAIN stack' : stack'[e] = stack[d]
  <2>1. PICK e \in Int : e = d - k + Len(New)
    BY <1>1, <1>2
  <2>2. e \in DOMAIN stack' /\ ~(e <= Len(New)) /\ e - Len(New) + k = d
    BY <1>1, <1>2, <1>5, <2>1
  <2>3. stack'[e] = stack[e - Len(New) + k]
    BY <1>1, <2>2
  <2> QED BY <2>2, <2>3
<1> QED BY <1>3, <1>4, <1>5

-----------------------------------------------------------------------------
(* Steps of the loop's thread that register nothing.                       *)

LEMMA ItemsCounted == TypeOK => Items = 1 .. Len(program) /\ Len(program) \in Nat /\ Items \subseteq Nat
PROOF
<1> SUFFICES ASSUME TypeOK
             PROVE  Items = 1 .. Len(program) /\ Len(program) \in Nat /\ Items \subseteq Nat
  OBVIOUS
<1>1. program \in Seq(Kinds)
  BY EventLoopAssumption DEF TypeOK, Members
<1> QED BY <1>1 DEF Items

\* What a call relies on is about registrations.
LEMMA GoodKept ==
    ASSUME stack \in Seq(CallSet), GoodCalls, UNCHANGED <<program, registry>>,
           NEW New \in Seq(CallSet), NEW k, Replaces(New, k), \A d \in DOMAIN New : Good(New[d])
    PROVE  GoodCalls'
PROOF
<1>1. \A c : Good(c) => Good(c)'
  BY DEF Good, registry, Registered, Items, Is
<1>2. ASSUME NEW d \in DOMAIN stack'
      PROVE  Good(stack'[d])
  BY CallsMoved DEF GoodCalls
<1> QED BY <1>1, <1>2 DEF GoodCalls

\* New calls that neither evaluate nor fire leave the marks of those that do.
LEMMA MarksKept ==
    ASSUME TypeOK, stack \in Seq(CallSet), UNCHANGED <<program, evaluating>>,
           NEW New \in Seq(CallSet), NEW k, Replaces(New, k),
           \A d \in DOMAIN New : New[d].op # "evaluated",
           \A d \in DOMAIN stack : d <= k => stack[d].op # "evaluated"
    PROVE  evaluating' = {i \in Items' : Calls("evaluated", i)' # {}}
PROOF
<1>1. k \in 0 .. 2
  BY DEF Replaces
<1>2. ASSUME NEW i \in Items
      PROVE  Calls("evaluated", i)' # {} <=> Calls("evaluated", i) # {}
  <2>1. ASSUME NEW d \in DOMAIN stack, stack[d].op = "evaluated", stack[d].item = i
        PROVE  Calls("evaluated", i)' # {}
    <3>1. d > k
      BY <1>1, <2>1
    <3>2. PICK e \in DOMAIN stack' : stack'[e] = stack[d]
      BY <3>1, CallsMoved
    <3> QED BY <2>1, <3>2 DEF Calls
  <2>2. ASSUME NEW d \in DOMAIN stack', stack'[d].op = "evaluated", stack'[d].item = i
        PROVE  Calls("evaluated", i) # {}
    <3>1. PICK e \in DOMAIN stack : e > k /\ stack'[d] = stack[e]
      BY <2>2, CallsMoved
    <3> QED BY <2>2, <3>1 DEF Calls
  <2> QED BY <2>1, <2>2 DEF Calls
<1>3. Items' = Items
  BY DEF Items
<1> QED BY <1>2, <1>3 DEF TypeOK

\* New calls that do not fire: a timer that did not fire does not.
LEMMA FiresKept ==
    ASSUME stack \in Seq(CallSet), NEW New \in Seq(CallSet), NEW k, Replaces(New, k),
           \A d \in DOMAIN New : New[d].op # "fire", NEW i, Calls("fire", i) = {}
    PROVE  Calls("fire", i)' = {}
PROOF
<1>1. ASSUME NEW d \in DOMAIN stack', stack'[d].op = "fire", stack'[d].item = i
      PROVE  FALSE
  <2>1. PICK e \in DOMAIN stack : stack'[d] = stack[e]
    BY <1>1, CallsMoved
  <2> QED BY <1>1, <2>1 DEF Calls
<1> QED BY <1>1 DEF Calls

\* A step that runs the loop and nothing of what is registered.
LEMMA LoopStep ==
    ASSUME Inv, UNCHANGED <<program, registry, queues, flags, sent, clock, history, posters>>,
           events' \in Seq({"wake", "quit", "user"}), {wakePending', quit'} \subseteq BOOLEAN, finished' \subseteq Items,
           NEW New \in Seq(CallSet), NEW k, Replaces(New, k),
           \A d \in DOMAIN New : Good(New[d]) /\ New[d].op \notin {"evaluated", "fire"}
                                 /\ (New[d].op \in {"predicate", "claim"} => began[New[d].item] = 0),
           \A d \in DOMAIN New : d + 1 \in DOMAIN New => Above(New[d], New[d + 1]),
           New # <<>> /\ k < Len(stack) => Above(New[Len(New)], stack[k + 1]),
           \A d \in DOMAIN New : NeedsCaller(New[d]) => d < Len(New) \/ k < Len(stack),
           \A d \in DOMAIN stack : d <= k => stack[d].op # "evaluated"
    PROVE  Inv'
PROOF
<1> USE DEF Inv, queues, flags, history, posters
<1>1. stack' \in Seq(CallSet) /\ Nested' /\ Alone'
  BY CallsKept DEF Same
<1>2. GoodCalls'
  BY GoodKept
<1>3. Items' = Items /\ Registered' = Registered /\ \A i, kind : Is(i, kind)' <=> Is(i, kind)
  BY DEF Items, Registered, registry, Is
<1>4. Members'
  <2>1. \A d \in DOMAIN stack' : stack'[d].op \in Ops
    <3>1. \A d \in DOMAIN stack' : stack'[d] \in CallSet
      BY <1>1
    <3> QED BY <3>1 DEF CallSet
  <2> QED BY <1>3, <2>1 DEF TypeOK, Members, registry
<1>5. TypeOK'
  BY <1>4, MarksKept DEF TypeOK
<1>6. Numbered'
  BY <1>3 DEF Numbered, registry, Elements
<1>7. \A p \in Posters : Remote(p)'
  BY <1>3 DEF Remote
<1>8. ASSUME NEW i \in Items, Waits(i)'
      PROVE  began[i] = 0
  <2>1. ASSUME NEW d \in DOMAIN stack', stack'[d].op \in {"fire", "predicate", "claim"}, stack'[d].item = i
        PROVE  began[i] = 0
    <3>1. CASE \E e \in DOMAIN New : stack'[d] = New[e]
      BY <2>1, <3>1
    <3>2. CASE \E e \in DOMAIN stack : stack'[d] = stack[e]
      BY <2>1, <3>2 DEF Once, Waits
    <3> QED BY <3>1, <3>2, CallsMoved
  <2>2. CASE i \in Elements(taskQueue) \cup delays
    BY <2>2 DEF Once, Waits
  <2>3. CASE \E p \in Posters : remote[p].op = "insert" /\ remote[p].item = i /\ Is(i, "timer")
    BY <2>3 DEF Once, Waits
  <2> QED BY <1>3, <1>8, <2>1, <2>2, <2>3 DEF Waits, Elements
<1>9. \A i : Calls("fire", i) = {} => Calls("fire", i)' = {}
  BY FiresKept
<1>10. Once'
  BY <1>3, <1>8, <1>9 DEF Once
<1> QED BY <1>1, <1>2, <1>5, <1>6, <1>7, <1>10

\* Calls that run nothing fit on every call.
PlainCalls == {c \in CallSet : Good(c) /\ c.op \in Plain}

LEMMA PlainStep ==
    ASSUME Inv, UNCHANGED <<program, registry, queues, flags, sent, clock, history, posters>>,
           events' \in Seq({"wake", "quit", "user"}), {wakePending', quit'} \subseteq BOOLEAN, finished' \subseteq Items,
           NEW New \in Seq(PlainCalls), NEW k, Replaces(New, k),
           \A d \in DOMAIN stack : d <= k => stack[d].op # "evaluated"
    PROVE  Inv'
PROOF
<1>1. \A c, e : c.op \in Plain => Above(c, e) /\ ~NeedsCaller(c) /\ c.op \notin {"evaluated", "fire", "predicate", "claim"}
  BY DEF Plain, Above, NeedsCaller
<1>2. New \in Seq(CallSet) /\ (New # <<>> => Len(New) \in DOMAIN New)
  BY DEF PlainCalls
<1>3. \A d \in DOMAIN New : Good(New[d]) /\ New[d].op \notin {"evaluated", "fire", "predicate", "claim"}
                            /\ ~NeedsCaller(New[d]) /\ \A e : Above(New[d], e)
  BY <1>1 DEF PlainCalls
<1>4. New # <<>> => \A e : Above(New[Len(New)], e)
  BY <1>2, <1>3
<1> HIDE DEF Plain
<1> QED BY <1>2, <1>3, <1>4, LoopStep

\* The innermost call is one of the calls.
LEMMA Innermost ==
    ASSUME Inv, stack # <<>>
    PROVE  /\ Top \in CallSet /\ Good(Top) /\ 1 \in DOMAIN stack /\ Top = stack[1] /\ 1 <= Len(stack)
           /\ Len(stack) \in Nat /\ \A d \in DOMAIN stack : d <= 1 => d = 1
PROOF
<1>1. stack \in Seq(CallSet)
  BY DEF Inv
<1>2. 1 \in DOMAIN stack /\ Top = stack[1] /\ 1 <= Len(stack) /\ Len(stack) \in Nat
      /\ \A d \in DOMAIN stack : d <= 1 => d = 1
  BY <1>1 DEF Top
<1>3. stack[1] \in CallSet
  BY <1>1, <1>2
<1> QED BY <1>2, <1>3 DEF Inv, GoodCalls

\* Entering and replacing, for calls that run nothing.
LEMMA EnterPlain ==
    ASSUME Inv, UNCHANGED <<program, registry, queues, flags, sent, clock, history, posters>>,
           events' \in Seq({"wake", "quit", "user"}), {wakePending', quit'} \subseteq BOOLEAN, finished' \subseteq Items,
           NEW New \in Seq(PlainCalls), Enter(New)
    PROVE  Inv'
PROOF
<1>1. stack \in Seq(CallSet) /\ Len(stack) \in Nat /\ DOMAIN stack = 1 .. Len(stack)
  BY DEF Inv
<1>2. Replaces(New, 0)
  BY <1>1 DEF Enter, Replaces
<1> QED BY <1>1, <1>2, PlainStep

LEMMA BecomePlain ==
    ASSUME Inv, UNCHANGED <<program, registry, queues, flags, sent, clock, history, posters>>,
           events' \in Seq({"wake", "quit", "user"}), {wakePending', quit'} \subseteq BOOLEAN, finished' \subseteq Items,
           NEW New \in Seq(PlainCalls), Become(New), stack # <<>>, Top.op # "evaluated"
    PROVE  Inv'
PROOF
<1>1. Replaces(New, 1)
  BY Innermost DEF Become, Replaces
<1>2. \A d \in DOMAIN stack : d <= 1 => stack[d].op # "evaluated"
  BY Innermost
<1> QED BY <1>1, <1>2, PlainStep

\* What the loop's state is where a step leaves it alone.
LEMMA SameLoop ==
    ASSUME Inv
    PROVE  /\ events \in Seq({"wake", "quit", "user"}) /\ {wakePending, quit} \subseteq BOOLEAN /\ finished \subseteq Items
           /\ Registered \subseteq Items /\ Items \subseteq Nat /\ nextId \in Nat
           /\ \A i \in Registered : id[i] \in Nat
           /\ clock \in Nat
PROOF
<1>1. Items \subseteq Nat
  BY ItemsCounted DEF Inv
<1> QED BY <1>1, EventLoopAssumption DEF Inv, TypeOK, Members, Registered

\* The queues hold registered items of their kind.
LEMMA Queues ==
    ASSUME Inv
    PROVE  /\ taskQueue \in Seq(Nat) /\ \A i \in Elements(taskQueue) : i \in Registered /\ Is(i, "task")
           /\ conditionalQueue \in Seq(Nat) /\ \A i \in Elements(conditionalQueue) : i \in Registered /\ Is(i, "condition")
           /\ frameCallbackList \in Seq(Nat) /\ \A i \in Elements(frameCallbackList) : i \in Registered /\ Is(i, "frame")
           /\ eventCallbackList \in Seq(Nat) /\ \A i \in Elements(eventCallbackList) : i \in Registered /\ Is(i, "event")
           /\ \A i \in delays : i \in Registered /\ Is(i, "timer")
PROOF
<1>1. ASSUME NEW kind, NEW list \in Seq({i \in Items : Is(i, kind)})
      PROVE  list \in Seq(Nat) /\ \A i \in Elements(list) : Is(i, kind)
  <2>1. Items \subseteq Nat
    BY SameLoop
  <2>2. \A k \in DOMAIN list : list[k] \in {i \in Items : Is(i, kind)}
    OBVIOUS
  <2>3. \A i \in Elements(list) : Is(i, kind)
    BY <2>2 DEF Elements
  <2>4. {i \in Items : Is(i, kind)} \subseteq Nat
    BY <2>1
  <2>5. list \in Seq(Nat)
    <3> DEFINE S == {i \in Items : Is(i, kind)}
    <3>1. S \subseteq Nat /\ list \in Seq(S)
      BY <2>4
    <3> HIDE DEF S
    <3> QED BY <3>1, SeqMonotonic
  <2> QED BY <2>3, <2>5
<1>2. /\ taskQueue \in Seq({i \in Items : Is(i, "task")})
      /\ conditionalQueue \in Seq({i \in Items : Is(i, "condition")})
      /\ frameCallbackList \in Seq({i \in Items : Is(i, "frame")})
      /\ eventCallbackList \in Seq({i \in Items : Is(i, "event")})
      /\ delays \subseteq {i \in Items : Is(i, "timer")}
  BY DEF Inv, TypeOK, Members
<1>3. Elements(taskQueue) \cup Elements(conditionalQueue) \cup Elements(frameCallbackList)
          \cup Elements(eventCallbackList) \cup delays \subseteq Registered
  BY DEF Inv, Numbered
<1> QED BY <1>1, <1>2, <1>3

\* Running the loop, and the steps of a batch that only look at the queues.
LEMMA BatchSteps ==
    ASSUME Inv, RunPostedTasks \/ RunReady \/ RunFrame \/ Conditions \/ Delays \/ Limit \/ Frame \/ Drain
    PROVE  Inv'
PROOF
<1> USE SameLoop
<1>1. ASSUME NEW op \in {"drain", "poll", "conditions", "delays", "frame"}
      PROVE  At(op) \in PlainCalls
  BY DEF At, Call, PlainCalls, CallSet, Plain, Ops, Good
<1>2. CASE RunPostedTasks
  <2>1. PICK New : New = <<At("drain")>>
    OBVIOUS
  <2>2. New \in Seq(PlainCalls)
    BY <1>1, <2>1
  <2>3. Enter(New)
    BY <1>2, <2>1 DEF RunPostedTasks
  <2> QED BY <1>2, <2>2, <2>3, EnterPlain DEF RunPostedTasks, sdl
<1>3. CASE RunReady
  <2>1. PICK New : New = <<At("drain"), At("poll"), At("conditions"), At("delays")>>
    OBVIOUS
  <2>2. New \in Seq(PlainCalls)
    BY <1>1, <2>1
  <2>3. Enter(New)
    BY <1>3, <2>1 DEF RunReady
  <2> QED BY <1>3, <2>2, <2>3, EnterPlain DEF RunReady, sdl
<1>4. CASE RunFrame
  <2>1. PICK New : New = <<At("drain"), At("poll"), At("conditions"), At("delays"), At("frame")>>
    OBVIOUS
  <2>2. New \in Seq(PlainCalls)
    BY <1>1, <2>1
  <2>3. Enter(New)
    BY <1>4, <2>1 DEF RunFrame
  <2> QED BY <1>4, <2>2, <2>3, EnterPlain DEF RunFrame, sdl
<1>5. CASE Conditions
  <2>1. PICK c : c = Call("evaluate", 0, conditionalQueue, 0, 0, Registered)
    OBVIOUS
  <2>2. conditionalQueue \in Seq(Nat) /\ \A i \in Elements(conditionalQueue) : i \in Registered /\ Is(i, "condition")
    BY Queues
  <2>3. c \in CallSet
    BY <2>1, <2>2 DEF Call, CallSet, Ops
  <2>4. Good(c)
    BY <2>1, <2>2 DEF Call, Good, Elements
  <2>5. <<c>> \in Seq(PlainCalls)
    BY <2>1, <2>3, <2>4 DEF PlainCalls, Plain, Call, Ops
  <2>6. Become(<<c>>) /\ stack # <<>> /\ Top.op = "conditions"
    BY <1>5, <2>1 DEF Conditions, In, Top
  <2> QED BY <1>5, <2>5, <2>6, BecomePlain DEF Conditions, sdl
<1>6. CASE Delays
  <2>1. PICK c : c = Call("limit", 0, <<>>, clock, 0, {})
    OBVIOUS
  <2>2. c \in CallSet /\ Good(c)
    BY <2>1 DEF Call, CallSet, Ops, Good
  <2>3. <<c>> \in Seq(PlainCalls)
    BY <2>1, <2>2 DEF PlainCalls, Plain, Call, Ops
  <2>4. Become(<<c>>) /\ stack # <<>> /\ Top.op = "delays"
    BY <1>6, <2>1 DEF Delays, In, Top
  <2> QED BY <1>6, <2>3, <2>4, BecomePlain DEF Delays, sdl
<1>7. CASE Limit
  <2>1. PICK c : c = Call("delaying", 0, <<>>, Top.now, nextId, Registered)
    OBVIOUS
  <2>2. stack # <<>> /\ Top.op = "limit" /\ Become(<<c>>)
    BY <1>7, <2>1 DEF Limit, In, Top
  <2>3. Top.now \in Nat
    BY <2>2, Innermost DEF CallSet
  <2>4. c \in CallSet /\ Good(c)
    BY <2>1, <2>3 DEF Call, CallSet, Ops, Good
  <2>5. <<c>> \in Seq(PlainCalls)
    BY <2>1, <2>4 DEF PlainCalls, Plain, Call, Ops
  <2> QED BY <1>7, <2>2, <2>5, BecomePlain DEF Limit, sdl
<1>8. CASE Frame
  <2>1. PICK New : New = IF quit THEN <<>> ELSE <<Call("dispatch", 0, frameCallbackList, 0, 0, Registered)>>
    OBVIOUS
  <2>2. frameCallbackList \in Seq(Nat) /\ \A i \in Elements(frameCallbackList) : i \in Registered
    BY Queues
  <2>3. Call("dispatch", 0, frameCallbackList, 0, 0, Registered) \in PlainCalls
    BY <2>2 DEF Call, CallSet, Good, PlainCalls, Plain, Ops, Elements
  <2>4. New \in Seq(PlainCalls)
    BY <2>1, <2>3
  <2>5. stack # <<>> /\ Top.op = "frame" /\ Become(New)
    BY <1>8, <2>1 DEF Frame, In, Top
  <2> QED BY <1>8, <2>4, <2>5, BecomePlain DEF Frame, sdl
<1>9. CASE Drain
  <2>1. stack # <<>> /\ Top.op = "drain"
    BY <1>9 DEF Drain, In, Top
  <2>2. CASE taskQueue = <<>>
    <3>1. Become(<<>>) /\ <<>> \in Seq(PlainCalls)
      BY <1>9, <2>2 DEF Drain
    <3> QED BY <1>9, <2>1, <3>1, BecomePlain DEF Drain, sdl
  <2>3. CASE taskQueue # <<>>
    <3>1. taskQueue[Len(taskQueue)] \in Registered
      <4>1. taskQueue \in Seq(Nat) /\ Len(taskQueue) \in DOMAIN taskQueue
        BY <2>3, Queues
      <4> QED BY <4>1, Queues DEF Elements
    <3>2. PICK c : c = Call("clearWake", 0, <<>>, 0, id[taskQueue[Len(taskQueue)]], Registered)
      OBVIOUS
    <3>3. c \in CallSet
      BY <3>1, <3>2 DEF Call, CallSet, Ops
    <3>4. Good(c)
      BY <3>1, <3>2 DEF Call, Good, Inv, Numbered
    <3>5. <<c>> \in Seq(PlainCalls) /\ Become(<<c>>)
      BY <1>9, <2>3, <3>2, <3>3, <3>4 DEF PlainCalls, Plain, Call, Ops, Drain
    <3> QED BY <1>9, <2>1, <3>5, BecomePlain DEF Drain, sdl
  <2> QED BY <2>2, <2>3
<1> QED BY <1>2, <1>3, <1>4, <1>5, <1>6, <1>7, <1>8, <1>9

LEMMA ClearWakeStep ==
    ASSUME Inv, ClearWake
    PROVE  Inv'
PROOF
<1> USE SameLoop
<1>1. PICK c : c = [Top EXCEPT !.op = "draining"]
  OBVIOUS
<1>2. stack # <<>> /\ Top.op = "clearWake" /\ Become(<<c>>)
  BY <1>1 DEF ClearWake, In, Top
<1>3. Top \in CallSet /\ Good(Top)
  BY <1>2, Innermost
<1>4. c \in CallSet /\ c.op = "draining" /\ c.limit = Top.limit /\ c.before = Top.before
  BY <1>1, <1>3 DEF CallSet, Ops
<1>5. Good(c)
  BY <1>2, <1>3, <1>4 DEF Good
<1>6. <<c>> \in Seq(PlainCalls)
  BY <1>4, <1>5 DEF PlainCalls, Plain, Ops
<1>7. {wakePending', quit'} \subseteq BOOLEAN
  BY DEF ClearWake
<1> QED BY <1>2, <1>6, <1>7, BecomePlain DEF ClearWake

LEMMA PollStep ==
    ASSUME Inv, Poll
    PROVE  Inv'
PROOF
<1> USE SameLoop
<1>0. stack # <<>> /\ Top.op = "poll"
  BY DEF Poll, In, Top
<1>1. CASE events = <<>> /\ Return /\ UNCHANGED <<events, quit>>
  <2>1. Become(<<>>) /\ <<>> \in Seq(PlainCalls)
    BY <1>1 DEF Return
  <2> QED BY <1>0, <1>1, <2>1, BecomePlain DEF Poll
<1>2. ASSUME events # <<>>, events' = Tail(events), quit' = (quit \/ Head(events) = "quit"),
             IF Head(events) = "user"
             THEN Enter(<<Call("dispatch", 0, eventCallbackList, 0, 0, Registered)>>) ELSE UNCHANGED stack
      PROVE  Inv'
  <2>1. events' \in Seq({"wake", "quit", "user"})
    BY <1>2
  <2>2. {wakePending', quit'} \subseteq BOOLEAN
    BY <1>2 DEF Poll
  <2>3. PICK New : New = IF Head(events) = "user" THEN <<Call("dispatch", 0, eventCallbackList, 0, 0, Registered)>>
                         ELSE <<>>
    OBVIOUS
  <2>4. eventCallbackList \in Seq(Nat) /\ \A i \in Elements(eventCallbackList) : i \in Registered
    BY Queues
  <2>5. Call("dispatch", 0, eventCallbackList, 0, 0, Registered) \in PlainCalls
    BY <2>4 DEF Call, CallSet, Good, PlainCalls, Plain, Ops, Elements
  <2>6. New \in Seq(PlainCalls)
    BY <2>3, <2>5
  <2>7. <<>> \o stack = stack
    BY ConcatEmptySeq DEF Inv
  <2>8. Enter(New)
    BY <1>2, <2>3, <2>7 DEF Enter
  <2> QED BY <2>1, <2>2, <2>6, <2>8, EnterPlain DEF Poll
<1> QED BY <1>1, <1>2 DEF Poll

\* The next callback of a snapshot begins above what is left of it.
LEMMA DispatchStep ==
    ASSUME Inv, Dispatch
    PROVE  Inv'
PROOF
<1> USE SameLoop
<1>0. stack # <<>> /\ Top.op = "dispatch" /\ Top \in CallSet /\ Good(Top) /\ 1 <= Len(stack)
  BY Innermost DEF Dispatch, In, Top
<1>1. CASE Top.list = <<>>
  <2>1. Become(<<>>) /\ <<>> \in Seq(PlainCalls)
    BY <1>1 DEF Dispatch
  <2> QED BY <1>0, <2>1, BecomePlain DEF Dispatch, sdl
<1>2. CASE Top.list # <<>>
  <2>1. PICK i, rest : i = Head(Top.list) /\ rest = [Top EXCEPT !.list = Tail(@)]
    OBVIOUS
  <2>2. Top.list \in Seq(Nat) /\ i \in Elements(Top.list) /\ Elements(Tail(Top.list)) \subseteq Elements(Top.list)
        /\ Tail(Top.list) \in Seq(Nat)
    <3>1. Top.list \in Seq(Nat)
      BY <1>0 DEF CallSet
    <3> QED BY <1>2, <2>1, <3>1, ListElements
  <2>3. rest \in CallSet /\ rest.op = "dispatch" /\ rest.list = Tail(Top.list) /\ rest.before = Top.before
    BY <1>0, <2>1, <2>2 DEF CallSet
  <2>4. Good(rest) /\ i \in Registered /\ i \in rest.before
    BY <1>0, <2>2, <2>3 DEF Good
  <2>5. CASE Skipped(i)
    <3>1. Become(<<rest>>)
      BY <1>2, <2>1, <2>5 DEF Dispatch
    <3>2. <<rest>> \in Seq(PlainCalls)
      BY <2>3, <2>4 DEF PlainCalls, Plain, Ops
    <3> QED BY <1>0, <3>1, <3>2, BecomePlain DEF Dispatch, sdl
  <2>6. CASE ~Skipped(i)
    <3>1. PICK c : c = For("callback", i)
      OBVIOUS
    <3>2. Become(<<c, rest>>)
      BY <1>2, <2>1, <2>6, <3>1 DEF Dispatch
    <3>3. c \in CallSet /\ c.op = "callback" /\ c.item = i /\ Good(c)
      BY <2>4, <3>1 DEF For, Call, CallSet, Good, Ops
    <3>4. PICK New : New = <<c, rest>>
      OBVIOUS
    <3>5. New \in Seq(CallSet) /\ DOMAIN New = {1, 2} /\ Len(New) = 2 /\ New[1] = c /\ New[2] = rest
      BY <2>3, <3>3, <3>4
    <3>6. Replaces(New, 1)
      BY <1>0, <3>2, <3>4 DEF Become, Replaces
    <3>7. Above(c, rest) /\ ~NeedsCaller(rest) /\ \A e : Above(rest, e)
      BY <2>3, <2>4, <3>3 DEF Above, NeedsCaller, Batches
    <3>8. \A d \in DOMAIN stack : d <= 1 => stack[d].op # "evaluated"
      BY <1>0, Innermost
    <3>9. \A d \in DOMAIN New : Good(New[d]) /\ New[d].op \notin {"evaluated", "fire"}
                                /\ (New[d].op \in {"predicate", "claim"} => began[New[d].item] = 0)
      BY <2>3, <2>4, <3>3, <3>5
    <3>10. \A d \in DOMAIN New : d + 1 \in DOMAIN New => Above(New[d], New[d + 1])
      BY <3>5, <3>7
    <3>11. New # <<>> /\ 1 < Len(stack) => Above(New[Len(New)], stack[1 + 1])
      BY <3>5, <3>7
    <3>12. \A d \in DOMAIN New : NeedsCaller(New[d]) => d < Len(New) \/ 1 < Len(stack)
      BY <3>5, <3>7
    <3> QED BY <3>5, <3>6, <3>8, <3>9, <3>10, <3>11, <3>12, LoopStep DEF Dispatch, sdl
  <2> QED BY <2>5, <2>6
<1> QED BY <1>1, <1>2

\* A predicate that holds is followed by the claim, on top of the same evaluation.
LEMMA PredicateStep ==
    ASSUME Inv, PredicateReturns
    PROVE  Inv'
PROOF
<1> USE SameLoop
<1>0. stack # <<>> /\ Top.op = "predicate" /\ Top \in CallSet /\ Good(Top) /\ 1 <= Len(stack) /\ Top = stack[1]
      /\ 1 \in DOMAIN stack /\ Len(stack) \in Nat /\ DOMAIN stack = 1 .. Len(stack)
  BY Innermost DEF PredicateReturns, In, Top, Inv
<1>1. CASE Return
  <2>1. Become(<<>>) /\ <<>> \in Seq(PlainCalls)
    BY <1>1 DEF Return
  <2> QED BY <1>0, <2>1, BecomePlain DEF PredicateReturns, sdl
<1>2. CASE Become(<<For("claim", Top.item)>>)
  <2>1. PICK c : c = For("claim", Top.item)
    OBVIOUS
  <2>2. c \in CallSet /\ c.op = "claim" /\ c.item = Top.item
    BY <1>0, <2>1 DEF For, Call, CallSet, Ops
  <2>3. Good(c)
    BY <1>0, <2>2 DEF Good
  <2>4. PICK New : New = <<c>>
    OBVIOUS
  <2>5. New \in Seq(CallSet) /\ DOMAIN New = {1} /\ Len(New) = 1 /\ New[1] = c /\ New # <<>>
    BY <2>2, <2>4
  <2>6. Replaces(New, 1)
    BY <1>0, <1>2, <2>1, <2>4 DEF Become, Replaces
  <2>7. 1 < Len(stack) /\ Above(Top, stack[2])
    BY <1>0 DEF Inv, Nested, NeedsCaller
  <2>8. Above(c, stack[2])
    BY <1>0, <2>2, <2>7 DEF Above
  <2>9. began[Top.item] = 0
    <3>1. Top.item \in Items /\ Waits(Top.item)
      BY <1>0, SameLoop DEF Good, Waits
    <3> QED BY <3>1 DEF Inv, Once
  <2>10. \A d \in DOMAIN stack : d <= 1 => stack[d].op # "evaluated"
    BY <1>0, Innermost
  <2>11. \A d \in DOMAIN New : Good(New[d]) /\ New[d].op \notin {"evaluated", "fire"}
                               /\ (New[d].op \in {"predicate", "claim"} => began[New[d].item] = 0)
    BY <2>2, <2>3, <2>5, <2>9
  <2>12. \A d \in DOMAIN New : d + 1 \in DOMAIN New => Above(New[d], New[d + 1])
    BY <2>5
  <2>13. New # <<>> /\ 1 < Len(stack) => Above(New[Len(New)], stack[1 + 1])
    BY <2>5, <2>8
  <2> QED BY <2>5, <2>6, <2>7, <2>10, <2>11, <2>12, <2>13, LoopStep DEF PredicateReturns, sdl
<1> QED BY <1>1, <1>2 DEF PredicateReturns

\* A callback that returns leaves its batch, or ends the dispatch of an event.
LEMMA CallbackStep ==
    ASSUME Inv, CallbackReturns
    PROVE  Inv'
PROOF
<1> USE SameLoop
<1>0. stack # <<>> /\ Top.op = "callback" /\ Top \in CallSet /\ Good(Top) /\ 1 <= Len(stack) /\ Top = stack[1]
      /\ 1 \in DOMAIN stack /\ Len(stack) \in Nat /\ DOMAIN stack = 1 .. Len(stack)
  BY Innermost DEF CallbackReturns, In, Top, Inv
<1>1. finished' \subseteq Items
  BY <1>0 DEF CallbackReturns, Completed, Good
<1>2. {wakePending', quit'} \subseteq BOOLEAN /\ events' = events /\ sent' = sent
  BY DEF CallbackReturns, sdl
<1>3. CASE Return
  <2>1. Become(<<>>) /\ <<>> \in Seq(PlainCalls)
    BY <1>3 DEF Return
  <2> QED BY <1>0, <1>1, <1>2, <2>1, BecomePlain DEF CallbackReturns
<1>4. CASE Is(Top.item, "event") /\ stack' = Tail(Tail(stack))
  <2>1. 2 \in DOMAIN stack /\ stack[2].op = "dispatch"
    <3>1. NeedsCaller(stack[1]) /\ Nested
      BY <1>0, <1>4 DEF Inv, NeedsCaller
    <3>2. 1 + 1 \in DOMAIN stack /\ Above(stack[1], stack[1 + 1])
      BY <1>0, <3>1 DEF Nested
    <3> QED BY <1>0, <1>4, <3>2 DEF Above
  <2>2. PICK New : New = <<>>
    OBVIOUS
  <2>3. New \in Seq(PlainCalls)
    BY <2>2
  <2>4. 2 <= Len(stack) /\ \A d \in DOMAIN stack : d <= 2 => d = 1 \/ d = 2
    BY <1>0, <2>1
  <2>5. <<>> \o Tail(Tail(stack)) = Tail(Tail(stack))
    <3>1. stack \in Seq(CallSet)
      BY DEF Inv
    <3>2. Tail(stack) \in Seq(CallSet) /\ Len(Tail(stack)) = Len(stack) - 1
      BY <1>0, <3>1
    <3>3. PICK mid : mid = Tail(stack)
      OBVIOUS
    <3>4. mid \in Seq(CallSet) /\ Len(mid) > 0
      BY <1>0, <2>4, <3>2, <3>3
    <3>5. Tail(mid) \in Seq(CallSet)
      BY <3>4
    <3>6. <<>> \o Tail(mid) = Tail(mid)
      BY <3>5, ConcatEmptySeq
    <3> QED BY <3>3, <3>6
  <2>6. Replaces(New, 2)
    BY <1>4, <2>2, <2>4, <2>5 DEF Replaces
  <2>7. \A d \in DOMAIN stack : d <= 2 => stack[d].op # "evaluated"
    BY <1>0, <2>1, <2>4
  <2> QED BY <1>1, <1>2, <2>3, <2>6, <2>7, PlainStep DEF CallbackReturns
<1> QED BY <1>3, <1>4 DEF CallbackReturns

-----------------------------------------------------------------------------
(* Steps of the loop's thread that begin something.                        *)

\* Where nothing is registered and the queues lose items only, numbers stay right.
LEMMA NumberedKept ==
    ASSUME Inv, UNCHANGED <<program, registry>>, Elements(taskQueue') \subseteq Elements(taskQueue),
           Elements(conditionalQueue') \subseteq Elements(conditionalQueue),
           Elements(frameCallbackList') \subseteq Elements(frameCallbackList),
           Elements(eventCallbackList') \subseteq Elements(eventCallbackList),
           delays' \subseteq delays, \A i \in cancelled' : i \in cancelled \/ ~Is(i, "task")
    PROVE  Numbered'
PROOF
<1>1. Registered' = Registered /\ \A i, kind : Is(i, kind)' <=> Is(i, kind)
  BY DEF Registered, Items, Is, registry
<1>2. \A list : Elements(list)' = Elements(list)
  BY DEF Elements
<1>3. nextId' = nextId /\ id' = id
  BY DEF registry
<1> QED BY <1>1, <1>2, <1>3 DEF Inv, Numbered, Elements

\* A step of the loop's thread keeps what other threads rely on.
LEMMA RemoteKept ==
    ASSUME Inv, UNCHANGED <<program, registry, posters>>
    PROVE  remote' \in [Posters -> RemoteCalls] /\ (\A p \in Posters : Remote(p)')
PROOF BY DEF Inv, Remote, posters, registry, Registered, Items, Is

\* One new call, of a kind that neither is nor replaces an evaluation.
LEMMA OneCall ==
    ASSUME Inv, program' = program, NEW c \in CallSet, NEW k \in 0 .. 1, k <= Len(stack), Replaces(<<c>>, k),
           k < Len(stack) => Above(c, stack[k + 1]),
           NeedsCaller(c) => k < Len(stack),
           \A e \in DOMAIN stack : e > k => ~Same(c, stack[e])
    PROVE  stack' \in Seq(CallSet) /\ Nested' /\ Alone'
PROOF
<1>1. PICK New : New = <<c>>
  OBVIOUS
<1>2. New \in Seq(CallSet) /\ DOMAIN New = {1} /\ Len(New) = 1 /\ New[1] = c /\ New # <<>>
  BY <1>1
<1>3. Replaces(New, k)
  BY <1>1
<1>4. \A d \in DOMAIN New : d + 1 \in DOMAIN New => Above(New[d], New[d + 1])
  BY <1>2
<1>5. New # <<>> /\ k < Len(stack) => Above(New[Len(New)], stack[k + 1])
  BY <1>2
<1>6. \A d \in DOMAIN New : NeedsCaller(New[d]) => d < Len(New) \/ k < Len(stack)
  BY <1>2
<1>7. \A d \in DOMAIN New : \A e \in DOMAIN New : Same(New[d], New[e]) => d = e
  BY <1>2
<1>8. \A d \in DOMAIN New : \A e \in DOMAIN stack : e > k => ~Same(New[d], stack[e])
  BY <1>2
<1> QED BY <1>2, <1>3, <1>4, <1>5, <1>6, <1>7, <1>8, CallsKept DEF Inv

\* The types of calls.
LEMMA OpsTyped ==
    ASSUME stack \in Seq(CallSet)
    PROVE  \A d \in DOMAIN stack : stack[d].op \in Ops
PROOF
<1>1. \A d \in DOMAIN stack : stack[d] \in CallSet
  OBVIOUS
<1> QED BY <1>1 DEF CallSet

\* What begins is counted.
LEMMA BeginCounts ==
    ASSUME Inv, NEW i \in Items, began[i] = 0, Begin(i), program[i] \in OneShots
    PROVE  began' = [began EXCEPT ![i] = 1] /\ began' \in [Items -> 0 .. 2]
PROOF
<1>1. began \in [Items -> 0 .. 2]
  BY DEF Inv, TypeOK, Members
<1> QED BY <1>1 DEF Begin

\* A posted task is taken out of the queue as it begins.
LEMMA RunTaskStep ==
    ASSUME Inv, RunTask
    PROVE  Inv'
PROOF
<1> USE SameLoop
<1>0. stack # <<>> /\ Top.op = "draining" /\ Top \in CallSet /\ Good(Top) /\ 1 <= Len(stack) /\ Top = stack[1]
      /\ 1 \in DOMAIN stack /\ Len(stack) \in Nat /\ DOMAIN stack = 1 .. Len(stack) /\ stack \in Seq(CallSet)
  BY Innermost DEF RunTask, In, Top, Inv
<1>1. CASE Return /\ UNCHANGED <<taskQueue, began>>
  <2>1. Become(<<>>) /\ <<>> \in Seq(PlainCalls)
    BY <1>1 DEF Return
  <2>2. UNCHANGED <<program, registry, queues, flags, sent, clock, history, posters>>
        /\ UNCHANGED <<events, wakePending, quit, finished>>
    BY <1>1 DEF RunTask, queues, history, sdl
  <2> QED BY <1>0, <2>1, <2>2, BecomePlain
<1>2. ASSUME ~Drained(Top.limit), taskQueue' = Tail(taskQueue), Begin(Head(taskQueue)),
             Enter(<<For("callback", Head(taskQueue))>>)
      PROVE  Inv'
  <2> DEFINE i == Head(taskQueue)
  <2>1. taskQueue # <<>> /\ ~(id[i] > Top.limit)
    BY <1>2 DEF Drained
  <2>2. taskQueue \in Seq(Nat) /\ i \in Elements(taskQueue) /\ Elements(Tail(taskQueue)) \subseteq Elements(taskQueue)
    BY <2>1, Queues, ListElements
  <2>3. i \in Registered /\ i \in Items /\ i \in Nat /\ Is(i, "task")
    BY <2>2, Queues
  <2>4. i \in Top.before
    <3>1. id[i] \in Nat /\ Top.limit \in Nat
      BY <1>0, <2>3 DEF CallSet
    <3>2. id[i] <= Top.limit
      BY <2>1, <3>1
    <3> QED BY <1>0, <2>3, <3>2 DEF Good
  <2>5. began[i] = 0
    BY <2>2, <2>3 DEF Inv, Once, Waits
  <2>6. PICK c : c = For("callback", i)
    OBVIOUS
  <2> HIDE DEF i
  <2>7. c \in CallSet /\ c.op = "callback" /\ c.item = i /\ Good(c)
    BY <2>3, <2>6 DEF For, Call, CallSet, Good, Ops
  <2>8. Replaces(<<c>>, 0)
    BY <1>0, <1>2, <2>6 DEF Enter, Replaces, i
  <2>9. Above(c, stack[1]) /\ ~NeedsCaller(c) /\ \A e : ~Same(c, e)
    BY <1>0, <2>3, <2>4, <2>7 DEF Above, NeedsCaller, Same, Is
  <2>10. UNCHANGED <<program, registry, conditionalQueue, frameCallbackList, eventCallbackList, delays,
                     flags, sdl, clock, silenced, posters, finished>>
    BY DEF RunTask
  <2>11. stack' \in Seq(CallSet) /\ Nested' /\ Alone'
    <3>1. 0 \in 0 .. 1 /\ 0 <= Len(stack) /\ 0 + 1 = 1
      BY <1>0
    <3> QED BY <2>7, <2>8, <2>9, <2>10, <3>1, OneCall
  <2>12. PICK New : New = <<c>>
    OBVIOUS
  <2>13. New \in Seq(CallSet) /\ \A d \in DOMAIN New : New[d] = c
    BY <2>7, <2>12
  <2>14. Replaces(New, 0) /\ \A d \in DOMAIN stack : d <= 0 => stack[d].op # "evaluated"
    BY <1>0, <2>8, <2>12
  <2>15. GoodCalls'
    BY <2>7, <2>10, <2>13, <2>14, GoodKept DEF Inv
  <2>16. Items' = Items /\ Registered' = Registered /\ \A j, kind : Is(j, kind)' <=> Is(j, kind)
    BY <2>10 DEF Items, Registered, registry, Is
  <2>17. began' = [began EXCEPT ![i] = 1] /\ began' \in [Items -> 0 .. 2]
    <3>1. Begin(i) /\ program[i] \in OneShots
      BY <1>2, <2>3 DEF i, Is, OneShots
    <3> QED BY <2>3, <2>5, <3>1, BeginCounts
  <2>18. Tail(taskQueue) \in Seq({j \in Items : Is(j, "task")})
    BY <2>1 DEF Inv, TypeOK, Members
  <2>19. Members'
    <3>1. \A d \in DOMAIN stack' : stack'[d].op \in Ops
      <4>1. \A d \in DOMAIN stack' : stack'[d] \in CallSet
        BY <2>11
      <4> QED BY <4>1 DEF CallSet
    <3> QED BY <1>2, <2>10, <2>16, <2>17, <2>18, <3>1 DEF Inv, TypeOK, Members, registry, flags, sdl, posters
  <2>20. TypeOK'
    <3>1. evaluating' = evaluating
      BY <2>10 DEF flags
    <3> QED BY <2>7, <2>10, <2>13, <2>14, <2>19, <3>1, MarksKept DEF Inv, TypeOK
  <2>21. Numbered'
    BY <1>2, <2>2, <2>10, NumberedKept DEF flags
  <2>22. Once'
    <3>1. ASSUME NEW j \in Items, Waits(j)'
          PROVE  Waits(j) /\ j # i
      <4>1. CASE j \in Elements(taskQueue') \cup delays'
        <5>1. j \in Elements(taskQueue) \cup delays
          BY <1>2, <2>2, <2>10, <4>1
        <5>2. j # i
          <6>1. CASE j \in Elements(taskQueue')
            <7>1. PICK d \in DOMAIN Tail(taskQueue) : j = Tail(taskQueue)[d]
              BY <1>2, <6>1 DEF Elements
            <7>2. d + 1 \in DOMAIN taskQueue /\ j = taskQueue[d + 1] /\ d \in Nat /\ d # 0 /\ 1 \in DOMAIN taskQueue
                  /\ i = taskQueue[1]
              <8>1. DOMAIN Tail(taskQueue) = 1 .. Len(taskQueue) - 1 /\ Len(taskQueue) \in Nat
                    /\ DOMAIN taskQueue = 1 .. Len(taskQueue)
                BY <2>1, <2>2
              <8>2. \A m \in 1 .. Len(taskQueue) - 1 : Tail(taskQueue)[m] = taskQueue[m + 1]
                BY <2>1, <2>2
              <8>3. i = taskQueue[1]
                BY <2>1, <2>2 DEF i
              <8> QED BY <7>1, <8>1, <8>2, <8>3
            <7>3. \A m, l \in DOMAIN taskQueue : taskQueue[m] = taskQueue[l] => m = l
              BY DEF Inv, Once
            <7> QED BY <7>2, <7>3
          <6>2. CASE j \in delays'
            BY <2>3, <2>10, <6>2, Queues DEF Is
          <6> QED BY <4>1, <6>1, <6>2
        <5> QED BY <5>1, <5>2 DEF Waits
      <4>2. ASSUME NEW d \in DOMAIN stack', stack'[d].op \in {"fire", "predicate", "claim"}, stack'[d].item = j
            PROVE  Waits(j) /\ j # i
        <5>1. PICK e \in DOMAIN stack : stack'[d] = stack[e]
          BY <2>7, <2>13, <2>14, <4>2, <1>0, CallsMoved
        <5>2. Good(stack[e])
          BY DEF Inv, GoodCalls
        <5> QED BY <2>3, <4>2, <5>1, <5>2 DEF Waits, Good, Is
      <4>3. CASE \E p \in Posters : remote'[p].op = "insert" /\ remote'[p].item = j /\ Is(j, "timer")'
        BY <2>3, <2>10, <2>16, <4>3 DEF Waits, posters, Is
      <4> QED BY <3>1, <4>1, <4>2, <4>3 DEF Waits, Elements
    <3>2. \A m, l \in DOMAIN taskQueue' : taskQueue'[m] = taskQueue'[l] => m = l
      <4>1. DOMAIN Tail(taskQueue) = 1 .. Len(taskQueue) - 1 /\ Len(taskQueue) \in Nat /\ DOMAIN taskQueue = 1 .. Len(taskQueue)
            /\ \A d \in 1 .. Len(taskQueue) - 1 : Tail(taskQueue)[d] = taskQueue[d + 1]
        BY <2>1, <2>2
      <4>2. \A m, l \in DOMAIN taskQueue : taskQueue[m] = taskQueue[l] => m = l
        BY DEF Inv, Once
      <4>3. ASSUME NEW m \in 1 .. Len(taskQueue) - 1, NEW l \in 1 .. Len(taskQueue) - 1,
                   Tail(taskQueue)[m] = Tail(taskQueue)[l]
            PROVE  m = l
        <5>1. m + 1 \in DOMAIN taskQueue /\ l + 1 \in DOMAIN taskQueue /\ taskQueue[m + 1] = taskQueue[l + 1]
          BY <4>1, <4>3
        <5>2. m + 1 = l + 1
          BY <4>2, <5>1
        <5> QED BY <4>1, <5>2
      <4> QED BY <1>2, <4>1, <4>3
    <3>3. \A j : Calls("fire", j) = {} => Calls("fire", j)' = {}
      BY <1>0, <2>7, <2>13, <2>14, FiresKept
    <3>4. ASSUME NEW j \in Items
          PROVE  /\ began'[j] \in 0 .. 1
                 /\ j \notin Registered' => began'[j] = 0
                 /\ Is(j, "condition")' /\ began'[j] # 0 => j \in cancelled'
                 /\ Waits(j)' => began'[j] = 0
      <4>0. Waits(j)' => Waits(j) /\ j # i
        BY <3>1
      <4>1. CASE j = i
        <5>1. began'[j] = 1
          BY <2>3, <2>17, <4>1 DEF Inv, TypeOK, Members
        <5>2. j \in Registered' /\ ~Is(j, "condition")' /\ ~Waits(j)'
          BY <2>3, <2>16, <4>0, <4>1 DEF Is
        <5> QED BY <5>1, <5>2
      <4>2. CASE j # i
        <5>1. began'[j] = began[j]
          BY <2>17, <4>2 DEF Inv, TypeOK, Members
        <5>2. /\ began[j] \in 0 .. 1
              /\ j \notin Registered => began[j] = 0
              /\ Is(j, "condition") /\ began[j] # 0 => j \in cancelled
              /\ Waits(j) => began[j] = 0
          BY DEF Inv, Once
        <5>3. cancelled' = cancelled
          BY <2>10 DEF flags
        <5>4. Is(j, "condition")' <=> Is(j, "condition")
          BY <2>16
        <5> QED BY <2>16, <4>0, <5>1, <5>2, <5>3, <5>4
      <4> QED BY <4>1, <4>2
    <3>5. \A j \in delays' : Calls("fire", j)' = {}
      BY <2>10, <3>3 DEF Inv, Once
    <3>6. \A p \in Posters : remote'[p].op = "insert" =>
             /\ remote'[p].item \notin delays' /\ Calls("fire", remote[p].item)' = {}
             /\ \A q \in Posters : remote'[q].op = "insert" /\ remote'[q].item = remote'[p].item => q = p
      BY <2>10, <3>3 DEF Inv, Once, posters
    <3> QED BY <2>10, <2>16, <3>2, <3>4, <3>5, <3>6 DEF Once, posters
  <2> QED BY <2>10, <2>11, <2>15, <2>20, <2>21, <2>22, RemoteKept DEF Inv
<1> QED BY <1>1, <1>2 DEF RunTask

\* What is to begin stays so, when timers are taken and conditions end.
LEMMA OnceKept ==
    ASSUME Inv, UNCHANGED <<program, registry, posters, taskQueue>>, delays' \subseteq delays, cancelled \subseteq cancelled',
           \A j \in Items : Waits(j)' => (Waits(j) \/ began[j] = 0) /\ began'[j] = began[j],
           \A j \in Items : began'[j] = began[j]
                            \/ (began'[j] = 1 /\ j \in Registered /\ (Is(j, "condition") => j \in cancelled')),
           \A j \in delays' : Calls("fire", j)' = {},
           \A j : Calls("fire", j) = {} => j \in delays \/ Calls("fire", j)' = {}
    PROVE  Once'
PROOF
<1>1. Items' = Items /\ Registered' = Registered /\ \A j, kind : Is(j, kind)' <=> Is(j, kind)
  BY DEF Items, Registered, registry, Is
<1>2. ASSUME NEW j \in Items
      PROVE  /\ began'[j] \in 0 .. 1
             /\ j \notin Registered' => began'[j] = 0
             /\ Is(j, "condition")' /\ began'[j] # 0 => j \in cancelled'
             /\ Waits(j)' => began'[j] = 0
  <2>1. /\ began[j] \in 0 .. 1
        /\ j \notin Registered => began[j] = 0
        /\ Is(j, "condition") /\ began[j] # 0 => j \in cancelled
        /\ Waits(j) => began[j] = 0
    BY DEF Inv, Once
  <2>2. Is(j, "condition")' <=> Is(j, "condition")
    BY <1>1
  <2>3. Waits(j)' => (Waits(j) \/ began[j] = 0) /\ began'[j] = began[j]
    OBVIOUS
  <2>4. CASE began'[j] = began[j]
    BY <1>1, <2>1, <2>2, <2>3, <2>4
  <2>5. CASE began'[j] # began[j]
    BY <1>1, <2>2, <2>3, <2>5
  <2> QED BY <2>4, <2>5
<1>3. ASSUME NEW p \in Posters, remote[p].op = "insert"
      PROVE  /\ remote[p].item \notin delays' /\ Calls("fire", remote[p].item)' = {}
             /\ \A q \in Posters : remote[q].op = "insert" /\ remote[q].item = remote[p].item => q = p
  <2>1. PICK j : j = remote[p].item
    OBVIOUS
  <2>2. j \notin delays /\ Calls("fire", j) = {}
    BY <1>3, <2>1 DEF Inv, Once
  <2>3. Calls("fire", j)' = {}
    BY <2>2
  <2>4. Calls("fire", remote[p].item)' = Calls("fire", j)'
    BY <2>1 DEF posters, Calls
  <2> QED BY <1>3, <2>1, <2>2, <2>3, <2>4 DEF Inv, Once
<1>4. remote' = remote
  BY DEF posters
<1>5. \A k, l \in DOMAIN taskQueue' : taskQueue'[k] = taskQueue'[l] => k = l
  BY DEF Inv, Once
<1>6. \A p \in Posters : remote'[p].op = "insert" =>
         /\ remote'[p].item \notin delays' /\ Calls("fire", remote[p].item)' = {}
         /\ \A q \in Posters : remote'[q].op = "insert" /\ remote'[q].item = remote'[p].item => q = p
  BY <1>3, <1>4
<1> QED BY <1>1, <1>2, <1>5, <1>6 DEF Once

\* The parts of the invariant after a step of the loop's thread that changes the
\* conditions, the timers, and what began.
LEMMA Closing ==
    ASSUME Inv, UNCHANGED <<program, registry, posters, taskQueue, frameCallbackList, eventCallbackList,
                            sdl, clock, silenced, finished>>,
           stack' \in Seq(CallSet), Nested', Alone', GoodCalls',
           conditionalQueue' \in Seq({i \in Items : Is(i, "condition")}),
           Elements(conditionalQueue') \subseteq Elements(conditionalQueue),
           delays' \subseteq delays, cancelled \subseteq cancelled',
           \A i \in cancelled' : i \in cancelled \/ (i \in Registered /\ ~Is(i, "task")),
           began' \in [Items -> 0 .. 2], evaluating' = {i \in Items' : Calls("evaluated", i)' # {}}, Once'
    PROVE  Inv'
PROOF
<1>1. Items' = Items /\ Registered' = Registered /\ \A j, kind : Is(j, kind)' <=> Is(j, kind)
  BY DEF Items, Registered, registry, Is
<1>2. \A d \in DOMAIN stack' : stack'[d].op \in Ops
  <2>1. \A d \in DOMAIN stack' : stack'[d] \in CallSet
    OBVIOUS
  <2> QED BY <2>1 DEF CallSet
<1>3. Members'
  BY <1>1, <1>2 DEF Inv, TypeOK, Members, registry, sdl, posters
<1>4. Numbered'
  BY NumberedKept
<1>5. remote' \in [Posters -> RemoteCalls] /\ (\A p \in Posters : Remote(p)')
  BY RemoteKept
<1> QED BY <1>3, <1>4, <1>5 DEF Inv, TypeOK

\* A timer that is taken out of the queue fires next.
LEMMA RunTimerStep ==
    ASSUME Inv, RunTimer
    PROVE  Inv'
PROOF
<1> USE SameLoop
<1>0. stack # <<>> /\ Top.op = "delaying" /\ Top \in CallSet /\ Good(Top) /\ 1 <= Len(stack) /\ Top = stack[1]
      /\ 1 \in DOMAIN stack /\ Len(stack) \in Nat /\ DOMAIN stack = 1 .. Len(stack) /\ stack \in Seq(CallSet)
  BY Innermost DEF RunTimer, In, Top, Inv
<1>1. CASE Return /\ UNCHANGED delays
  <2>1. Become(<<>>) /\ <<>> \in Seq(PlainCalls)
    BY <1>1 DEF Return
  <2>2. UNCHANGED <<program, registry, queues, flags, sent, clock, history, posters>>
        /\ UNCHANGED <<events, wakePending, quit, finished>>
    BY <1>1 DEF RunTimer, queues, sdl
  <2> QED BY <1>0, <2>1, <2>2, BecomePlain
<1>2. ASSUME NEW i \in delays, InBatch(i), delays' = Taken(i), Enter(<<For("fire", i)>>)
      PROVE  Inv'
  <2>1. i \in Registered /\ i \in Items /\ i \in Nat /\ Is(i, "timer")
    BY Queues
  <2>2. i \in Top.before
    <3>1. id[i] \in Nat /\ Top.limit \in Nat /\ id[i] < Top.limit
      BY <1>0, <1>2, <2>1 DEF CallSet, InBatch
    <3> QED BY <1>0, <2>1, <3>1 DEF Good
  <2>3. PICK c : c = For("fire", i)
    OBVIOUS
  <2>4. c \in CallSet /\ c.op = "fire" /\ c.item = i /\ Good(c)
    BY <2>1, <2>3 DEF For, Call, CallSet, Good, Ops
  <2>5. Replaces(<<c>>, 0)
    BY <1>0, <1>2, <2>3 DEF Enter, Replaces
  <2>6. Calls("fire", i) = {}
    BY DEF Inv, Once
  <2>7. Above(c, stack[1]) /\ ~NeedsCaller(c) /\ \A e \in DOMAIN stack : ~Same(c, stack[e])
    BY <1>0, <2>2, <2>4, <2>6 DEF Above, NeedsCaller, Same, Calls
  <2>8. UNCHANGED <<program, registry, posters, taskQueue, conditionalQueue, frameCallbackList, eventCallbackList,
                    sdl, clock, silenced, finished>>
        /\ UNCHANGED <<evaluating, cancelled, began>>
    BY DEF RunTimer, flags, history
  <2>9. stack' \in Seq(CallSet) /\ Nested' /\ Alone'
    <3>1. 0 \in 0 .. 1 /\ 0 <= Len(stack) /\ 0 + 1 = 1
      BY <1>0
    <3> QED BY <2>4, <2>5, <2>7, <2>8, <3>1, OneCall
  <2>10. PICK New : New = <<c>>
    OBVIOUS
  <2>11. New \in Seq(CallSet) /\ \A d \in DOMAIN New : New[d] = c
    BY <2>4, <2>10
  <2>12. Replaces(New, 0) /\ \A d \in DOMAIN stack : d <= 0 => stack[d].op # "evaluated"
    BY <1>0, <2>5, <2>10
  <2>13. GoodCalls'
    BY <2>4, <2>8, <2>11, <2>12, GoodKept DEF Inv
  <2>14. evaluating' = {j \in Items' : Calls("evaluated", j)' # {}}
    BY <2>4, <2>8, <2>11, <2>12, MarksKept DEF Inv
  <2>15. ASSUME NEW d \in DOMAIN stack', stack'[d].op # "fire" \/ stack'[d].item # i
        PROVE  \E e \in DOMAIN stack : stack'[d] = stack[e]
    BY <1>0, <2>4, <2>11, <2>12, <2>15, CallsMoved
  <2>16. ASSUME NEW j, j # i, Calls("fire", j) = {}
         PROVE  Calls("fire", j)' = {}
    <3>1. ASSUME NEW d \in DOMAIN stack', stack'[d].op = "fire", stack'[d].item = j
          PROVE  FALSE
      <4>1. PICK e \in DOMAIN stack : stack'[d] = stack[e]
        BY <2>15, <2>16, <3>1
      <4> QED BY <2>16, <3>1, <4>1 DEF Calls
    <3> QED BY <3>1 DEF Calls
  <2>17. ASSUME NEW j \in Items, Waits(j)'
         PROVE  Waits(j)
    <3>1. CASE j = i
      BY <3>1 DEF Waits
    <3>2. CASE j # i
      <4>1. ASSUME NEW d \in DOMAIN stack', stack'[d].op \in {"fire", "predicate", "claim"}, stack'[d].item = j
            PROVE  Waits(j)
        <5>1. PICK e \in DOMAIN stack : stack'[d] = stack[e]
          BY <2>15, <3>2, <4>1
        <5> QED BY <4>1, <5>1 DEF Waits
      <4> QED BY <1>2, <2>8, <2>17, <4>1 DEF Waits, Taken, Elements, posters, Is
    <3> QED BY <3>1, <3>2
  <2>18. \A j \in delays' : Calls("fire", j)' = {}
    BY <1>2, <2>16 DEF Taken, Inv, Once
  <2>19. delays' \subseteq delays
    BY <1>2 DEF Taken
  <2>20. \A j : Calls("fire", j) = {} => j \in delays \/ Calls("fire", j)' = {}
    BY <2>16
  <2>21. Once'
    BY <2>8, <2>17, <2>18, <2>19, <2>20, OnceKept
  <2>22. conditionalQueue' \in Seq({j \in Items : Is(j, "condition")}) /\ began' \in [Items -> 0 .. 2]
    BY <2>8 DEF Inv, TypeOK, Members
  <2> QED BY <2>8, <2>9, <2>13, <2>14, <2>19, <2>21, <2>22, Closing
<1> QED BY <1>1, <1>2 DEF RunTimer

\* The timer begins, unless its flag was set meanwhile.
LEMMA FireStep ==
    ASSUME Inv, Fire
    PROVE  Inv'
PROOF
<1> USE SameLoop
<1>0. stack # <<>> /\ Top.op = "fire" /\ Top \in CallSet /\ Good(Top) /\ 1 <= Len(stack) /\ Top = stack[1]
      /\ 1 \in DOMAIN stack /\ Len(stack) \in Nat /\ DOMAIN stack = 1 .. Len(stack) /\ stack \in Seq(CallSet)
  BY Innermost DEF Fire, In, Top, Inv
<1>1. CASE Return /\ UNCHANGED began
  <2>1. Become(<<>>) /\ <<>> \in Seq(PlainCalls)
    BY <1>1 DEF Return
  <2>2. UNCHANGED <<program, registry, queues, flags, sent, clock, history, posters>>
        /\ UNCHANGED <<events, wakePending, quit, finished>>
    BY <1>1 DEF Fire, history, sdl
  <2> QED BY <1>0, <2>1, <2>2, BecomePlain
<1>2. ASSUME Become(<<For("callback", Top.item)>>), Begin(Top.item)
      PROVE  Inv'
  <2>0. PICK i : i = Top.item
    OBVIOUS
  <2>1. i \in Registered /\ i \in Items /\ i \in Nat /\ Is(i, "timer")
    BY <1>0, <2>0 DEF Good
  <2>2. began[i] = 0
    <3>1. Waits(i)
      BY <1>0, <2>0 DEF Waits
    <3> QED BY <2>1, <3>1 DEF Inv, Once
  <2>3. PICK c : c = For("callback", i)
    OBVIOUS
  <2>4. c \in CallSet /\ c.op = "callback" /\ c.item = i /\ Good(c)
    BY <2>1, <2>3 DEF For, Call, CallSet, Good, Ops
  <2>5. Replaces(<<c>>, 1)
    BY <1>0, <1>2, <2>0, <2>3 DEF Become, Replaces
  <2>6. ~NeedsCaller(c) /\ \A e \in DOMAIN stack : ~Same(c, stack[e])
    BY <2>1, <2>4 DEF NeedsCaller, Same, Is
  <2>7. 1 < Len(stack) => Above(c, stack[1 + 1])
    <3>1. 1 < Len(stack) => Above(stack[1], stack[1 + 1])
      BY <1>0 DEF Inv, Nested
    <3> QED BY <1>0, <2>0, <2>1, <2>4, <3>1 DEF Above, Is
  <2>8. UNCHANGED <<program, registry, posters, taskQueue, conditionalQueue, frameCallbackList, eventCallbackList,
                    sdl, clock, silenced, finished>>
        /\ UNCHANGED <<evaluating, cancelled, delays>>
    BY DEF Fire, flags, queues
  <2>9. stack' \in Seq(CallSet) /\ Nested' /\ Alone'
    <3>1. 1 \in 0 .. 1
      OBVIOUS
    <3> QED BY <1>0, <2>4, <2>5, <2>6, <2>7, <2>8, <3>1, OneCall
  <2>10. PICK New : New = <<c>>
    OBVIOUS
  <2>11. New \in Seq(CallSet) /\ \A d \in DOMAIN New : New[d] = c
    BY <2>4, <2>10
  <2>12. Replaces(New, 1) /\ \A d \in DOMAIN stack : d <= 1 => stack[d].op # "evaluated"
    BY <1>0, <2>5, <2>10, Innermost
  <2>13. GoodCalls'
    BY <2>4, <2>8, <2>11, <2>12, GoodKept DEF Inv
  <2>14. evaluating' = {j \in Items' : Calls("evaluated", j)' # {}}
    BY <2>4, <2>8, <2>11, <2>12, MarksKept DEF Inv
  <2>15. ASSUME NEW d \in DOMAIN stack', stack'[d].op # "callback"
         PROVE  \E e \in DOMAIN stack : e > 1 /\ stack'[d] = stack[e]
    BY <1>0, <2>4, <2>11, <2>12, <2>15, CallsMoved
  <2>16. \A j : Calls("fire", j) = {} => Calls("fire", j)' = {}
    BY <1>0, <2>4, <2>11, <2>12, FiresKept
  <2>17. began' = [began EXCEPT ![i] = 1] /\ began' \in [Items -> 0 .. 2]
    <3>1. Begin(i) /\ program[i] \in OneShots
      BY <1>2, <2>0, <2>1 DEF Is, OneShots
    <3> QED BY <2>1, <2>2, <3>1, BeginCounts
  <2>18. ASSUME NEW j \in Items, Waits(j)'
         PROVE  Waits(j) /\ j # i
    <3>1. CASE j \in Elements(taskQueue) \cup delays
      <4>1. i \notin Elements(taskQueue)
        BY <2>1, Queues DEF Is
      <4>2. i \notin delays
        <5>1. 1 \in Calls("fire", i)
          BY <1>0, <2>0 DEF Calls
        <5> QED BY <5>1 DEF Inv, Once
      <4> QED BY <3>1, <4>1, <4>2 DEF Waits
    <3>2. ASSUME NEW d \in DOMAIN stack', stack'[d].op \in {"fire", "predicate", "claim"}, stack'[d].item = j
          PROVE  Waits(j) /\ j # i
      <4>1. PICK e \in DOMAIN stack : e > 1 /\ stack'[d] = stack[e]
        BY <2>15, <3>2
      <4>2. Good(stack[e])
        BY DEF Inv, GoodCalls
      <4>3. CASE stack[e].op = "fire" /\ j = i
        <5>1. Same(stack[1], stack[e])
          BY <1>0, <2>0, <3>2, <4>1, <4>3 DEF Same
        <5> QED BY <1>0, <4>1, <5>1 DEF Inv, Alone
      <4>4. CASE stack[e].op # "fire" \/ j # i
        BY <2>1, <3>2, <4>1, <4>2, <4>4 DEF Waits, Good, Is
      <4> QED BY <4>3, <4>4
    <3>3. CASE \E p \in Posters : remote[p].op = "insert" /\ remote[p].item = j /\ Is(j, "timer")
      <4>1. 1 \in Calls("fire", i)
        BY <1>0, <2>0 DEF Calls
      <4> QED BY <3>3, <4>1 DEF Waits, Inv, Once
    <3> QED BY <2>8, <2>18, <3>1, <3>2, <3>3 DEF Waits, Elements, posters, Is
  <2>19. \A j \in Items : began'[j] = IF j = i THEN 1 ELSE began[j]
    <3>1. began \in [Items -> 0 .. 2]
      BY DEF Inv, TypeOK, Members
    <3> QED BY <2>17, <3>1
  <2>20. \A j \in Items : Waits(j)' => Waits(j) /\ began'[j] = began[j]
    BY <2>18, <2>19
  <2>21. \A j \in Items : began'[j] = began[j]
                          \/ (began'[j] = 1 /\ j \in Registered /\ (Is(j, "condition") => j \in cancelled'))
    BY <2>1, <2>19 DEF Is
  <2>22. \A j \in delays' : Calls("fire", j)' = {}
    BY <2>8, <2>16 DEF Inv, Once
  <2>23. Once'
    BY <2>8, <2>16, <2>20, <2>21, <2>22, OnceKept
  <2>24. conditionalQueue' \in Seq({j \in Items : Is(j, "condition")})
    BY <2>8 DEF Inv, TypeOK, Members
  <2> QED BY <2>8, <2>9, <2>13, <2>14, <2>17, <2>23, <2>24, Closing
<1> QED BY <1>1, <1>2 DEF Fire

\* What a step of an evaluation leaves: calls that do not fire, in the place of the
\* innermost one, and conditions taken out of their queue or claimed.
LEMMA ConditionStep ==
    ASSUME Inv, UNCHANGED <<program, registry, posters, taskQueue, frameCallbackList, eventCallbackList,
                            delays, sdl, clock, silenced, finished>>,
           NEW New \in Seq(CallSet), Replaces(New, 1), stack' \in Seq(CallSet), Nested', Alone',
           \A d \in DOMAIN New : Good(New[d]) /\ New[d].op # "fire"
                                 /\ (New[d].op \in {"predicate", "claim"} => began[New[d].item] = 0),
           conditionalQueue' = conditionalQueue \/ \E i : conditionalQueue' = Without(conditionalQueue, i),
           cancelled \subseteq cancelled', \A i \in cancelled' : i \in cancelled \/ (i \in Registered /\ Is(i, "condition")),
           began' \in [Items -> 0 .. 2],
           \A j \in Items : began'[j] = began[j]
              \/ (/\ began'[j] = 1 /\ j \in Registered /\ Is(j, "condition") /\ j \in cancelled'
                  /\ \A d \in DOMAIN stack' : stack'[d].op \in {"predicate", "claim"} => stack'[d].item # j),
           evaluating' = {i \in Items' : Calls("evaluated", i)' # {}}
    PROVE  Inv'
PROOF
<1>1. stack \in Seq(CallSet) /\ GoodCalls
  BY DEF Inv
<1>2. GoodCalls'
  BY <1>1, GoodKept
<1>3. conditionalQueue' \in Seq({i \in Items : Is(i, "condition")})
      /\ Elements(conditionalQueue') \subseteq Elements(conditionalQueue)
  <2>1. conditionalQueue \in Seq({i \in Items : Is(i, "condition")})
    BY DEF Inv, TypeOK, Members
  <2>2. CASE conditionalQueue' = conditionalQueue
    BY <2>1, <2>2
  <2>3. ASSUME NEW i, conditionalQueue' = Without(conditionalQueue, i)
        PROVE  /\ conditionalQueue' \in Seq({j \in Items : Is(j, "condition")})
               /\ Elements(conditionalQueue') \subseteq Elements(conditionalQueue)
    BY <2>1, <2>3, WithoutKeeps
  <2> QED BY <2>2, <2>3
<1>4. \A j : Calls("fire", j) = {} => Calls("fire", j)' = {}
  BY <1>1, FiresKept
<1>5. ASSUME NEW j \in Items, Waits(j)'
      PROVE  (Waits(j) \/ began[j] = 0) /\ began'[j] = began[j]
  <2>1. CASE j \in Elements(taskQueue) \cup delays
    <3>1. Waits(j) /\ ~Is(j, "condition")
      BY <2>1, Queues DEF Waits, Is
    <3> QED BY <3>1
  <2>2. ASSUME NEW d \in DOMAIN stack', stack'[d].op \in {"fire", "predicate", "claim"}, stack'[d].item = j
        PROVE  (Waits(j) \/ began[j] = 0) /\ began'[j] = began[j]
    <3>1. CASE \E e \in DOMAIN New : stack'[d] = New[e]
      BY <2>2, <3>1
    <3>2. ASSUME NEW e \in DOMAIN stack, stack'[d] = stack[e]
          PROVE  (Waits(j) \/ began[j] = 0) /\ began'[j] = began[j]
      <4>1. Waits(j)
        BY <2>2, <3>2 DEF Waits
      <4>2. stack[e].op = "fire" => ~Is(j, "condition")
        BY <1>1, <2>2, <3>2 DEF GoodCalls, Good, Is
      <4> QED BY <2>2, <3>2, <4>1, <4>2
    <3> QED BY <1>1, <3>1, <3>2, CallsMoved
  <2>3. CASE \E p \in Posters : remote[p].op = "insert" /\ remote[p].item = j /\ Is(j, "timer")
    BY <2>3 DEF Waits, Is
  <2> QED BY <1>5, <2>1, <2>2, <2>3 DEF Waits, Elements, posters, Is
<1>6. \A j \in delays' : Calls("fire", j)' = {}
  BY <1>4 DEF Inv, Once
<1>7. Once'
  BY <1>4, <1>5, <1>6, OnceKept
<1>8. \A i \in cancelled' : i \in cancelled \/ (i \in Registered /\ ~Is(i, "task"))
  BY DEF Is
<1> QED BY <1>2, <1>3, <1>7, <1>8, Closing

\* An evaluation of a snapshot: the next condition, unless it was met or is being
\* evaluated already.
LEMMA EvaluateStep ==
    ASSUME Inv, Evaluate
    PROVE  Inv'
PROOF
<1> USE SameLoop
<1>0. stack # <<>> /\ Top.op = "evaluate" /\ Top \in CallSet /\ Good(Top) /\ 1 <= Len(stack) /\ Top = stack[1]
      /\ 1 \in DOMAIN stack /\ Len(stack) \in Nat /\ DOMAIN stack = 1 .. Len(stack) /\ stack \in Seq(CallSet)
  BY Innermost DEF Evaluate, In, Top, Inv
<1>1. UNCHANGED <<program, registry, posters, taskQueue, frameCallbackList, eventCallbackList,
                  delays, sdl, clock, silenced, finished>>
      /\ UNCHANGED <<cancelled, began>>
  BY DEF Evaluate, history
<1>2. CASE Top.list = <<>>
  <2>1. Become(<<>>) /\ <<>> \in Seq(PlainCalls) /\ UNCHANGED <<conditionalQueue, evaluating>>
    BY <1>2 DEF Return, Evaluate
  <2>2. UNCHANGED <<program, registry, queues, flags, sent, clock, history, posters>>
        /\ UNCHANGED <<events, wakePending, quit, finished>>
    BY <1>1, <2>1 DEF flags, queues, sdl, history
  <2> QED BY <1>0, <2>1, <2>2, BecomePlain
<1>3. CASE Top.list # <<>>
  <2>1. PICK i, rest : i = Head(Top.list) /\ rest = [Top EXCEPT !.list = Tail(@)]
    OBVIOUS
  <2>2. Top.list \in Seq(Nat) /\ i \in Elements(Top.list) /\ Elements(Tail(Top.list)) \subseteq Elements(Top.list)
        /\ Tail(Top.list) \in Seq(Nat)
    <3>1. Top.list \in Seq(Nat)
      BY <1>0 DEF CallSet
    <3> QED BY <1>3, <2>1, <3>1, ListElements
  <2>3. rest \in CallSet /\ rest.op = "evaluate" /\ rest.list = Tail(Top.list) /\ rest.before = Top.before
    BY <1>0, <2>1, <2>2 DEF CallSet
  <2>4. Good(rest) /\ i \in Registered /\ i \in rest.before /\ Is(i, "condition") /\ i \in Items /\ i \in Nat
    BY <1>0, <2>2, <2>3 DEF Good
  <2>5. \A e : Above(rest, e) /\ ~NeedsCaller(rest) /\ ~Same(rest, e) /\ ~Same(e, rest)
    BY <2>3 DEF Above, NeedsCaller, Same
  <2>6. CASE Become(<<rest>>) /\ UNCHANGED evaluating
             /\ conditionalQueue' \in {conditionalQueue, Without(conditionalQueue, i)}
    <3>1. Replaces(<<rest>>, 1)
      BY <1>0, <2>6 DEF Become, Replaces
    <3>2. stack' \in Seq(CallSet) /\ Nested' /\ Alone'
      <4>1. 1 \in 0 .. 1
        OBVIOUS
      <4> QED BY <1>0, <1>1, <2>3, <2>5, <3>1, <4>1, OneCall
    <3>3. PICK New : New = <<rest>>
      OBVIOUS
    <3>4. New \in Seq(CallSet) /\ Replaces(New, 1) /\ \A d \in DOMAIN New : New[d] = rest
      BY <2>3, <3>1, <3>3
    <3>5. \A d \in DOMAIN stack : d <= 1 => stack[d].op # "evaluated"
      BY <1>0, Innermost
    <3>6. \A d \in DOMAIN New : New[d].op # "evaluated"
      BY <2>3, <3>4
    <3>7. evaluating' = {j \in Items' : Calls("evaluated", j)' # {}}
      BY <1>0, <1>1, <2>6, <3>4, <3>5, <3>6, MarksKept DEF Inv
    <3>8. \A d \in DOMAIN New : Good(New[d]) /\ New[d].op # "fire"
                                /\ (New[d].op \in {"predicate", "claim"} => began[New[d].item] = 0)
      BY <2>3, <2>4, <3>4
    <3>9. conditionalQueue' = conditionalQueue \/ \E j : conditionalQueue' = Without(conditionalQueue, j)
      BY <2>6
    <3>10. began' \in [Items -> 0 .. 2]
      BY <1>1 DEF Inv, TypeOK, Members
    <3> QED BY <1>1, <3>2, <3>4, <3>7, <3>8, <3>9, <3>10, ConditionStep
  <2>7. CASE ~Skipped(i) /\ ~Busy(i) /\ evaluating' = evaluating \cup {i} /\ UNCHANGED conditionalQueue
             /\ Become(<<For("predicate", i), For("evaluated", i), rest>>)
    <3>1. PICK c, e : c = For("predicate", i) /\ e = For("evaluated", i)
      OBVIOUS
    <3>2. c \in CallSet /\ c.op = "predicate" /\ c.item = i /\ e \in CallSet /\ e.op = "evaluated" /\ e.item = i
      BY <2>4, <3>1 DEF For, Call, CallSet, Ops
    <3>3. Good(c) /\ Good(e)
      BY <2>4, <3>2 DEF Good
    <3>4. PICK New : New = <<c, e, rest>>
      OBVIOUS
    <3>5. New \in Seq(CallSet) /\ DOMAIN New = {1, 2, 3} /\ Len(New) = 3 /\ New[1] = c /\ New[2] = e /\ New[3] = rest
      BY <2>3, <3>2, <3>4
    <3>6. Replaces(New, 1)
      BY <1>0, <2>7, <3>1, <3>4 DEF Become, Replaces
    <3>7. Calls("evaluated", i) = {}
      BY <2>4, <2>7 DEF Busy, Inv, TypeOK
    <3>8. began[i] = 0
      BY <2>4, <2>7 DEF Skipped, Inv, Once
    <3>9. Above(c, e) /\ Above(e, rest)
      BY <2>3, <2>4, <3>2 DEF Above, Batches
    <3>10. stack' \in Seq(CallSet) /\ Nested' /\ Alone'
      <4>1. \A d \in DOMAIN New : d + 1 \in DOMAIN New => Above(New[d], New[d + 1])
        BY <3>5, <3>9
      <4>2. New # <<>> /\ 1 < Len(stack) => Above(New[Len(New)], stack[1 + 1])
        BY <2>5, <3>5
      <4>3. \A d \in DOMAIN New : NeedsCaller(New[d]) => d < Len(New) \/ 1 < Len(stack)
        BY <2>5, <3>5
      <4>4. ~Same(c, e) /\ ~Same(e, c)
        BY <3>2 DEF Same
      <4>5. \A d \in DOMAIN New : \A f \in DOMAIN New : Same(New[d], New[f]) => d = f
        BY <2>5, <3>5, <4>4
      <4>6. \A f \in DOMAIN stack : ~Same(c, stack[f]) /\ ~Same(e, stack[f]) /\ ~Same(rest, stack[f])
        BY <2>5, <3>2, <3>7 DEF Same, Calls
      <4>7. \A d \in DOMAIN New : \A f \in DOMAIN stack : f > 1 => ~Same(New[d], stack[f])
        BY <3>5, <4>6
      <4> QED BY <1>0, <1>1, <3>5, <3>6, <4>1, <4>2, <4>3, <4>5, <4>7, CallsKept DEF Inv
    <3>11. \A d \in DOMAIN New : Good(New[d]) /\ New[d].op # "fire"
                                 /\ (New[d].op \in {"predicate", "claim"} => began[New[d].item] = 0)
      BY <2>3, <2>4, <3>2, <3>3, <3>5, <3>8
    <3>12. evaluating' = {j \in Items' : Calls("evaluated", j)' # {}}
      <4>1. ASSUME NEW j \in Items
            PROVE  Calls("evaluated", j)' # {} <=> j = i \/ Calls("evaluated", j) # {}
        <5>1. \E f \in DOMAIN stack' : stack'[f] = New[2]
          BY <1>0, <3>5, <3>6, CallsMoved
        <5>2. Calls("evaluated", i)' # {}
          BY <3>2, <3>5, <5>1 DEF Calls
        <5>3. ASSUME NEW d \in DOMAIN stack, stack[d].op = "evaluated", stack[d].item = j
              PROVE  Calls("evaluated", j)' # {}
          <6>1. d > 1
            BY <1>0, <5>3, Innermost
          <6>2. PICK f \in DOMAIN stack' : stack'[f] = stack[d]
            BY <1>0, <3>5, <3>6, <6>1, CallsMoved
          <6> QED BY <5>3, <6>2 DEF Calls
        <5>4. ASSUME NEW d \in DOMAIN stack', stack'[d].op = "evaluated", stack'[d].item = j
              PROVE  j = i \/ Calls("evaluated", j) # {}
          <6>1. CASE \E f \in DOMAIN New : stack'[d] = New[f]
            BY <2>3, <3>2, <3>5, <5>4, <6>1
          <6>2. CASE \E f \in DOMAIN stack : stack'[d] = stack[f]
            BY <5>4, <6>2 DEF Calls
          <6> QED BY <1>0, <3>5, <3>6, <6>1, <6>2, CallsMoved
        <5> QED BY <5>2, <5>3, <5>4 DEF Calls
      <4>2. Items' = Items
        BY <1>1 DEF Items
      <4>3. evaluating = {j \in Items : Calls("evaluated", j) # {}}
        BY DEF Inv, TypeOK
      <4> QED BY <2>4, <2>7, <4>1, <4>2, <4>3
    <3>13. began' \in [Items -> 0 .. 2]
      BY <1>1 DEF Inv, TypeOK, Members
    <3> QED BY <1>1, <2>7, <3>5, <3>6, <3>10, <3>11, <3>12, <3>13, ConditionStep
  <2> QED BY <1>3, <2>1, <2>6, <2>7 DEF Evaluate
<1> QED BY <1>2, <1>3

\* A condition that holds is claimed once: it is in the queue and not cancelled, and
\* no other evaluation of it is going on.
LEMMA ClaimStep ==
    ASSUME Inv, Claim
    PROVE  Inv'
PROOF
<1> USE SameLoop
<1>0. stack # <<>> /\ Top.op = "claim" /\ Top \in CallSet /\ Good(Top) /\ 1 <= Len(stack) /\ Top = stack[1]
      /\ 1 \in DOMAIN stack /\ Len(stack) \in Nat /\ DOMAIN stack = 1 .. Len(stack) /\ stack \in Seq(CallSet)
  BY Innermost DEF Claim, In, Top, Inv
<1>1. PICK i : i = Top.item
  OBVIOUS
<1>2. i \in Registered /\ Is(i, "condition") /\ i \in Items /\ i \in Nat
  BY <1>0, <1>1 DEF Good
<1>3. UNCHANGED <<program, registry, posters, taskQueue, frameCallbackList, eventCallbackList,
                  delays, sdl, clock, silenced, finished>>
      /\ evaluating' = evaluating /\ conditionalQueue' = Without(conditionalQueue, i)
  BY <1>1 DEF Claim
<1>4. 2 \in DOMAIN stack /\ 1 < Len(stack) /\ stack[2].op = "evaluated" /\ stack[2].item = i
  <2>1. NeedsCaller(stack[1]) /\ Nested
    BY <1>0 DEF Inv, NeedsCaller
  <2>2. 1 + 1 \in DOMAIN stack /\ Above(stack[1], stack[1 + 1])
    BY <1>0, <2>1 DEF Nested
  <2> QED BY <1>0, <1>1, <2>2 DEF Above
<1>5. ASSUME NEW New \in Seq(CallSet), Replaces(New, 1), \A d \in DOMAIN New : New[d].op # "evaluated"
      PROVE  evaluating' = {j \in Items' : Calls("evaluated", j)' # {}}
  <2>1. \A d \in DOMAIN stack : d <= 1 => stack[d].op # "evaluated"
    BY <1>0, Innermost
  <2> QED BY <1>0, <1>3, <1>5, <2>1, MarksKept DEF Inv
<1>6. CASE ~MayClaim(i)
  <2>1. Return /\ UNCHANGED <<cancelled, began>>
    BY <1>1, <1>6 DEF Claim
  <2>2. PICK New : New = <<>>
    OBVIOUS
  <2>3. New \in Seq(CallSet) /\ DOMAIN New = {} /\ Replaces(New, 1)
    BY <1>0, <2>1, <2>2 DEF Return, Become, Replaces
  <2>4. stack' \in Seq(CallSet) /\ Nested' /\ Alone'
    BY <1>0, <1>3, <2>2, <2>3, CallsKept DEF Inv
  <2>5. began' \in [Items -> 0 .. 2]
    BY <2>1 DEF Inv, TypeOK, Members
  <2>6. evaluating' = {j \in Items' : Calls("evaluated", j)' # {}}
    BY <1>5, <2>3
  <2> QED BY <1>3, <2>1, <2>3, <2>4, <2>5, <2>6, ConditionStep
<1>7. CASE MayClaim(i)
  <2>1. cancelled' = cancelled \cup {i} /\ Begin(i) /\ Become(<<For("callback", i)>>)
    BY <1>1, <1>7 DEF Claim
  <2>2. began[i] = 0
    <3>1. Waits(i)
      BY <1>0, <1>1 DEF Waits
    <3> QED BY <1>2, <3>1 DEF Inv, Once
  <2>3. PICK c : c = For("callback", i)
    OBVIOUS
  <2>4. c \in CallSet /\ c.op = "callback" /\ c.item = i /\ Good(c)
    BY <1>2, <2>3 DEF For, Call, CallSet, Good, Ops
  <2>5. Replaces(<<c>>, 1)
    BY <1>0, <2>1, <2>3 DEF Become, Replaces
  <2>6. Above(c, stack[1 + 1]) /\ ~NeedsCaller(c) /\ \A e \in DOMAIN stack : ~Same(c, stack[e])
    BY <1>2, <1>4, <2>4 DEF Above, NeedsCaller, Same, Is, Batches
  <2>7. stack' \in Seq(CallSet) /\ Nested' /\ Alone'
    <3>1. 1 \in 0 .. 1
      OBVIOUS
    <3> QED BY <1>0, <1>3, <2>4, <2>5, <2>6, <3>1, OneCall
  <2>8. PICK New : New = <<c>>
    OBVIOUS
  <2>9. New \in Seq(CallSet) /\ Replaces(New, 1) /\ \A d \in DOMAIN New : New[d] = c
    BY <2>4, <2>5, <2>8
  <2>10. began' = [began EXCEPT ![i] = 1] /\ began' \in [Items -> 0 .. 2]
    <3>1. program[i] \in OneShots
      BY <1>2 DEF Is, OneShots
    <3> QED BY <1>2, <2>1, <2>2, <3>1, BeginCounts
  <2>11. ASSUME NEW d \in DOMAIN stack', stack'[d].op \in {"predicate", "claim"}
         PROVE  stack'[d].item # i
    <3>1. PICK e \in DOMAIN stack : e > 1 /\ stack'[d] = stack[e]
      BY <1>0, <2>4, <2>9, <2>11, CallsMoved
    <3>2. e + 1 \in DOMAIN stack /\ Above(stack[e], stack[e + 1])
      BY <2>11, <3>1 DEF Inv, Nested, NeedsCaller
    <3>3. stack[e].item = i => Same(stack[2], stack[e + 1])
      BY <1>4, <2>11, <3>1, <3>2 DEF Above, Same
    <3> QED BY <1>0, <1>4, <3>1, <3>2, <3>3 DEF Inv, Alone
  <2>12. \A j \in Items : began'[j] = began[j]
           \/ (/\ began'[j] = 1 /\ j \in Registered /\ Is(j, "condition") /\ j \in cancelled'
               /\ \A d \in DOMAIN stack' : stack'[d].op \in {"predicate", "claim"} => stack'[d].item # j)
    <3>1. \A j \in Items : began'[j] = IF j = i THEN 1 ELSE began[j]
      BY <2>10 DEF Inv, TypeOK, Members
    <3> QED BY <1>2, <2>1, <2>11, <3>1
  <2>13. \A d \in DOMAIN New : Good(New[d]) /\ New[d].op # "fire"
                               /\ (New[d].op \in {"predicate", "claim"} => began[New[d].item] = 0)
    BY <2>4, <2>9
  <2>14. evaluating' = {j \in Items' : Calls("evaluated", j)' # {}}
    BY <1>5, <2>4, <2>9
  <2>15. conditionalQueue' = conditionalQueue \/ \E j : conditionalQueue' = Without(conditionalQueue, j)
    BY <1>3
  <2>16. cancelled \subseteq cancelled' /\ \A j \in cancelled' : j \in cancelled \/ (j \in Registered /\ Is(j, "condition"))
    BY <1>2, <2>1
  <2> QED BY <1>3, <2>7, <2>9, <2>10, <2>12, <2>13, <2>14, <2>15, <2>16, ConditionStep
<1> QED BY <1>6, <1>7

\* The mark goes with the evaluation, of which there was one.
LEMMA EvaluatedStep ==
    ASSUME Inv, Evaluated
    PROVE  Inv'
PROOF
<1> USE SameLoop
<1>0. stack # <<>> /\ Top.op = "evaluated" /\ Top \in CallSet /\ Good(Top) /\ 1 <= Len(stack) /\ Top = stack[1]
      /\ 1 \in DOMAIN stack /\ Len(stack) \in Nat /\ DOMAIN stack = 1 .. Len(stack) /\ stack \in Seq(CallSet)
  BY Innermost DEF Evaluated, In, Top, Inv
<1>1. PICK i : i = Top.item
  OBVIOUS
<1>2. UNCHANGED <<program, registry, posters, taskQueue, frameCallbackList, eventCallbackList,
                  delays, sdl, clock, silenced, finished>>
      /\ UNCHANGED <<cancelled, began>>
      /\ evaluating' = evaluating \ {i} /\ conditionalQueue' \in {conditionalQueue, Without(conditionalQueue, i)}
  BY <1>1 DEF Evaluated, Released, history
<1>3. PICK New : New = <<>>
  OBVIOUS
<1>4. New \in Seq(CallSet) /\ DOMAIN New = {} /\ Replaces(New, 1)
  BY <1>0, <1>3 DEF Evaluated, Return, Become, Replaces
<1>5. stack' \in Seq(CallSet) /\ Nested' /\ Alone'
  BY <1>0, <1>2, <1>3, <1>4, CallsKept DEF Inv
<1>6. began' \in [Items -> 0 .. 2]
  BY <1>2 DEF Inv, TypeOK, Members
<1>7. evaluating' = {j \in Items' : Calls("evaluated", j)' # {}}
  <2>1. ASSUME NEW j \in Items
        PROVE  Calls("evaluated", j)' # {} <=> j # i /\ Calls("evaluated", j) # {}
    <3>1. ASSUME NEW d \in DOMAIN stack, stack[d].op = "evaluated", stack[d].item = j, j # i
          PROVE  Calls("evaluated", j)' # {}
      <4>1. d > 1
        BY <1>0, <1>1, <3>1
      <4>2. PICK f \in DOMAIN stack' : stack'[f] = stack[d]
        BY <1>0, <1>4, <4>1, CallsMoved
      <4> QED BY <3>1, <4>2 DEF Calls
    <3>2. ASSUME NEW d \in DOMAIN stack', stack'[d].op = "evaluated", stack'[d].item = j
          PROVE  j # i /\ Calls("evaluated", j) # {}
      <4>0. \A g \in DOMAIN stack' : (\E f \in DOMAIN New : stack'[g] = New[f])
                                    \/ (\E f \in DOMAIN stack : f > 1 /\ stack'[g] = stack[f])
        <5>1. stack \in Seq(CallSet) /\ New \in Seq(CallSet) /\ Replaces(New, 1)
          BY <1>0, <1>4
        <5> QED BY <5>1, CallsMoved
      <4>1. PICK f \in DOMAIN stack : f > 1 /\ stack'[d] = stack[f]
        BY <1>4, <3>2, <4>0
      <4>2. j = i => Same(stack[1], stack[f])
        BY <1>0, <1>1, <3>2, <4>1 DEF Same
      <4> QED BY <1>0, <3>2, <4>1, <4>2 DEF Inv, Alone, Calls
    <3> QED BY <3>1, <3>2 DEF Calls
  <2>2. Items' = Items
    BY <1>2 DEF Items
  <2>3. evaluating = {j \in Items : Calls("evaluated", j) # {}}
    BY DEF Inv, TypeOK
  <2> QED BY <1>2, <2>1, <2>2, <2>3
<1>8. conditionalQueue' = conditionalQueue \/ \E j : conditionalQueue' = Without(conditionalQueue, j)
  BY <1>2
<1> QED BY <1>2, <1>4, <1>5, <1>6, <1>7, <1>8, ConditionStep

-----------------------------------------------------------------------------
(* Steps that register and reset, of any thread.                           *)

\* A new registration gets the next id, which is beyond the limit of every batch.
LEMMA Numbering ==
    ASSUME Inv, program' = program, NEW i \in Items, Number(i)
    PROVE  /\ i \notin Registered /\ Registered' = Registered \cup {i}
           /\ id' \in [Items -> 0 .. Len(program)] /\ nextId' \in 1 .. Len(program) + 1
           /\ due' \in [Items -> 0 .. MaxTime]
           /\ nextId' = Cardinality(Registered') + 1 /\ \A j \in Registered' : id'[j] < nextId'
           /\ \A c \in CallSet : Good(c) => Good(c)'
PROOF
<1>1. Items = 1 .. Len(program) /\ Len(program) \in Nat /\ Items' = Items
  BY ItemsCounted DEF Inv, Items
<1>2. id \in [Items -> 0 .. Len(program)] /\ nextId \in Nat /\ due \in [Items -> 0 .. MaxTime] /\ clock \in 0 .. MaxTime
  BY SameLoop DEF Inv, TypeOK, Members
<1>3. nextId = Cardinality(Registered) + 1 /\ \A j \in Registered : id[j] < nextId
  BY DEF Inv, Numbered
<1>4. i \notin Registered /\ id' = [id EXCEPT ![i] = nextId] /\ nextId' = nextId + 1
  BY DEF Number, Registered
<1>5. Registered \cup {i} \subseteq 1 .. Len(program)
  BY <1>1 DEF Registered
<1>6. IsFiniteSet(1 .. Len(program)) /\ Cardinality(1 .. Len(program)) = Len(program)
  <2>1. ASSUME NEW n \in Nat
        PROVE  IsFiniteSet(1 .. n) /\ Cardinality(1 .. n) = n
    <3>1. IsFiniteSet(1 .. n) /\ Cardinality(1 .. n) = IF 1 > n THEN 0 ELSE n - 1 + 1
      BY FS_Interval
    <3> QED BY <3>1
  <2> QED BY <1>1, <2>1
<1>7. IsFiniteSet(Registered) /\ IsFiniteSet(Registered \cup {i})
      /\ Cardinality(Registered \cup {i}) <= Len(program)
  BY <1>5, <1>6, FS_Subset
<1>8. Cardinality(Registered \cup {i}) = Cardinality(Registered) + 1
  BY <1>4, <1>7, FS_AddElement
<1>9. Cardinality(Registered) \in Nat
  BY <1>7, FS_CardinalityType
<1>10. nextId \in 1 .. Len(program)
  BY <1>1, <1>2, <1>3, <1>7, <1>8, <1>9
<1>11. id' \in [Items -> 0 .. Len(program)] /\ nextId' \in 1 .. Len(program) + 1
  BY <1>1, <1>2, <1>4, <1>10
<1>12. \A j \in Items : id'[j] = IF j = i THEN nextId ELSE id[j]
  BY <1>2, <1>4
<1>13. Registered' = Registered \cup {i}
  BY <1>1, <1>10, <1>12 DEF Registered
<1>14. due' \in [Items -> 0 .. MaxTime]
  <2>1. MaxTime \in Nat
    BY EventLoopAssumption
  <2>2. CASE Is(i, "timer")
    <3>1. PICK d \in clock .. MaxTime : due' = [due EXCEPT ![i] = d]
      BY <2>2 DEF Number
    <3>2. d \in 0 .. MaxTime
      BY <1>2, <2>1
    <3> QED BY <1>2, <3>1, <3>2
  <2>3. CASE ~Is(i, "timer")
    BY <1>2, <2>3 DEF Number
  <2> QED BY <2>2, <2>3
<1>15. nextId' = Cardinality(Registered') + 1
  BY <1>3, <1>4, <1>8, <1>13
<1>16. \A j \in Registered : j \in Items /\ id[j] \in Nat
  BY SameLoop
<1>17. \A j \in Registered' : id'[j] < nextId'
  BY <1>2, <1>3, <1>4, <1>12, <1>13, <1>16
<1>18. ASSUME NEW c \in CallSet, Good(c)
       PROVE  Good(c)'
  <2>1. c.limit \in Nat
    BY DEF CallSet
  <2>2. c.op \in {"clearWake", "draining"} =>
          c.limit < nextId' /\ \A j \in Registered' : id'[j] <= c.limit => j \in c.before
    BY <1>2, <1>4, <1>12, <1>13, <1>16, <1>18, <2>1 DEF Good
  <2>3. c.op = "delaying" =>
          c.limit <= nextId' /\ \A j \in Registered' : id'[j] < c.limit => j \in c.before
    BY <1>2, <1>4, <1>12, <1>13, <1>16, <1>18, <2>1 DEF Good
  <2>4. \A j, kind : Is(j, kind)' <=> Is(j, kind)
    BY DEF Is
  <2>5. Elements(c.list)' = Elements(c.list)
    BY DEF Elements
  <2> QED BY <1>13, <1>18, <2>2, <2>3, <2>4, <2>5 DEF Good
<1> QED BY <1>4, <1>11, <1>13, <1>14, <1>15, <1>17, <1>18

\* The queue of its kind gets an item.
Grown(i) ==
    /\ taskQueue' \in Seq({j \in Items : Is(j, "task")})
    /\ conditionalQueue' \in Seq({j \in Items : Is(j, "condition")})
    /\ frameCallbackList' \in Seq({j \in Items : Is(j, "frame")})
    /\ eventCallbackList' \in Seq({j \in Items : Is(j, "event")})
    /\ delays' \subseteq {j \in Items : Is(j, "timer")}
    /\ Elements(taskQueue') \cup Elements(conditionalQueue') \cup Elements(frameCallbackList')
          \cup Elements(eventCallbackList') \cup delays' \subseteq Registered \cup {i}
    /\ Elements(taskQueue') \subseteq Elements(taskQueue) \cup {i}
    /\ delays' \subseteq delays \cup {i}
    /\ ~Is(i, "task") => taskQueue' = taskQueue
    /\ ~Is(i, "timer") => delays' = delays
    /\ i \notin Elements(taskQueue) => \A k, l \in DOMAIN taskQueue' : taskQueue'[k] = taskQueue'[l] => k = l

LEMMA Queueing ==
    ASSUME Inv, NEW i \in Items, Queue(i)
    PROVE  Grown(i)
PROOF
<1>1. ASSUME NEW kind, NEW list \in Seq({j \in Items : Is(j, kind)}), Is(i, kind)
      PROVE  Append(list, i) \in Seq({j \in Items : Is(j, kind)}) /\ Elements(Append(list, i)) = Elements(list) \cup {i}
  <2>1. PICK S : S = {j \in Items : Is(j, kind)}
    OBVIOUS
  <2>2. list \in Seq(S) /\ i \in S
    BY <1>1, <2>1
  <2> QED BY <2>1, <2>2, ListElements
<1>2. /\ taskQueue \in Seq({j \in Items : Is(j, "task")})
      /\ conditionalQueue \in Seq({j \in Items : Is(j, "condition")})
      /\ frameCallbackList \in Seq({j \in Items : Is(j, "frame")})
      /\ eventCallbackList \in Seq({j \in Items : Is(j, "event")})
      /\ delays \subseteq {j \in Items : Is(j, "timer")}
  BY DEF Inv, TypeOK, Members
<1>3. /\ Elements(taskQueue) \subseteq Registered /\ Elements(conditionalQueue) \subseteq Registered
      /\ Elements(frameCallbackList) \subseteq Registered /\ Elements(eventCallbackList) \subseteq Registered
      /\ delays \subseteq Registered
  BY DEF Inv, Numbered
<1>4. taskQueue' \in Seq({j \in Items : Is(j, "task")}) /\ Elements(taskQueue') \subseteq Elements(taskQueue) \cup {i}
  <2>1. CASE Is(i, "task")
    BY <1>1, <1>2, <2>1 DEF Queue
  <2>2. CASE ~Is(i, "task")
    BY <1>2, <2>2 DEF Queue
  <2> QED BY <2>1, <2>2
<1>5. conditionalQueue' \in Seq({j \in Items : Is(j, "condition")})
      /\ Elements(conditionalQueue') \subseteq Elements(conditionalQueue) \cup {i}
  <2>1. CASE Is(i, "condition")
    BY <1>1, <1>2, <2>1 DEF Queue
  <2>2. CASE ~Is(i, "condition")
    BY <1>2, <2>2 DEF Queue
  <2> QED BY <2>1, <2>2
<1>6. frameCallbackList' \in Seq({j \in Items : Is(j, "frame")})
      /\ Elements(frameCallbackList') \subseteq Elements(frameCallbackList) \cup {i}
  <2>1. CASE Is(i, "frame")
    BY <1>1, <1>2, <2>1 DEF Queue
  <2>2. CASE ~Is(i, "frame")
    BY <1>2, <2>2 DEF Queue
  <2> QED BY <2>1, <2>2
<1>7. eventCallbackList' \in Seq({j \in Items : Is(j, "event")})
      /\ Elements(eventCallbackList') \subseteq Elements(eventCallbackList) \cup {i}
  <2>1. CASE Is(i, "event")
    BY <1>1, <1>2, <2>1 DEF Queue
  <2>2. CASE ~Is(i, "event")
    BY <1>2, <2>2 DEF Queue
  <2> QED BY <2>1, <2>2
<1>8. delays' \subseteq {j \in Items : Is(j, "timer")} /\ delays' \subseteq delays \cup {i}
      /\ (~Is(i, "task") => taskQueue' = taskQueue) /\ (~Is(i, "timer") => delays' = delays)
  BY <1>2 DEF Queue
<1>9. ASSUME i \notin Elements(taskQueue), NEW k \in DOMAIN taskQueue', NEW l \in DOMAIN taskQueue',
             taskQueue'[k] = taskQueue'[l]
      PROVE  k = l
  <2>1. \A m, n \in DOMAIN taskQueue : taskQueue[m] = taskQueue[n] => m = n
    BY DEF Inv, Once
  <2>2. CASE Is(i, "task")
    <3>1. taskQueue \in Seq(Items) /\ taskQueue' = Append(taskQueue, i)
      BY <1>2, <2>2 DEF Queue
    <3>2. DOMAIN taskQueue' = 1 .. Len(taskQueue) + 1 /\ Len(taskQueue) \in Nat /\ DOMAIN taskQueue = 1 .. Len(taskQueue)
          /\ \A m \in 1 .. Len(taskQueue) : taskQueue'[m] = taskQueue[m]
      BY <3>1
    <3>3. taskQueue'[Len(taskQueue) + 1] = i
      BY <3>1
    <3>4. \A m \in DOMAIN taskQueue' : m \in DOMAIN taskQueue \/ m = Len(taskQueue) + 1
      BY <3>2
    <3>5. \A m \in DOMAIN taskQueue : taskQueue[m] # i
      BY <1>9 DEF Elements
    <3> QED BY <1>9, <2>1, <3>2, <3>3, <3>4, <3>5
  <2>3. CASE ~Is(i, "task")
    BY <1>9, <2>1, <2>3 DEF Queue
  <2> QED BY <2>2, <2>3
<1> QED BY <1>3, <1>4, <1>5, <1>6, <1>7, <1>8, <1>9 DEF Grown

\* wake leaves the flag and the events of SDL's queue what they are.
LEMMA WakeTypes ==
    ASSUME Inv, NEW i, Wake(i)
    PROVE  wakePending' \in BOOLEAN /\ events' \in Seq({"wake", "quit", "user"})
PROOF
<1>1. wakePending \in BOOLEAN /\ events \in Seq({"wake", "quit", "user"})
  BY SameLoop
<1>2. Append(events, "wake") \in Seq({"wake", "quit", "user"})
  BY <1>1
<1> QED BY <1>1, <1>2 DEF Wake

\* The turn of one thread leaves the others where they are.
LEMMA Turns ==
    ASSUME Inv, NEW p \in Posters, NEW op \in {"idle", "insert", "wake", "await", "unregister"}, NEW i \in Nat,
           Turn(p, op, i)
    PROVE  /\ remote' \in [Posters -> RemoteCalls] /\ remote'[p].op = op /\ remote'[p].item = i
           /\ \A q \in Posters \ {p} : remote'[q] = remote[q]
PROOF
<1>1. remote \in [Posters -> RemoteCalls] /\ remote' = [remote EXCEPT ![p] = For(op, i)]
  BY DEF Inv, Turn
<1>2. For(op, i) \in RemoteCalls /\ For(op, i).op = op /\ For(op, i).item = i
  BY DEF For, Call, RemoteCalls
<1> QED BY <1>1, <1>2

\* Where the loop's thread stays where it is, only what is registered, reset, or
\* done by others has to be looked at.
LEMMA Settled ==
    ASSUME Inv, UNCHANGED <<program, evaluating, began, stack>>,
           Members', Numbered', remote' \in [Posters -> RemoteCalls], \A p \in Posters : Remote(p)',
           \A c \in CallSet : Good(c) => Good(c)',
           cancelled \subseteq cancelled', Registered \subseteq Registered',
           \A j \in Items : Waits(j)' => began[j] = 0,
           \A k, l \in DOMAIN taskQueue' : taskQueue'[k] = taskQueue'[l] => k = l,
           \A j \in delays' : Calls("fire", j) = {},
           \A p \in Posters : remote'[p].op = "insert" =>
             /\ remote'[p].item \notin delays' /\ Calls("fire", remote'[p].item) = {}
             /\ \A q \in Posters : remote'[q].op = "insert" /\ remote'[q].item = remote'[p].item => q = p
    PROVE  Inv'
PROOF
<1>1. stack \in Seq(CallSet) /\ \A d \in DOMAIN stack : stack[d] \in CallSet /\ Good(stack[d])
  BY DEF Inv, GoodCalls
<1>2. Items' = Items /\ \A j, kind : Is(j, kind)' <=> Is(j, kind)
  BY DEF Items, Is
<1>3. \A op, j : Calls(op, j)' = Calls(op, j)
  BY DEF Calls
<1>4. GoodCalls'
  BY <1>1 DEF GoodCalls
<1>5. Nested'
  <2>1. \A c : NeedsCaller(c)' <=> NeedsCaller(c)
    BY <1>2 DEF NeedsCaller
  <2>2. \A c, e : Above(c, e)' <=> Above(c, e)
    BY <1>2 DEF Above
  <2> QED BY <2>1, <2>2 DEF Inv, Nested
<1>6. Alone'
  BY DEF Inv, Alone, Same
<1>7. TypeOK'
  BY <1>2, <1>3 DEF Inv, TypeOK
<1>8. Once'
  <2>1. ASSUME NEW j \in Items
        PROVE  /\ began'[j] \in 0 .. 1
               /\ j \notin Registered' => began'[j] = 0
               /\ Is(j, "condition")' /\ began'[j] # 0 => j \in cancelled'
               /\ Waits(j)' => began'[j] = 0
    <3>1. /\ began[j] \in 0 .. 1
          /\ j \notin Registered => began[j] = 0
          /\ Is(j, "condition") /\ began[j] # 0 => j \in cancelled
      BY DEF Inv, Once
    <3>2. Waits(j)' => began[j] = 0
      OBVIOUS
    <3>3. Is(j, "condition")' <=> Is(j, "condition")
      BY <1>2
    <3>4. began' = began
      OBVIOUS
    <3> QED BY <3>1, <3>2, <3>3, <3>4
  <2>2. \A j \in delays' : Calls("fire", j)' = {}
    BY <1>3
  <2>3. ASSUME NEW p \in Posters, remote'[p].op = "insert"
        PROVE  remote'[p].item \notin delays' /\ Calls("fire", remote[p].item)' = {}
               /\ \A q \in Posters : remote'[q].op = "insert" /\ remote'[q].item = remote'[p].item => q = p
    <3>1. PICK j : j = remote'[p].item
      OBVIOUS
    <3>2. Calls("fire", remote[p].item)' = Calls("fire", j)
      BY <3>1 DEF Calls
    <3> QED BY <2>3, <3>1, <3>2
  <2> QED BY <1>2, <2>1, <2>2, <2>3 DEF Once
<1> QED BY <1>1, <1>4, <1>5, <1>6, <1>7, <1>8 DEF Inv

\* What is not registered neither waits nor fires.
LEMMA Unregistered ==
    ASSUME Inv, NEW i \in Items, i \notin Registered
    PROVE  /\ i \notin Elements(taskQueue) /\ i \notin delays /\ Calls("fire", i) = {} /\ began[i] = 0
           /\ \A p \in Posters : remote[p].op = "insert" => remote[p].item # i
PROOF
<1>1. i \notin Elements(taskQueue) /\ i \notin delays
  BY Queues
<1>2. Calls("fire", i) = {}
  BY DEF Inv, GoodCalls, Good, Calls
<1>3. began[i] = 0
  BY DEF Inv, Once
<1>4. \A p \in Posters : remote[p].op = "insert" => remote[p].item # i
  BY DEF Inv, Remote
<1> QED BY <1>1, <1>2, <1>3, <1>4

\* An item that is numbered and queued in one step.
LEMMA Registering ==
    ASSUME Inv, NEW i \in Items, Number(i), Queue(i),
           UNCHANGED <<program, flags, quit, sent, clock, history, finished, stack>>,
           wakePending' \in BOOLEAN, events' \in Seq({"wake", "quit", "user"}),
           awaited' \in [Posters -> 0 .. Len(program)], remote' \in [Posters -> RemoteCalls],
           \A p \in Posters : remote'[p].op = "insert" => remote'[p] = remote[p]
    PROVE  Inv'
PROOF
<1>1. /\ i \notin Registered /\ Registered' = Registered \cup {i}
      /\ id' \in [Items -> 0 .. Len(program)] /\ nextId' \in 1 .. Len(program) + 1
      /\ due' \in [Items -> 0 .. MaxTime]
      /\ nextId' = Cardinality(Registered') + 1 /\ \A j \in Registered' : id'[j] < nextId'
      /\ \A c \in CallSet : Good(c) => Good(c)'
  BY Numbering
<1>2. Grown(i)
  BY Queueing
<1>3. Items' = Items /\ \A j, kind : Is(j, kind)' <=> Is(j, kind)
  BY DEF Items, Is
<1>4. UNCHANGED <<program, evaluating, began, stack>> /\ UNCHANGED <<cancelled, silenced>>
  BY DEF flags, history
<1>5. Members'
  <2>1. silenced \subseteq cancelled /\ cancelled \subseteq Registered
    BY DEF Inv, TypeOK, Members
  <2> QED BY <1>1, <1>2, <1>3, <1>4, <2>1 DEF Inv, TypeOK, Members, Grown
<1>6. Numbered'
  <2>1. \A j \in cancelled' : ~Is(j, "task")'
    BY <1>3, <1>4 DEF Inv, Numbered
  <2>2. (Elements(taskQueue) \cup Elements(conditionalQueue) \cup Elements(frameCallbackList)
          \cup Elements(eventCallbackList) \cup delays \subseteq Registered)'
    BY <1>1, <1>2 DEF Grown, Elements
  <2> QED BY <1>1, <2>1, <2>2 DEF Numbered
<1>7. \A p \in Posters : Remote(p)'
  BY <1>1, <1>3 DEF Inv, Remote
<1>8. /\ i \notin Elements(taskQueue) /\ i \notin delays /\ Calls("fire", i) = {} /\ began[i] = 0
      /\ \A p \in Posters : remote[p].op = "insert" => remote[p].item # i
  BY <1>1, Unregistered
<1>9. ASSUME NEW j \in Items, Waits(j)'
      PROVE  began[j] = 0
  <2>1. CASE j = i
    BY <1>8, <2>1
  <2>2. CASE j # i
    <3>1. CASE j \in Elements(taskQueue') \cup delays'
      BY <1>2, <2>2, <3>1 DEF Grown, Inv, Once, Waits
    <3>2. CASE \E d \in DOMAIN stack : stack[d].op \in {"fire", "predicate", "claim"} /\ stack[d].item = j
      BY <3>2 DEF Inv, Once, Waits
    <3>3. CASE \E p \in Posters : remote'[p].op = "insert" /\ remote'[p].item = j /\ Is(j, "timer")
      <4>1. Waits(j)
        BY <3>3 DEF Waits
      <4> QED BY <4>1 DEF Inv, Once
    <3> QED BY <1>3, <1>4, <1>9, <3>1, <3>2, <3>3 DEF Waits, Elements
  <2> QED BY <2>1, <2>2
<1>10. \A k, l \in DOMAIN taskQueue' : taskQueue'[k] = taskQueue'[l] => k = l
  BY <1>2, <1>8 DEF Grown
<1>11. \A j \in delays' : Calls("fire", j) = {}
  BY <1>2, <1>8 DEF Grown, Inv, Once
<1>12. \A p \in Posters : remote'[p].op = "insert" =>
         /\ remote'[p].item \notin delays' /\ Calls("fire", remote'[p].item) = {}
         /\ \A q \in Posters : remote'[q].op = "insert" /\ remote'[q].item = remote'[p].item => q = p
  <2>1. \A p \in Posters : remote[p].op = "insert" =>
          /\ remote[p].item \notin delays /\ Calls("fire", remote[p].item) = {}
          /\ \A q \in Posters : remote[q].op = "insert" /\ remote[q].item = remote[p].item => q = p
    BY DEF Inv, Once
  <2>2. delays' \subseteq delays \cup {i}
    BY <1>2 DEF Grown
  <2>3. \A p \in Posters : remote'[p].op = "insert" => remote'[p] = remote[p] /\ remote[p].item # i
    BY <1>8
  <2> QED BY <2>1, <2>2, <2>3
<1> QED BY <1>1, <1>4, <1>5, <1>6, <1>7, <1>9, <1>10, <1>11, <1>12, Settled

LEMMA RegisterStep ==
    ASSUME Inv, NEW i \in Items, Register(i)
    PROVE  Inv'
PROOF
<1>1. wakePending' \in BOOLEAN /\ events' \in Seq({"wake", "quit", "user"})
  BY WakeTypes DEF Register
<1>2. UNCHANGED <<awaited, remote>>
  BY DEF Register, posters
<1>3. awaited' \in [Posters -> 0 .. Len(program)] /\ remote' \in [Posters -> RemoteCalls]
  BY <1>2 DEF Inv, TypeOK, Members
<1> QED BY <1>1, <1>2, <1>3, Registering DEF Register

LEMMA PostStep ==
    ASSUME Inv, NEW p \in Posters, NEW i \in Items, Post(p, i)
    PROVE  Inv'
PROOF
<1>1. Items = 1 .. Len(program) /\ Len(program) \in Nat /\ i \in Nat
  BY ItemsCounted DEF Inv
<1>2. /\ remote' \in [Posters -> RemoteCalls] /\ remote'[p].op = "wake"
      /\ \A q \in Posters \ {p} : remote'[q] = remote[q]
  BY <1>1, Turns DEF Post
<1>3. awaited' \in [Posters -> 0 .. Len(program)]
  <2>1. awaited \in [Posters -> 0 .. Len(program)] /\ i \in 0 .. Len(program)
    BY <1>1 DEF Inv, TypeOK, Members
  <2>2. awaited' = awaited \/ awaited' = [awaited EXCEPT ![p] = i]
    BY DEF Post
  <2> QED BY <2>1, <2>2
<1>4. wakePending' \in BOOLEAN /\ events' \in Seq({"wake", "quit", "user"}) /\ UNCHANGED <<quit, sent>>
  BY SameLoop DEF Post, sdl
<1>5. \A q \in Posters : remote'[q].op = "insert" => remote'[q] = remote[q]
  BY <1>2
<1> QED BY <1>2, <1>3, <1>4, <1>5, Registering DEF Post

\* An item that is numbered, and queued later.
LEMMA ScheduleStep ==
    ASSUME Inv, NEW p \in Posters, NEW i \in Items, Schedule(p, i)
    PROVE  Inv'
PROOF
<1>0. UNCHANGED <<program, queues, flags, sdl, clock, history, awaited, finished, stack>> /\ Number(i) /\ ~Is(i, "task")
  BY DEF Schedule
<1>1. /\ i \notin Registered /\ Registered' = Registered \cup {i}
      /\ id' \in [Items -> 0 .. Len(program)] /\ nextId' \in 1 .. Len(program) + 1
      /\ due' \in [Items -> 0 .. MaxTime]
      /\ nextId' = Cardinality(Registered') + 1 /\ \A j \in Registered' : id'[j] < nextId'
      /\ \A c \in CallSet : Good(c) => Good(c)'
  BY <1>0, Numbering
<1>2. i \in Nat
  BY SameLoop
<1>3. Items' = Items /\ \A j, kind : Is(j, kind)' <=> Is(j, kind)
  BY <1>0 DEF Items, Is
<1>4. UNCHANGED <<program, evaluating, began, stack>> /\ UNCHANGED <<cancelled, silenced>>
      /\ UNCHANGED <<taskQueue, conditionalQueue, frameCallbackList, eventCallbackList, delays>>
  BY <1>0 DEF flags, history, queues
<1>5. /\ remote' \in [Posters -> RemoteCalls] /\ remote'[p].op = "insert" /\ remote'[p].item = i
      /\ \A q \in Posters \ {p} : remote'[q] = remote[q]
  BY <1>2, Turns DEF Schedule
<1>6. Members'
  <2>1. silenced \subseteq cancelled /\ cancelled \subseteq Registered
    BY DEF Inv, TypeOK, Members
  <2> QED BY <1>0, <1>1, <1>3, <1>4, <2>1 DEF Inv, TypeOK, Members, sdl
<1>7. Numbered'
  <2>1. \A j \in cancelled' : ~Is(j, "task")'
    BY <1>3, <1>4 DEF Inv, Numbered
  <2>2. (Elements(taskQueue) \cup Elements(conditionalQueue) \cup Elements(frameCallbackList)
          \cup Elements(eventCallbackList) \cup delays \subseteq Registered)'
    BY <1>1, <1>4 DEF Inv, Numbered, Elements
  <2> QED BY <1>1, <2>1, <2>2 DEF Numbered
<1>8. ASSUME NEW q \in Posters
      PROVE  Remote(q)'
  BY <1>0, <1>1, <1>3, <1>5 DEF Inv, Remote
<1>9. /\ i \notin Elements(taskQueue) /\ i \notin delays /\ Calls("fire", i) = {} /\ began[i] = 0
      /\ \A q \in Posters : remote[q].op = "insert" => remote[q].item # i
  BY <1>1, Unregistered
<1>10. ASSUME NEW j \in Items, Waits(j)'
       PROVE  began[j] = 0
  <2>1. CASE j = i
    BY <1>9, <2>1
  <2>2. CASE j # i
    <3>1. Waits(j)
      BY <1>3, <1>4, <1>5, <1>10, <2>2 DEF Waits, Elements
    <3> QED BY <3>1 DEF Inv, Once
  <2> QED BY <2>1, <2>2
<1>11. \A k, l \in DOMAIN taskQueue' : taskQueue'[k] = taskQueue'[l] => k = l
  BY <1>4 DEF Inv, Once
<1>12. \A j \in delays' : Calls("fire", j) = {}
  BY <1>4 DEF Inv, Once
<1>13. \A q \in Posters : remote'[q].op = "insert" =>
         /\ remote'[q].item \notin delays' /\ Calls("fire", remote'[q].item) = {}
         /\ \A r \in Posters : remote'[r].op = "insert" /\ remote'[r].item = remote'[q].item => r = q
  <2>1. \A q \in Posters : remote[q].op = "insert" =>
          /\ remote[q].item \notin delays /\ Calls("fire", remote[q].item) = {}
          /\ \A r \in Posters : remote[r].op = "insert" /\ remote[r].item = remote[q].item => r = q
    BY DEF Inv, Once
  <2> QED BY <1>4, <1>5, <1>9, <2>1
<1> QED BY <1>1, <1>4, <1>5, <1>6, <1>7, <1>8, <1>10, <1>11, <1>12, <1>13, Settled

\* The item that a thread has numbered enters its queue.
LEMMA InsertStep ==
    ASSUME Inv, NEW p \in Posters, Insert(p)
    PROVE  Inv'
PROOF
<1>0. UNCHANGED <<program, registry, flags, sdl, clock, history, awaited, finished, stack>> /\ remote[p].op = "insert"
  BY DEF Insert, Doing
<1>1. PICK i : i = remote[p].item
  OBVIOUS
<1>2. i \in Registered /\ i \in Items /\ i \in Nat /\ ~Is(i, "task")
  BY <1>0, <1>1, SameLoop DEF Inv, Remote
<1>3. Items' = Items /\ Registered' = Registered /\ \A j, kind : Is(j, kind)' <=> Is(j, kind)
  BY <1>0 DEF Items, Is, Registered, registry
<1>4. UNCHANGED <<program, evaluating, began, stack>> /\ UNCHANGED <<cancelled, silenced, id, nextId, due>>
  BY <1>0 DEF flags, history, registry
<1>5. Queue(i) /\ Turn(p, "wake", i)
  BY <1>1 DEF Insert
<1>6. Grown(i)
  BY <1>2, <1>5, Queueing
<1>7. /\ remote' \in [Posters -> RemoteCalls] /\ remote'[p].op = "wake"
      /\ \A q \in Posters \ {p} : remote'[q] = remote[q]
  BY <1>2, <1>5, Turns
<1>8. Members'
  BY <1>0, <1>3, <1>4, <1>6 DEF Inv, TypeOK, Members, sdl, Grown
<1>9. Numbered'
  <2>1. \A j \in cancelled' : ~Is(j, "task")'
    BY <1>3, <1>4 DEF Inv, Numbered
  <2>2. (Elements(taskQueue) \cup Elements(conditionalQueue) \cup Elements(frameCallbackList)
          \cup Elements(eventCallbackList) \cup delays \subseteq Registered)'
    BY <1>2, <1>3, <1>6 DEF Grown, Elements
  <2>3. nextId' = Cardinality(Registered') + 1 /\ \A j \in Registered' : id'[j] < nextId'
    BY <1>3, <1>4 DEF Inv, Numbered
  <2> QED BY <2>1, <2>2, <2>3 DEF Numbered
<1>10. ASSUME NEW q \in Posters
       PROVE  Remote(q)'
  BY <1>0, <1>3, <1>7 DEF Inv, Remote
<1>11. \A q \in Posters : remote[q].op = "insert" =>
          /\ remote[q].item \notin delays /\ Calls("fire", remote[q].item) = {}
          /\ \A r \in Posters : remote[r].op = "insert" /\ remote[r].item = remote[q].item => r = q
  BY DEF Inv, Once
<1>12. ASSUME NEW j \in Items, Waits(j)'
       PROVE  began[j] = 0
  <2>1. Waits(j)
    <3>1. CASE j \in Elements(taskQueue')
      BY <1>2, <1>6, <3>1 DEF Grown, Waits
    <3>2. CASE j \in delays'
      <4>1. CASE j \in delays
        BY <4>1 DEF Waits
      <4>2. CASE j \notin delays
        <5>1. j = i /\ Is(i, "timer")
          BY <1>6, <3>2, <4>2 DEF Grown
        <5> QED BY <1>0, <1>1, <5>1 DEF Waits
      <4> QED BY <4>1, <4>2
    <3>3. CASE \E d \in DOMAIN stack : stack[d].op \in {"fire", "predicate", "claim"} /\ stack[d].item = j
      BY <3>3 DEF Waits
    <3>4. CASE \E q \in Posters : remote'[q].op = "insert" /\ remote'[q].item = j /\ Is(j, "timer")
      BY <1>7, <3>4 DEF Waits
    <3> QED BY <1>3, <1>4, <1>12, <3>1, <3>2, <3>3, <3>4 DEF Waits, Elements
  <2> QED BY <2>1 DEF Inv, Once
<1>13. \A k, l \in DOMAIN taskQueue' : taskQueue'[k] = taskQueue'[l] => k = l
  BY <1>2, <1>6 DEF Grown, Inv, Once
<1>14. \A j \in delays' : Calls("fire", j) = {}
  BY <1>0, <1>1, <1>6, <1>11 DEF Grown, Inv, Once
<1>15. \A q \in Posters : remote'[q].op = "insert" =>
         /\ remote'[q].item \notin delays' /\ Calls("fire", remote'[q].item) = {}
         /\ \A r \in Posters : remote'[r].op = "insert" /\ remote'[r].item = remote'[q].item => r = q
  <2>1. delays' \subseteq delays \cup {i}
    BY <1>6 DEF Grown
  <2> QED BY <1>0, <1>1, <1>7, <1>11, <2>1
<1>16. ASSUME NEW c \in CallSet, Good(c)
       PROVE  Good(c)'
  BY <1>3, <1>4, <1>16 DEF Good, Elements
<1>17. Registered \subseteq Registered'
  BY <1>3
<1> QED BY <1>4, <1>7, <1>8, <1>9, <1>10, <1>12, <1>13, <1>14, <1>15, <1>16, <1>17, Settled

\* Steps that register nothing and leave the loop's thread where it is.
LEMMA Unregistering ==
    ASSUME Inv, UNCHANGED <<program, registry, evaluating, taskQueue, conditionalQueue, began, finished, stack>>,
           frameCallbackList' = frameCallbackList \/ \E i : frameCallbackList' = Without(frameCallbackList, i),
           eventCallbackList' = eventCallbackList \/ \E i : eventCallbackList' = Without(eventCallbackList, i),
           delays' \subseteq delays, cancelled \subseteq cancelled', silenced' \subseteq cancelled',
           \A j \in cancelled' : j \in cancelled \/ (j \in Registered /\ ~Is(j, "task")),
           {wakePending', quit'} \subseteq BOOLEAN, events' \in Seq({"wake", "quit", "user"}),
           sent' \in 0 .. MaxEvents, clock' \in 0 .. MaxTime,
           awaited' \in [Posters -> 0 .. Len(program)], remote' \in [Posters -> RemoteCalls],
           \A p \in Posters : remote'[p].op = "insert" => remote'[p] = remote[p]
    PROVE  Inv'
PROOF
<1>1. Items' = Items /\ Registered' = Registered /\ \A j, kind : Is(j, kind)' <=> Is(j, kind)
  BY DEF Items, Is, Registered, registry
<1>2. UNCHANGED <<id, nextId, due>>
  BY DEF registry
<1>3. frameCallbackList' \in Seq({j \in Items : Is(j, "frame")})
      /\ Elements(frameCallbackList') \subseteq Elements(frameCallbackList)
  <2>1. frameCallbackList \in Seq({j \in Items : Is(j, "frame")})
    BY DEF Inv, TypeOK, Members
  <2>2. CASE frameCallbackList' = frameCallbackList
    BY <2>1, <2>2
  <2>3. ASSUME NEW i, frameCallbackList' = Without(frameCallbackList, i)
        PROVE  frameCallbackList' \in Seq({j \in Items : Is(j, "frame")})
               /\ Elements(frameCallbackList') \subseteq Elements(frameCallbackList)
    BY <2>1, <2>3, WithoutKeeps
  <2> QED BY <2>2, <2>3
<1>4. eventCallbackList' \in Seq({j \in Items : Is(j, "event")})
      /\ Elements(eventCallbackList') \subseteq Elements(eventCallbackList)
  <2>1. eventCallbackList \in Seq({j \in Items : Is(j, "event")})
    BY DEF Inv, TypeOK, Members
  <2>2. CASE eventCallbackList' = eventCallbackList
    BY <2>1, <2>2
  <2>3. ASSUME NEW i, eventCallbackList' = Without(eventCallbackList, i)
        PROVE  eventCallbackList' \in Seq({j \in Items : Is(j, "event")})
               /\ Elements(eventCallbackList') \subseteq Elements(eventCallbackList)
    BY <2>1, <2>3, WithoutKeeps
  <2> QED BY <2>2, <2>3
<1>5. Members'
  BY <1>1, <1>2, <1>3, <1>4 DEF Inv, TypeOK, Members
<1>6. Numbered'
  BY <1>3, <1>4, NumberedKept
<1>7. \A p \in Posters : Remote(p)'
  BY <1>1 DEF Inv, Remote
<1>8. ASSUME NEW j \in Items, Waits(j)'
      PROVE  began[j] = 0
  <2>1. Waits(j)
    BY <1>1, <1>8 DEF Waits, Elements
  <2> QED BY <2>1 DEF Inv, Once
<1>9. \A k, l \in DOMAIN taskQueue' : taskQueue'[k] = taskQueue'[l] => k = l
  BY DEF Inv, Once
<1>10. \A j \in delays' : Calls("fire", j) = {}
  BY DEF Inv, Once
<1>11. \A p \in Posters : remote'[p].op = "insert" =>
         /\ remote'[p].item \notin delays' /\ Calls("fire", remote'[p].item) = {}
         /\ \A q \in Posters : remote'[q].op = "insert" /\ remote'[q].item = remote'[p].item => q = p
  <2>1. \A p \in Posters : remote[p].op = "insert" =>
          /\ remote[p].item \notin delays /\ Calls("fire", remote[p].item) = {}
          /\ \A q \in Posters : remote[q].op = "insert" /\ remote[q].item = remote[p].item => q = p
    BY DEF Inv, Once
  <2> QED BY <2>1
<1>12. ASSUME NEW c \in CallSet, Good(c)
       PROVE  Good(c)'
  BY <1>1, <1>2, <1>12 DEF Good, Elements
<1> QED BY <1>1, <1>5, <1>6, <1>7, <1>8, <1>9, <1>10, <1>11, <1>12, Settled

\* Waking, the end of an await, resets, time and events from outside.
LEMMA OtherSteps ==
    ASSUME Inv,
           \/ \E p \in Posters : WakeLoop(p) \/ AwaitReturns(p) \/ UnregisterRemote(p)
                                 \/ \E i \in Items : ResetRemote(p, i)
           \/ \E i \in Items : Reset(i)
           \/ Tick \/ Send
    PROVE  Inv'
PROOF
<1> DEFINE Old == /\ silenced \subseteq cancelled /\ {wakePending, quit} \subseteq BOOLEAN
                  /\ events \in Seq({"wake", "quit", "user"}) /\ sent \in 0 .. MaxEvents /\ clock \in 0 .. MaxTime
                  /\ awaited \in [Posters -> 0 .. Len(program)] /\ remote \in [Posters -> RemoteCalls]
                  /\ Registered \subseteq Items /\ Items \subseteq Nat /\ \A n \in 0 .. Len(program) : n \in Nat
<1>1. Old
  <2>1. TypeOK /\ remote \in [Posters -> RemoteCalls]
    BY DEF Inv
  <2>2. Len(program) \in Nat /\ Items \subseteq Nat
    BY <2>1, ItemsCounted
  <2>3. \A n \in 0 .. Len(program) : n \in Nat
    BY <2>2
  <2>4. Registered \subseteq Items
    BY DEF Registered
  <2> QED BY <2>1, <2>2, <2>3, <2>4 DEF TypeOK, Members
<1>2. ASSUME NEW p \in Posters, WakeLoop(p)
      PROVE  Inv'
  <2>1. awaited[p] \in Nat
    BY <1>1
  <2>2. remote' \in [Posters -> RemoteCalls] /\ remote'[p].op # "insert" /\ \A q \in Posters \ {p} : remote'[q] = remote[q]
    BY <1>2, <2>1, Turns DEF WakeLoop
  <2>3. wakePending' \in BOOLEAN /\ events' \in Seq({"wake", "quit", "user"})
    BY <1>2, WakeTypes DEF WakeLoop
  <2>4. \A q \in Posters : remote'[q].op = "insert" => remote'[q] = remote[q]
    BY <2>2
  <2> QED BY <1>1, <1>2, <2>2, <2>3, <2>4, Unregistering DEF WakeLoop, queues, flags, history
<1>3. ASSUME NEW p \in Posters, AwaitReturns(p)
      PROVE  Inv'
  <2>1. remote' \in [Posters -> RemoteCalls] /\ remote'[p].op # "insert" /\ \A q \in Posters \ {p} : remote'[q] = remote[q]
    BY <1>3, Turns DEF AwaitReturns
  <2>2. awaited' \in [Posters -> 0 .. Len(program)]
    <3>1. 0 \in 0 .. Len(program)
      BY ItemsCounted DEF Inv
    <3> QED BY <1>1, <1>3, <3>1 DEF AwaitReturns
  <2>3. \A q \in Posters : remote'[q].op = "insert" => remote'[q] = remote[q]
    BY <2>1
  <2> QED BY <1>1, <1>3, <2>1, <2>2, <2>3, Unregistering DEF AwaitReturns, queues, flags, history, sdl
<1>4. ASSUME NEW p \in Posters, UnregisterRemote(p)
      PROVE  Inv'
  <2>1. remote' \in [Posters -> RemoteCalls] /\ remote'[p].op # "insert" /\ \A q \in Posters \ {p} : remote'[q] = remote[q]
    BY <1>4, Turns DEF UnregisterRemote
  <2>2. \A q \in Posters : remote'[q].op = "insert" => remote'[q] = remote[q]
    BY <2>1
  <2>3. /\ delays' \subseteq delays /\ UNCHANGED <<taskQueue, conditionalQueue>>
        /\ frameCallbackList' = Without(frameCallbackList, remote[p].item)
        /\ eventCallbackList' = Without(eventCallbackList, remote[p].item)
    BY <1>4 DEF UnregisterRemote, Unregister
  <2>4. UNCHANGED <<program, registry, evaluating, taskQueue, conditionalQueue, began, finished, stack>>
        /\ UNCHANGED <<cancelled, silenced, wakePending, quit, events, sent, clock, awaited>>
    BY <1>4, <2>3 DEF UnregisterRemote, flags, history, sdl
  <2> QED BY <1>1, <2>1, <2>2, <2>3, <2>4, Unregistering
<1>5. ASSUME NEW p \in Posters, NEW i \in Items, ResetRemote(p, i)
      PROVE  Inv'
  <2>0. i \in Nat
    BY <1>1
  <2>1. remote' \in [Posters -> RemoteCalls] /\ remote'[p].op # "insert" /\ \A q \in Posters \ {p} : remote'[q] = remote[q]
    BY <1>5, <2>0, Turns DEF ResetRemote
  <2>2. \A q \in Posters : remote'[q].op = "insert" => remote'[q] = remote[q]
    BY <2>1
  <2>3. cancelled' = cancelled \cup {i} /\ ~Is(i, "task") /\ i \in Registered
    BY <1>5 DEF ResetRemote, Inserted
  <2>4. UNCHANGED <<program, registry, evaluating, taskQueue, conditionalQueue, began, finished, stack>>
        /\ UNCHANGED <<frameCallbackList, eventCallbackList, delays, silenced, wakePending, quit, events, sent, clock, awaited>>
    BY <1>5 DEF ResetRemote, queues, history, sdl
  <2> QED BY <1>1, <2>1, <2>2, <2>3, <2>4, Unregistering
<1>6. ASSUME NEW i \in Items, Reset(i)
      PROVE  Inv'
  <2>1. cancelled' = cancelled \cup {i} /\ ~Is(i, "task") /\ i \in Registered /\ silenced' = silenced \cup {i}
    BY <1>6 DEF Reset, Inserted
  <2>2. /\ delays' \subseteq delays /\ UNCHANGED <<taskQueue, conditionalQueue>>
        /\ frameCallbackList' = Without(frameCallbackList, i)
        /\ eventCallbackList' = Without(eventCallbackList, i)
    BY <1>6 DEF Reset, Unregister
  <2>3. UNCHANGED <<program, registry, evaluating, taskQueue, conditionalQueue, began, finished, stack>>
        /\ UNCHANGED <<wakePending, quit, events, sent, clock, awaited, remote>>
    BY <1>6, <2>2 DEF Reset, sdl, posters
  <2> QED BY <1>1, <2>1, <2>2, <2>3, Unregistering
<1>7. CASE Tick
  <2>1. clock' \in 0 .. MaxTime
    BY <1>1, <1>7, EventLoopAssumption DEF Tick
  <2>2. UNCHANGED <<program, registry, evaluating, taskQueue, conditionalQueue, began, finished, stack>>
        /\ UNCHANGED <<frameCallbackList, eventCallbackList, delays, cancelled, silenced, wakePending, quit, events, sent,
                       awaited, remote>>
    BY <1>7 DEF Tick, queues, flags, history, sdl, posters
  <2> QED BY <1>1, <2>1, <2>2, Unregistering
<1>8. CASE Send
  <2>1. sent' \in 0 .. MaxEvents
    BY <1>1, <1>8, EventLoopAssumption DEF Send
  <2>2. events' \in Seq({"wake", "quit", "user"})
    <3>1. Append(events, "quit") \in Seq({"wake", "quit", "user"}) /\ Append(events, "user") \in Seq({"wake", "quit", "user"})
      BY <1>1
    <3> QED BY <1>8, <3>1 DEF Send
  <2>3. UNCHANGED <<program, registry, evaluating, taskQueue, conditionalQueue, began, finished, stack>>
        /\ UNCHANGED <<frameCallbackList, eventCallbackList, delays, cancelled, silenced, wakePending, quit, clock,
                       awaited, remote>>
    BY <1>8 DEF Send, queues, flags, history, posters
  <2> QED BY <1>1, <2>1, <2>2, <2>3, Unregistering
<1> QED BY <1>2, <1>3, <1>4, <1>5, <1>6, <1>7, <1>8

-----------------------------------------------------------------------------
(* The invariant, and what follows.                                        *)

LEMMA InitInv == Init => Inv
PROOF
<1> SUFFICES ASSUME Init
             PROVE  Inv
  OBVIOUS
<1>1. program \in Seq(Kinds) /\ Len(program) \in Nat /\ Items = 1 .. Len(program) /\ MaxTime \in Nat /\ MaxEvents \in Nat
  BY EventLoopAssumption DEF Init, Items
<1>2. Registered = {} /\ stack = <<>> /\ DOMAIN stack = {} /\ delays = {} /\ \A op, i : Calls(op, i) = {}
  BY DEF Init, Registered, Calls
<1>3. /\ taskQueue = <<>> /\ conditionalQueue = <<>> /\ frameCallbackList = <<>> /\ eventCallbackList = <<>>
      /\ DOMAIN taskQueue = {}
      /\ Elements(taskQueue) = {} /\ Elements(conditionalQueue) = {}
      /\ Elements(frameCallbackList) = {} /\ Elements(eventCallbackList) = {}
  BY DEF Init, Elements
<1>4. \A p \in Posters : remote[p] \in RemoteCalls /\ remote[p].op = "idle"
  BY DEF Init, At, Call, RemoteCalls
<1>5. remote \in [Posters -> RemoteCalls]
  BY <1>4 DEF Init
<1>6. Members
  <2>1. /\ program \in Programs /\ id \in [Items -> 0 .. Len(program)] /\ nextId \in 1 .. Len(program) + 1
        /\ due \in [Items -> 0 .. MaxTime] /\ clock \in 0 .. MaxTime
    BY <1>1 DEF Init
  <2>2. /\ silenced \subseteq cancelled /\ cancelled \subseteq Registered
        /\ {wakePending, quit} \subseteq BOOLEAN /\ finished \subseteq Items
    BY DEF Init
  <2>3. sent \in 0 .. MaxEvents /\ began \in [Items -> 0 .. 2] /\ awaited \in [Posters -> 0 .. Len(program)]
    BY <1>1 DEF Init
  <2>4. events \in Seq({"wake", "quit", "user"})
    BY DEF Init
  <2> QED BY <1>2, <1>3, <2>1, <2>2, <2>3, <2>4 DEF Members
<1>7. TypeOK
  BY <1>2, <1>6 DEF TypeOK, Init
<1>8. Numbered
  BY <1>2, <1>3, FS_EmptySet DEF Numbered, Init
<1>9. GoodCalls /\ Nested /\ Alone
  BY <1>2 DEF GoodCalls, Nested, Alone
<1>10. Once
  BY <1>2, <1>3, <1>4 DEF Once, Init, Waits
<1>11. \A p \in Posters : Remote(p)
  BY <1>4 DEF Remote
<1> QED BY <1>2, <1>5, <1>7, <1>8, <1>9, <1>10, <1>11 DEF Inv

LEMMA InvStep == Inv /\ [Next]_vars => Inv'
PROOF
<1> SUFFICES ASSUME Inv, [Next]_vars
             PROVE  Inv'
  OBVIOUS
<1>1. CASE Continue
  BY <1>1, BatchSteps, ClearWakeStep, PollStep, DispatchStep, PredicateStep, CallbackStep, RunTaskStep, RunTimerStep,
     FireStep, EvaluateStep, ClaimStep, EvaluatedStep DEF Continue
<1>2. CASE RunPostedTasks \/ RunReady \/ RunFrame
  BY <1>2, BatchSteps
<1>3. CASE Tick \/ Send
  BY <1>3, OtherSteps
<1>4. ASSUME NEW i \in Items, Register(i) \/ Reset(i)
      PROVE  Inv'
  BY <1>4, RegisterStep, OtherSteps
<1>5. ASSUME NEW p \in Posters, RemoteContinue(p) \/ \E i \in Items : Post(p, i) \/ Schedule(p, i) \/ ResetRemote(p, i)
      PROVE  Inv'
  BY <1>5, InsertStep, PostStep, ScheduleStep, OtherSteps DEF RemoteContinue
<1>6. CASE UNCHANGED vars
  <2>1. UNCHANGED <<program, registry, evaluating, taskQueue, conditionalQueue, began, finished, stack>>
        /\ UNCHANGED <<frameCallbackList, eventCallbackList, delays, cancelled, silenced, wakePending, quit, events,
                       sent, clock, awaited, remote>>
    BY <1>6 DEF vars, queues, flags, sdl, history, posters
  <2>2. /\ silenced \subseteq cancelled /\ {wakePending, quit} \subseteq BOOLEAN
        /\ events \in Seq({"wake", "quit", "user"}) /\ sent \in 0 .. MaxEvents /\ clock \in 0 .. MaxTime
        /\ awaited \in [Posters -> 0 .. Len(program)] /\ remote \in [Posters -> RemoteCalls]
    BY DEF Inv, TypeOK, Members
  <2> QED BY <2>1, <2>2, Unregistering
<1> QED BY <1>1, <1>2, <1>3, <1>4, <1>5, <1>6 DEF Next

\* The types, and what calls and threads rely on, hold throughout.
THEOREM Invariance == Safe => []Inv
PROOF BY InitInv, InvStep, PTL DEF Safe

\* A batch runs what was registered before it, however deep it is nested.
LEMMA BatchesFollow == Inv => BatchBudget
PROOF
<1> SUFFICES ASSUME Inv, NEW d \in DOMAIN stack, d > 1,
                    stack[d].op \in {"draining", "delaying", "evaluate", "dispatch"},
                    stack[d - 1].op \in {"callback", "evaluated", "fire"}
             PROVE  stack[d - 1].item \in stack[d].before
  BY DEF BatchBudget, Inv
<1>1. d - 1 \in DOMAIN stack /\ (d - 1) + 1 = d
  BY DEF Inv
<1>2. Above(stack[d - 1], stack[d])
  BY <1>1 DEF Inv, Nested
<1> QED BY <1>2 DEF Above, Batches

THEOREM BatchesEnd == Safe => []BatchBudget
PROOF BY Invariance, BatchesFollow, PTL

\* Tasks, timers and conditions run once, and no predicate is entered again.
LEMMA OnceFollows == Inv => OneShot
PROOF
<1> SUFFICES ASSUME Inv, NEW i \in Items
             PROVE  /\ began[i] <= 1
                    /\ Calls("predicate", i) # {} => began[i] = 0 /\ Cardinality(Calls("predicate", i)) = 1
  BY DEF OneShot
<1>1. began[i] <= 1
  BY DEF Inv, Once
<1>2. ASSUME NEW d \in Calls("predicate", i)
      PROVE  began[i] = 0 /\ Cardinality(Calls("predicate", i)) = 1
  <2>1. d \in DOMAIN stack /\ stack[d].op = "predicate" /\ stack[d].item = i /\ d \in Nat
    BY DEF Calls, Inv
  <2>2. began[i] = 0
    BY <2>1 DEF Inv, Once, Waits
  <2>3. ASSUME NEW e \in Calls("predicate", i)
        PROVE  e + 1 \in DOMAIN stack /\ stack[e + 1].op = "evaluated" /\ stack[e + 1].item = i /\ e \in Nat
    <3>1. e \in DOMAIN stack /\ stack[e].op = "predicate" /\ stack[e].item = i /\ e \in Nat
      BY DEF Calls, Inv
    <3>2. e + 1 \in DOMAIN stack /\ Above(stack[e], stack[e + 1])
      BY <3>1 DEF Inv, Nested, NeedsCaller
    <3> QED BY <3>1, <3>2 DEF Above
  <2>4. ASSUME NEW e \in Calls("predicate", i)
        PROVE  e = d
    <3>1. Same(stack[e + 1], stack[d + 1]) /\ e + 1 \in DOMAIN stack /\ d + 1 \in DOMAIN stack /\ e \in Nat
      BY <2>3 DEF Same
    <3>2. e + 1 = d + 1
      BY <3>1 DEF Inv, Alone
    <3> QED BY <2>1, <3>1, <3>2
  <2>5. Calls("predicate", i) = {d}
    BY <2>4
  <2> QED BY <2>2, <2>5, FS_Singleton
<1> QED BY <1>1, <1>2

THEOREM RunsOnce == Safe => []OneShot
PROOF BY Invariance, OnceFollows, PTL

\* What is entered, or takes the place of the innermost call, is the innermost call.
LEMMA Front ==
    ASSUME stack \in Seq(CallSet), NEW Y, NEW New \in Seq(Y), Len(New) > 0,
           Enter(New) \/ (stack # <<>> /\ Become(New))
    PROVE  Head(stack') = New[1]
PROOF
<1>1. stack # <<>> => Tail(stack) \in Seq(CallSet)
  OBVIOUS
<1>2. PICK s \in Seq(CallSet) : stack' = New \o s
  BY <1>1 DEF Enter, Become
<1>3. New \in Seq(CallSet \cup Y) /\ s \in Seq(CallSet \cup Y)
  BY SeqMonotonic
<1>4. New \o s \in Seq(CallSet \cup Y) /\ Len(New \o s) = Len(New) + Len(s) /\ (New \o s)[1] = New[1]
  <2>1. New \o s \in Seq(CallSet \cup Y) /\ Len(New \o s) = Len(New) + Len(s) /\ 1 \in 1 .. Len(New) + Len(s)
    BY <1>3, Concatenated
  <2> QED BY <1>3, <2>1, Concatenated
<1> QED BY <1>2, <1>3, <1>4

\* What begins is not cancelled, and what the loop's thread reset is.
LEMMA NothingSilencedBegins ==
    ASSUME Inv, [Next]_vars
    PROVE  stack' # <<>> /\ stack' # stack /\ Len(stack') >= Len(stack)
             /\ Head(stack').op \in {"callback", "predicate"}
           => Head(stack').item \notin silenced
PROOF
<1> DEFINE Quiet == Head(stack').op \in {"callback", "predicate"} => Head(stack').item \notin silenced
<1> SUFFICES ASSUME stack' # <<>>, stack' # stack, Len(stack') >= Len(stack)
             PROVE  Quiet
  OBVIOUS
<1>1. stack \in Seq(CallSet) /\ Len(stack) \in Nat /\ DOMAIN stack = 1 .. Len(stack)
      /\ silenced \subseteq cancelled /\ \A i \in cancelled : ~Is(i, "task")
  BY DEF Inv, TypeOK, Members, Numbered
<1>2. ASSUME stack # <<>>, Return
      PROVE  FALSE
  <2>1. Tail(stack) \in Seq(CallSet) /\ Len(Tail(stack)) = Len(stack) - 1
    BY <1>1, <1>2
  <2>2. stack' = Tail(stack)
    BY <1>2, <2>1, ConcatEmptySeq DEF Return, Become
  <2>3. Len(stack') = Len(stack) - 1
    BY <2>1, <2>2
  <2> QED BY <1>1, <2>3
<1>3. ASSUME NEW c, Enter(<<c>>) \/ (stack # <<>> /\ Become(<<c>>))
      PROVE  Head(stack') = c
  <2>1. PICK New : New = <<c>>
    OBVIOUS
  <2>2. New \in Seq({c}) /\ Len(New) = 1 /\ New[1] = c
    BY <2>1
  <2>3. Enter(New) \/ (stack # <<>> /\ Become(New))
    BY <1>3, <2>1
  <2> QED BY <1>1, <2>2, <2>3, Front
<1>4. ASSUME NEW c, NEW rest, stack # <<>>, Become(<<c, rest>>)
      PROVE  Head(stack') = c
  <2>1. PICK New : New = <<c, rest>>
    OBVIOUS
  <2>2. New \in Seq({c, rest}) /\ Len(New) > 0 /\ New[1] = c
    BY <2>1
  <2> QED BY <1>1, <1>4, <2>1, <2>2, Front
<1>5. CASE RunPostedTasks
  BY <1>3, <1>5 DEF RunPostedTasks, At, Call
<1>6. CASE RunReady
  <2>1. PICK New : New = <<At("drain"), At("poll"), At("conditions"), At("delays")>>
    OBVIOUS
  <2>2. New \in Seq({At(op) : op \in Ops}) /\ Len(New) > 0 /\ New[1] = At("drain") /\ Enter(New)
    BY <1>6, <2>1 DEF RunReady, Ops
  <2>3. Head(stack') = At("drain")
    BY <1>1, <2>2, Front
  <2> QED BY <2>3 DEF At, Call
<1>7. CASE RunFrame
  <2>1. PICK New : New = <<At("drain"), At("poll"), At("conditions"), At("delays"), At("frame")>>
    OBVIOUS
  <2>2. New \in Seq({At(op) : op \in Ops}) /\ Len(New) > 0 /\ New[1] = At("drain") /\ Enter(New)
    BY <1>7, <2>1 DEF RunFrame, Ops
  <2>3. Head(stack') = At("drain")
    BY <1>1, <2>2, Front
  <2> QED BY <2>3 DEF At, Call
<1>8. CASE Drain
  BY <1>2, <1>3, <1>8 DEF Drain, In, Call, Return
<1>9. CASE ClearWake
  <2>1. Top \in CallSet /\ stack # <<>>
    BY <1>9, Innermost DEF ClearWake, In
  <2>2. [Top EXCEPT !.op = "draining"].op = "draining"
    BY <2>1 DEF CallSet
  <2> QED BY <1>3, <1>9, <2>1, <2>2 DEF ClearWake
<1>10. CASE RunTask
  <2>1. CASE Return
    BY <1>2, <1>10, <2>1 DEF RunTask, In
  <2>2. CASE ~Drained(Top.limit) /\ Enter(<<For("callback", Head(taskQueue))>>)
    <3>1. taskQueue # <<>>
      BY <2>2 DEF Drained
    <3>2. Is(Head(taskQueue), "task")
      BY <3>1, Queues, ListElements
    <3> QED BY <1>1, <1>3, <2>2, <3>2 DEF For, Call
  <2> QED BY <1>10, <2>1, <2>2 DEF RunTask
<1>11. CASE Poll
  BY <1>2, <1>3, <1>11 DEF Poll, In, Call
<1>12. CASE Frame
  BY <1>2, <1>3, <1>12 DEF Frame, In, Call, Return
<1>13. CASE Dispatch
  <2>1. stack # <<>> /\ Top \in CallSet /\ Top.op = "dispatch"
    BY <1>13, Innermost DEF Dispatch, In, Top
  <2>2. PICK rest : rest = [Top EXCEPT !.list = Tail(@)]
    OBVIOUS
  <2>3. rest.op = "dispatch"
    BY <2>1, <2>2 DEF CallSet
  <2>4. CASE Top.list = <<>>
    BY <1>2, <1>13, <2>1, <2>4 DEF Dispatch, Return
  <2>5. CASE Top.list # <<>> /\ Skipped(Head(Top.list))
    <3>1. Become(<<rest>>)
      BY <1>13, <2>2, <2>5 DEF Dispatch
    <3> QED BY <1>3, <2>1, <2>3, <3>1
  <2>6. CASE Top.list # <<>> /\ ~Skipped(Head(Top.list))
    <3>1. Become(<<For("callback", Head(Top.list)), rest>>)
      BY <1>13, <2>2, <2>6 DEF Dispatch
    <3>2. Head(stack') = For("callback", Head(Top.list))
      BY <1>4, <2>1, <3>1
    <3> QED BY <1>1, <2>6, <3>2 DEF Skipped, For, Call
  <2> QED BY <2>4, <2>5, <2>6
<1>14. CASE Conditions
  BY <1>3, <1>14 DEF Conditions, In, Call
<1>15. CASE Evaluate
  <2>1. stack # <<>> /\ Top \in CallSet /\ Top.op = "evaluate"
    BY <1>15, Innermost DEF Evaluate, In, Top
  <2>2. PICK i, rest : i = Head(Top.list) /\ rest = [Top EXCEPT !.list = Tail(@)]
    OBVIOUS
  <2>3. rest.op = "evaluate"
    BY <2>1, <2>2 DEF CallSet
  <2>4. CASE Return
    BY <1>2, <2>1, <2>4
  <2>5. CASE Become(<<rest>>)
    BY <1>3, <2>1, <2>3, <2>5
  <2>6. CASE ~Skipped(i) /\ Become(<<For("predicate", i), For("evaluated", i), rest>>)
    <3>0. PICK New : New = <<For("predicate", i), For("evaluated", i), rest>>
      OBVIOUS
    <3>0a. New \in Seq({For("predicate", i), For("evaluated", i), rest}) /\ Len(New) > 0 /\ New[1] = For("predicate", i)
           /\ Become(New)
      BY <2>6, <3>0
    <3>1. Head(stack') = For("predicate", i)
      BY <1>1, <2>1, <3>0a, Front
    <3> QED BY <1>1, <2>6, <3>1 DEF Skipped, For, Call
  <2> QED BY <1>15, <2>2, <2>4, <2>5, <2>6 DEF Evaluate
<1>16. CASE PredicateReturns
  BY <1>2, <1>3, <1>16 DEF PredicateReturns, In, For, Call
<1>17. CASE Claim
  <2>1. stack # <<>>
    BY <1>17 DEF Claim, In
  <2>2. CASE Return
    BY <1>2, <2>1, <2>2
  <2>3. CASE MayClaim(Top.item) /\ Become(<<For("callback", Top.item)>>)
    <3>1. Head(stack') = For("callback", Top.item)
      BY <1>3, <2>1, <2>3
    <3> QED BY <1>1, <2>3, <3>1 DEF MayClaim, For, Call
  <2> QED BY <1>17, <2>2, <2>3 DEF Claim
<1>18. CASE Evaluated
  BY <1>2, <1>18 DEF Evaluated, In
<1>19. CASE Delays
  BY <1>3, <1>19 DEF Delays, In, Call
<1>20. CASE Limit
  BY <1>3, <1>20 DEF Limit, In, Call
<1>21. CASE RunTimer
  <2>1. stack # <<>>
    BY <1>21 DEF RunTimer, In
  <2>2. CASE Return
    BY <1>2, <2>1, <2>2
  <2>3. ASSUME NEW i, Enter(<<For("fire", i)>>)
        PROVE  Quiet
    <3>1. Head(stack') = For("fire", i)
      BY <1>3, <2>3
    <3> QED BY <3>1 DEF For, Call
  <2> HIDE DEF Quiet
  <2> QED BY <1>21, <2>2, <2>3 DEF RunTimer
<1>22. CASE Fire
  <2>1. stack # <<>>
    BY <1>22 DEF Fire, In
  <2>2. CASE Return
    BY <1>2, <2>1, <2>2
  <2>3. CASE ~Skipped(Top.item) /\ Become(<<For("callback", Top.item)>>)
    <3>1. Head(stack') = For("callback", Top.item)
      BY <1>3, <2>1, <2>3
    <3> QED BY <1>1, <2>3, <3>1 DEF Skipped, For, Call
  <2> QED BY <1>22, <2>2, <2>3 DEF Fire
<1>23. CASE CallbackReturns
  <2>1. stack # <<>> /\ Top.op = "callback" /\ Top = stack[1]
    BY <1>23, Innermost DEF CallbackReturns, In, Top
  <2>2. CASE Return
    BY <1>2, <2>1, <2>2
  <2>3. CASE Is(Top.item, "event") /\ stack' = Tail(Tail(stack))
    <3>1. 1 \in DOMAIN stack /\ NeedsCaller(stack[1])
      BY <1>1, <2>1, <2>3, Innermost DEF NeedsCaller
    <3>2. 1 + 1 \in DOMAIN stack
      BY <3>1 DEF Inv, Nested
    <3>3. PICK mid : mid = Tail(stack)
      OBVIOUS
    <3>4. mid \in Seq(CallSet) /\ Len(mid) = Len(stack) - 1 /\ Len(mid) > 0
      BY <1>1, <3>2, <3>3
    <3>5. Len(Tail(mid)) = Len(mid) - 1
      BY <3>4
    <3>6. stack' = Tail(mid)
      BY <2>3, <3>3
    <3>7. Len(stack') = Len(mid) - 1
      BY <3>5, <3>6
    <3> QED BY <1>1, <3>4, <3>7
  <2> QED BY <1>23, <2>2, <2>3 DEF CallbackReturns
<1>24. CASE Tick \/ Send \/ \E i \in Items : Register(i) \/ Reset(i)
  BY <1>24 DEF Tick, Send, Register, Reset
<1>25. CASE \E p \in Posters : RemoteContinue(p) \/ \E i \in Items : Post(p, i) \/ Schedule(p, i) \/ ResetRemote(p, i)
  BY <1>25 DEF RemoteContinue, Insert, WakeLoop, AwaitReturns, UnregisterRemote, Post, Schedule, ResetRemote
<1>26. CASE UNCHANGED vars
  BY <1>26 DEF vars
<1> HIDE DEF Quiet
<1> QED BY <1>5, <1>6, <1>7, <1>8, <1>9, <1>10, <1>11, <1>12, <1>13, <1>14, <1>15, <1>16, <1>17, <1>18, <1>19,
           <1>20, <1>21, <1>22, <1>23, <1>24, <1>25, <1>26 DEF Next, Continue

\* After the loop's thread has reset a connection nothing of it begins any more.
THEOREM ResetsSilence == Safe => ResetSilences
PROOF
<1>1. Inv /\ [Next]_vars
        => [stack' # <<>> /\ stack' # stack /\ Len(stack') >= Len(stack)
              /\ Head(stack').op \in {"callback", "predicate"}
            => Head(stack').item \notin silenced]_vars
  BY NothingSilencedBegins
<1> QED BY <1>1, Invariance, PTL DEF Safe, ResetSilences
=============================================================================
