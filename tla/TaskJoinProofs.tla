--------------------------- MODULE TaskJoinProofs ---------------------------
(***************************************************************************)
(* whenAll for any number of children and threads: a join that ran its body*)
(* outlives its children, and one that returns values joined no failure.   *)
(* Both follow from what each call in progress may rely on, and from there *)
(* being one call at a time whose turn it is in the join.                  *)
(***************************************************************************)
EXTENDS TaskJoin, SequenceTheorems, TLAPS

CallSet == [step : Steps, child : 0 .. N + 1, res : Results]
Stacks == [Threads -> Seq(CallSet)]
InProgress(st) == UNION {{st[t][d] : d \in DOMAIN st[t]} : t \in Threads}

-----------------------------------------------------------------------------
(* The inductive invariant.                                                *)

AllCompleted == \A c \in Children : completed[c]

\* What a call relies on: the join has passed the children that are completed.
Good(c) ==
    /\ c.step \in {"settle", "complete", "cancel", "stopToken", "notify", "subscribe", "await"} =>
          c.child \in Children
    /\ c.step \in {"settle", "complete"} => ended[c.child]
    /\ c.step = "complete" => settled[c.child] # "no"
    /\ c.step = "notify" => c.res # "rejected"
    /\ c.step = "stopEach" => c.child # 0
    /\ c.step \in {"subscribe", "hook", "join", "await", "collect", "result", "unhook"} => started = "yes"
    /\ c.step \in {"join", "await"} => c.child # 0 /\ \A k \in Children : k < c.child => completed[k]
    /\ c.step \in {"collect", "result", "unhook"} => AllCompleted
    /\ c.step = "finish" => started # "no" /\ (started = "yes" => AllCompleted)

\* The steps of the join's own body, of which one call at most is in progress, and
\* none while the join waits, has its ticket in a queue, or does not run.
Turns == {"subscribe", "hook", "join", "await", "collect", "finish"}
NoTurn == \A c \in InProgress(stack) : c.step \notin Turns
Rests == waiting # 0 \/ queued # 0 \/ started = "no" \/ finished

OneTurn ==
    /\ Rests => NoTurn
    /\ \A t, u \in Threads : \A d \in DOMAIN stack[t] : \A e \in DOMAIN stack[u] :
          stack[t][d].step \in Turns /\ stack[u][e].step \in Turns => t = u /\ d = e

Flags ==
    /\ \A c \in Children : settled[c] # "rejected"
    /\ waiting # 0 => started = "yes" /\ \A k \in Children : k < waiting => completed[k]
    /\ queued # 0 => started = "yes" /\ \A k \in Children : k <= queued => completed[k]
    /\ finished /\ started = "yes" => AllCompleted
    /\ waiting = 0 \/ queued = 0
    /\ finished => waiting = 0 /\ queued = 0 /\ started # "no"

\* A refusal is reported before the join goes on, and the result set before it is
\* finished, on the same thread.
Nested == \A t \in Threads : \A d \in DOMAIN stack[t] :
    /\ stack[t][d].step = "fail" /\ stack[t][d].res = "rejected" =>
          d + 1 \in DOMAIN stack[t] /\ stack[t][d + 1].step = "join"
    /\ stack[t][d].step \in {"result", "unhook"} =>
          \E e \in DOMAIN stack[t] : e > d /\ stack[t][e].step = "finish"

Over == finished \/ \E c \in InProgress(stack) : c.step = "finish"
Succeeds == joinError # "rejected" /\ (~Void => \A c \in Children : settled[c] = "value")

\* Once a value is about to be the result nothing can fail any more.
Values ==
    /\ result = "value" => Over /\ Succeeds
    /\ \A c \in InProgress(stack) : c.step = "result" /\ c.res = "value" => Succeeds

Inv ==
    /\ Members /\ stack \in Stacks
    /\ \A c \in InProgress(stack) : Good(c)
    /\ Flags /\ OneTurn /\ Nested /\ Values

-----------------------------------------------------------------------------
(* Stacks.                                                                 *)

\* Calls New take the place of the k innermost calls of thread t.
Replaces(t, New, k) ==
    /\ k \in {0, 1} /\ (k = 1 => stack[t] # <<>>)
    /\ stack' = [stack EXCEPT ![t] = New \o (IF k = 1 THEN Tail(@) ELSE @)]

\* What was in the stacks stays where it was, or moves on its own stack.
Moved(t, New, k) ==
    /\ stack' \in Stacks
    /\ \A u \in Threads : u # t => stack'[u] = stack[u]
    /\ \A d \in DOMAIN New : d \in DOMAIN stack'[t] /\ stack'[t][d] = New[d]
    /\ \A d \in DOMAIN stack[t] : d > k =>
          d + Len(New) - k \in DOMAIN stack'[t] /\ stack'[t][d + Len(New) - k] = stack[t][d]
    /\ \A d \in DOMAIN stack'[t] :
          \/ d \in DOMAIN New
          \/ /\ d - Len(New) + k \in DOMAIN stack[t] /\ d - Len(New) + k > k
             /\ stack'[t][d] = stack[t][d - Len(New) + k]

\* Whatever replaces calls moves the others.
LEMMA ReplacingMoves ==
    ASSUME stack \in Stacks, NEW t \in Threads, NEW New \in Seq(CallSet), NEW k, Replaces(t, New, k)
    PROVE  Moved(t, New, k)
PROOF
<1> DEFINE rest == IF k = 1 THEN Tail(stack[t]) ELSE stack[t]
<1>1. /\ stack[t] \in Seq(CallSet) /\ Len(stack[t]) \in Nat /\ DOMAIN stack[t] = 1 .. Len(stack[t])
      /\ k \in {0, 1} /\ (k = 1 => stack[t] # <<>>)
      /\ Len(New) \in Nat /\ DOMAIN New = 1 .. Len(New)
  BY DEF Stacks, Replaces
<1>2. /\ rest \in Seq(CallSet) /\ Len(rest) = Len(stack[t]) - k /\ Len(rest) \in Nat
      /\ \A d \in 1 .. Len(rest) : rest[d] = stack[t][d + k]
  <2>1. CASE k = 0
    BY <1>1, <2>1
  <2>2. CASE k = 1
    BY <1>1, <2>2
  <2> QED BY <1>1, <2>1, <2>2
<1>3. stack'[t] = New \o rest /\ \A u \in Threads : u # t => stack'[u] = stack[u]
  BY DEF Stacks, Replaces
<1> HIDE DEF rest
<1>4. New \o rest \in Seq(CallSet)
  BY <1>2
<1>5. stack' \in Stacks
  BY <1>3, <1>4 DEF Stacks, Replaces
<1>6. /\ Len(stack'[t]) = Len(New) + Len(rest) /\ DOMAIN stack'[t] = 1 .. Len(New) + Len(rest)
      /\ \A d \in 1 .. Len(New) : stack'[t][d] = New[d]
      /\ \A d \in 1 .. Len(rest) : stack'[t][Len(New) + d] = rest[d]
  <2> DEFINE all == New \o rest
  <2>1. Len(all) = Len(New) + Len(rest)
    BY SMTT(30), <1>2
  <2>2. DOMAIN all = 1 .. Len(New) + Len(rest)
    <3>1. DOMAIN all = 1 .. Len(all)
      BY <1>4, LenProperties
    <3> HIDE DEF all
    <3> QED BY <2>1, <3>1
  <2>3. ASSUME NEW d \in 1 .. Len(New)
        PROVE  all[d] = New[d]
    BY <1>1, <1>2, <2>3
  <2>4. ASSUME NEW d \in 1 .. Len(rest)
        PROVE  all[Len(New) + d] = rest[d]
    BY <1>1, <1>2, <2>4
  <2> HIDE DEF all
  <2>5. stack'[t] = all
    BY <1>3 DEF all
  <2> QED BY <2>1, <2>2, <2>3, <2>4, <2>5
<1>7. \A d \in DOMAIN New : d \in DOMAIN stack'[t] /\ stack'[t][d] = New[d]
  BY <1>1, <1>2, <1>6
<1>8. ASSUME NEW d \in DOMAIN stack[t], d > k
      PROVE  d + Len(New) - k \in DOMAIN stack'[t] /\ stack'[t][d + Len(New) - k] = stack[t][d]
  <2>1. d - k \in 1 .. Len(rest) /\ (d - k) + k = d /\ Len(New) + (d - k) = d + Len(New) - k
    BY <1>1, <1>2, <1>8
  <2>2. stack'[t][Len(New) + (d - k)] = rest[d - k] /\ rest[d - k] = stack[t][d]
    BY <1>2, <1>6, <2>1
  <2>3. d + Len(New) - k \in 1 .. Len(New) + Len(rest)
    BY <1>1, <1>2, <1>8
  <2> QED BY <1>6, <2>1, <2>2, <2>3
<1>9. ASSUME NEW d \in DOMAIN stack'[t], d \notin DOMAIN New
      PROVE  /\ d - Len(New) + k \in DOMAIN stack[t] /\ d - Len(New) + k > k
             /\ stack'[t][d] = stack[t][d - Len(New) + k]
  <2>1. d - Len(New) \in 1 .. Len(rest) /\ Len(New) + (d - Len(New)) = d
    BY <1>1, <1>2, <1>6, <1>9
  <2>2. stack'[t][d] = rest[d - Len(New)] /\ rest[d - Len(New)] = stack[t][d - Len(New) + k]
    BY <1>2, <1>6, <2>1
  <2>3. d - Len(New) + k \in 1 .. Len(stack[t]) /\ d - Len(New) + k > k
    BY <1>1, <1>2, <2>1
  <2> QED BY <1>1, <2>2, <2>3
<1> QED BY <1>3, <1>5, <1>7, <1>8, <1>9 DEF Moved

\* So the calls in progress are the new ones and the old ones.
LEMMA MovedCalls ==
    ASSUME stack \in Stacks, NEW t \in Threads, NEW New \in Seq(CallSet), NEW k \in {0, 1},
           k = 1 => stack[t] # <<>>, Moved(t, New, k)
    PROVE  /\ \A c \in InProgress(stack') : c \in InProgress(stack) \/ \E d \in DOMAIN New : c = New[d]
           /\ \A c \in InProgress(stack) : c \in InProgress(stack') \/ (k = 1 /\ c = Head(stack[t]))
           /\ \A d \in DOMAIN New : New[d] \in InProgress(stack')
PROOF
<1>1. ASSUME NEW c \in InProgress(stack')
      PROVE  c \in InProgress(stack) \/ \E d \in DOMAIN New : c = New[d]
  <2>1. PICK u \in Threads : c \in {stack'[u][d] : d \in DOMAIN stack'[u]}
    BY <1>1 DEF InProgress
  <2>2. PICK d \in DOMAIN stack'[u] : c = stack'[u][d]
    BY <2>1
  <2>3. CASE u # t
    BY <2>2, <2>3 DEF Moved, InProgress
  <2>4. CASE u = t
    BY <2>2, <2>4 DEF Moved, InProgress
  <2> QED BY <2>3, <2>4
<1>2. ASSUME NEW c \in InProgress(stack)
      PROVE  c \in InProgress(stack') \/ (k = 1 /\ c = Head(stack[t]))
  <2>1. PICK u \in Threads : c \in {stack[u][d] : d \in DOMAIN stack[u]}
    BY <1>2 DEF InProgress
  <2>2. PICK d \in DOMAIN stack[u] : c = stack[u][d]
    BY <2>1
  <2>3. CASE u # t
    BY <2>2, <2>3 DEF Moved, InProgress
  <2>4. CASE u = t /\ d > k
    BY <2>2, <2>4 DEF Moved, InProgress
  <2>5. CASE u = t /\ ~(d > k)
    <3>1. stack[t] \in Seq(CallSet) /\ d \in 1 .. Len(stack[t])
      BY <2>2, <2>5 DEF Stacks
    <3>2. k = 1 /\ d = 1
      BY <2>5, <3>1
    <3> QED BY <2>2, <2>5, <3>1, <3>2
  <2> QED BY <2>3, <2>4, <2>5
<1>3. ASSUME NEW d \in DOMAIN New
      PROVE  New[d] \in InProgress(stack')
  BY DEF Moved, InProgress
<1> QED BY <1>1, <1>2, <1>3

-----------------------------------------------------------------------------
(* What a step has to show.                                                *)

\* What is settled, ended, completed, started or finished stays so.
Monotone ==
    /\ \A c \in Children : completed[c] => completed'[c]
    /\ \A c \in Children : ended[c] => ended'[c]
    /\ \A c \in Children : settled[c] # "no" => settled'[c] = settled[c]
    /\ started # "no" => started' = started
    /\ finished => finished'

\* The step takes the k innermost calls of t: it is one that may change the join's
\* error, its result and its end.
Effects(t, k) ==
    /\ joinError' = "rejected" =>
          joinError = "rejected" \/ (In(t, "fail") /\ Res(t) = "rejected")
    /\ result' = "value" =>
          result = "value" \/ (k = 1 /\ Head(stack[t]).step = "result" /\ Head(stack[t]).res = "value")
    /\ k = 1 /\ Head(stack[t]).step = "finish" => finished'

\* A call the step makes.
Made(c) ==
    /\ c \in CallSet /\ Good(c)'
    /\ c.step = "result" /\ c.res = "value" => Succeeds'

\* It makes one call whose turn it is, or none.
TakesTurn(t, k) == ~Rests' /\ (NoTurn \/ (k = 1 /\ Head(stack[t]).step \in Turns))
LeavesTurn(t, k) == Rests' => Rests \/ (k = 1 /\ Head(stack[t]).step \in Turns)

Refused(c) == c.step = "fail" /\ c.res = "rejected"
Result(c) == c.step \in {"result", "unhook"}

-----------------------------------------------------------------------------
(* Each part of the invariant across a step.                               *)

\* What was good stays good.
LEMMA StaysGood ==
    ASSUME Members, Monotone, NEW c \in CallSet, Good(c)
    PROVE  Good(c)'
PROOF
<1>1. \A k \in Children : completed[k] => completed'[k]
  BY DEF Monotone
<1>2. c.step \in {"settle", "complete"} => ended'[c.child]
  BY DEF Good, Monotone
<1>3. c.step = "complete" => settled'[c.child] # "no"
  BY DEF Good, Monotone
<1>4. started = "yes" => started' = "yes"
  BY DEF Monotone
<1>5. started # "no" => started' = started
  BY DEF Monotone
<1>6. AllCompleted => AllCompleted'
  BY <1>1 DEF AllCompleted, Children
<1> QED BY <1>1, <1>2, <1>3, <1>4, <1>5, <1>6 DEF Good, Children

LEMMA GoodCalls ==
    ASSUME Inv, Monotone, NEW t \in Threads, NEW New \in Seq(CallSet), NEW k \in {0, 1},
           k = 1 => stack[t] # <<>>, Moved(t, New, k), \A d \in DOMAIN New : Made(New[d])
    PROVE  \A c \in InProgress(stack') : c \in CallSet /\ Good(c)'
PROOF
<1> TAKE c \in InProgress(stack')
<1>1. CASE \E d \in DOMAIN New : c = New[d]
  BY <1>1 DEF Made
<1>2. CASE c \in InProgress(stack)
  <2>1. PICK u \in Threads : c \in {stack[u][d] : d \in DOMAIN stack[u]}
    BY <1>2 DEF InProgress
  <2>2. PICK d \in DOMAIN stack[u] : c = stack[u][d]
    BY <2>1
  <2>3. stack[u] \in Seq(CallSet)
    BY DEF Inv, Stacks
  <2>4. c \in CallSet
    BY <2>2, <2>3
  <2>5. Good(c) /\ Members
    BY <1>2 DEF Inv
  <2> QED BY <2>4, <2>5, StaysGood
<1> QED BY <1>1, <1>2, MovedCalls DEF Inv

\* A step makes the one call whose turn it is, or none.
LEMMA KeepsOneTurn ==
    ASSUME Inv, NEW t \in Threads, NEW New \in Seq(CallSet), NEW k \in {0, 1},
           k = 1 => stack[t] # <<>>, Moved(t, New, k),
           \A d, e \in DOMAIN New : New[d].step \in Turns /\ New[e].step \in Turns => d = e,
           (\E d \in DOMAIN New : New[d].step \in Turns) => TakesTurn(t, k),
           (\A d \in DOMAIN New : New[d].step \notin Turns) => LeavesTurn(t, k)
    PROVE  OneTurn'
PROOF
<1> DEFINE Old(u, d) == IF u = t THEN d - Len(New) + k ELSE d
<1>1. Len(New) \in Nat /\ DOMAIN New = 1 .. Len(New) /\ stack \in Stacks /\ OneTurn
  BY DEF Inv
<1>2. ASSUME NEW u \in Threads
      PROVE  DOMAIN stack[u] \subseteq Nat /\ DOMAIN stack'[u] \subseteq Nat
  BY <1>1 DEF Moved, Stacks
<1>3. ASSUME NEW u \in Threads, NEW d \in DOMAIN stack'[u], ~(u = t /\ d \in DOMAIN New)
      PROVE  /\ Old(u, d) \in DOMAIN stack[u] /\ stack'[u][d] = stack[u][Old(u, d)]
             /\ u = t => Old(u, d) > k
  BY <1>3 DEF Moved
\* Where the call removed had the turn nothing else had it.
<1>4. ASSUME k = 1, Head(stack[t]).step \in Turns
      PROVE  \A u \in Threads : \A d \in DOMAIN stack[u] :
                 (u = t => d > k) => stack[u][d].step \notin Turns
  <2> SUFFICES ASSUME NEW u \in Threads, NEW d \in DOMAIN stack[u], u = t => d > k,
                      stack[u][d].step \in Turns
               PROVE  FALSE
    OBVIOUS
  <2>1. stack[t] \in Seq(CallSet) /\ stack[t] # <<>>
    BY <1>1, <1>4 DEF Stacks
  <2>2. 1 \in DOMAIN stack[t] /\ stack[t][1] = Head(stack[t])
    BY <2>1
  <2>3. t = u /\ 1 = d
    BY <1>1, <1>4, <2>2 DEF OneTurn
  <2> QED BY <1>4, <2>3
<1>5. NoTurn => \A u \in Threads : \A d \in DOMAIN stack[u] : stack[u][d].step \notin Turns
  BY DEF NoTurn, InProgress
<1> HIDE DEF Old
<1>6. CASE \E d \in DOMAIN New : New[d].step \in Turns
  <2>1. \A u \in Threads : \A d \in DOMAIN stack[u] : (u = t => d > k) => stack[u][d].step \notin Turns
    BY <1>4, <1>5, <1>6 DEF TakesTurn
  <2>2. ASSUME NEW u \in Threads, NEW d \in DOMAIN stack'[u], stack'[u][d].step \in Turns
        PROVE  u = t /\ d \in DOMAIN New /\ New[d].step \in Turns
    BY <1>3, <2>1, <2>2 DEF Moved
  <2>3. ~Rests'
    BY <1>6 DEF TakesTurn
  <2> QED BY <2>2, <2>3 DEF OneTurn
<1>7. CASE \A d \in DOMAIN New : New[d].step \notin Turns
  <2>1. ASSUME NEW u \in Threads, NEW d \in DOMAIN stack'[u], stack'[u][d].step \in Turns
        PROVE  ~(u = t /\ d \in DOMAIN New)
    BY <1>7, <2>1 DEF Moved
  <2>2. ASSUME NEW u \in Threads, NEW v \in Threads, NEW d \in DOMAIN stack'[u], NEW e \in DOMAIN stack'[v],
               stack'[u][d].step \in Turns, stack'[v][e].step \in Turns
        PROVE  u = v /\ d = e
    <3>1. /\ Old(u, d) \in DOMAIN stack[u] /\ stack[u][Old(u, d)].step \in Turns
          /\ Old(v, e) \in DOMAIN stack[v] /\ stack[v][Old(v, e)].step \in Turns
      BY <1>3, <2>1, <2>2
    <3>2. u = v /\ Old(u, d) = Old(v, e)
      BY <1>1, <3>1 DEF OneTurn
    <3>3. d \in Nat /\ e \in Nat
      BY <1>2
    <3> QED BY <1>1, <3>2, <3>3 DEF Old
  <2>3. ASSUME Rests'
        PROVE  NoTurn'
    <3>1. LeavesTurn(t, k)
      BY <1>7
    <3>2. \A u \in Threads : \A d \in DOMAIN stack[u] : (u = t => d > k) => stack[u][d].step \notin Turns
      <4>1. CASE Rests
        BY <1>1, <1>5, <4>1 DEF OneTurn
      <4>2. CASE k = 1 /\ Head(stack[t]).step \in Turns
        BY <1>4, <4>2
      <4> QED BY <2>3, <3>1, <4>1, <4>2 DEF LeavesTurn
    <3>3. ASSUME NEW u \in Threads, NEW d \in DOMAIN stack'[u]
          PROVE  stack'[u][d].step \notin Turns
      BY <1>3, <2>1, <3>2, <3>3
    <3>4. ASSUME NEW c \in InProgress(stack')
          PROVE  c.step \notin Turns
      <4>1. PICK u \in Threads : c \in {stack'[u][d] : d \in DOMAIN stack'[u]}
        BY <3>4 DEF InProgress
      <4> QED BY <3>3, <4>1
    <3> QED BY <3>4 DEF NoTurn
  <2> QED BY <2>2, <2>3 DEF OneTurn
<1> QED BY <1>6, <1>7

\* Calls that belong together are made together and stay together.
LEMMA KeepsNested ==
    ASSUME Inv, NEW t \in Threads, NEW New \in Seq(CallSet), NEW k \in {0, 1},
           k = 1 => stack[t] # <<>>, Moved(t, New, k),
           \A d \in DOMAIN New :
              /\ Refused(New[d]) => d + 1 \in DOMAIN New /\ New[d + 1].step = "join"
              /\ Result(New[d]) => \E e \in DOMAIN New : e > d /\ New[e].step = "finish"
    PROVE  Nested'
PROOF
<1>1. Len(New) \in Nat /\ DOMAIN New = 1 .. Len(New) /\ stack \in Stacks /\ Nested
  BY DEF Inv
<1>2. ASSUME NEW u \in Threads
      PROVE  DOMAIN stack[u] \subseteq Nat /\ DOMAIN stack'[u] \subseteq Nat
  BY <1>1 DEF Moved, Stacks
<1> DEFINE Ok(st, u, d) ==
        /\ Refused(st[u][d]) => d + 1 \in DOMAIN st[u] /\ st[u][d + 1].step = "join"
        /\ Result(st[u][d]) => \E e \in DOMAIN st[u] : e > d /\ st[u][e].step = "finish"
<1>3. ASSUME NEW u \in Threads, NEW d \in DOMAIN stack[u]
      PROVE  Ok(stack, u, d)
  BY <1>1 DEF Nested, Refused, Result
<1>4. ASSUME NEW u \in Threads, NEW d \in DOMAIN stack'[u]
      PROVE  Ok(stack', u, d)
  <2>1. CASE u # t
    BY <1>3, <2>1 DEF Moved
  <2>2. CASE u = t /\ d \in DOMAIN New
    <3>1. /\ stack'[t][d] = New[d]
          /\ \A e \in DOMAIN New : e \in DOMAIN stack'[t] /\ stack'[t][e] = New[e]
      BY <2>2 DEF Moved
    <3> QED BY <2>2, <3>1
  <2>3. CASE u = t /\ d \notin DOMAIN New
    <3> DEFINE o == d - Len(New) + k
    <3>1. o \in DOMAIN stack[t] /\ o > k /\ stack'[t][d] = stack[t][o]
      BY <2>3 DEF Moved
    <3>2. d \in Nat /\ o \in Nat /\ Len(New) \in Nat /\ k \in Nat
      BY <1>1, <1>2, <3>1
    <3>3. ASSUME NEW e \in DOMAIN stack[t], e > k
          PROVE  e + Len(New) - k \in DOMAIN stack'[t] /\ stack'[t][e + Len(New) - k] = stack[t][e]
      BY <3>3 DEF Moved
    <3>4. ASSUME Refused(stack'[t][d])
          PROVE  d + 1 \in DOMAIN stack'[t] /\ stack'[t][d + 1].step = "join"
      <4>1. o + 1 \in DOMAIN stack[t] /\ stack[t][o + 1].step = "join"
        BY <1>3, <3>1, <3>4
      <4>2. o + 1 > k /\ (o + 1) + Len(New) - k = d + 1
        BY SMTT(30), <3>1, <3>2
      <4> HIDE DEF o
      <4> QED BY <3>3, <4>1, <4>2
    <3>5. ASSUME Result(stack'[t][d])
          PROVE  \E e \in DOMAIN stack'[t] : e > d /\ stack'[t][e].step = "finish"
      <4>1. PICK e \in DOMAIN stack[t] : e > o /\ stack[t][e].step = "finish"
        BY <1>3, <3>1, <3>5
      <4>2. e \in Nat
        BY <1>2
      <4>3. e > k /\ e + Len(New) - k > d
        BY <3>1, <3>2, <4>1, <4>2
      <4> HIDE DEF o
      <4> QED BY <3>3, <4>1, <4>3
    <3> QED BY <2>3, <3>4, <3>5
  <2> QED BY <2>1, <2>2, <2>3
<1> QED BY <1>4 DEF Nested, Refused, Result

\* While a refusal is being reported the join has not passed its children: it has a
\* call at that place.
LEMMA RefusedInTime ==
    ASSUME Inv, NEW t \in Threads, stack[t] # <<>>, Refused(Head(stack[t]))
    PROVE  ~Over /\ \A c \in InProgress(stack) : c.step # "result"
PROOF
<1>1. stack[t] \in Seq(CallSet) /\ OneTurn /\ Nested
  BY DEF Inv, Stacks
<1>2. 1 \in DOMAIN stack[t] /\ stack[t][1] = Head(stack[t])
  BY <1>1
<1>3. 2 \in DOMAIN stack[t] /\ stack[t][2].step = "join"
  <2>1. 1 + 1 = 2
    OBVIOUS
  <2> QED BY <1>1, <1>2, <2>1 DEF Nested, Refused
<1>4. stack[t][2] \in InProgress(stack)
  BY <1>3 DEF InProgress
<1>5. ~finished
  BY <1>1, <1>3, <1>4 DEF OneTurn, NoTurn, Rests, Turns
<1>6. ASSUME NEW u \in Threads, NEW d \in DOMAIN stack[u]
      PROVE  stack[u][d].step # "finish"
  BY <1>1, <1>3 DEF OneTurn, Turns
<1>7. ASSUME NEW c \in InProgress(stack)
      PROVE  c.step # "finish" /\ c.step # "result"
  <2>1. PICK u \in Threads : c \in {stack[u][d] : d \in DOMAIN stack[u]}
    BY <1>7 DEF InProgress
  <2>2. PICK d \in DOMAIN stack[u] : c = stack[u][d]
    BY <2>1
  <2>3. stack[u][d].step # "result"
    BY <1>1, <1>6 DEF Nested
  <2> QED BY <1>6, <2>2, <2>3
<1> QED BY <1>5, <1>7 DEF Over

\* A join that is about to succeed does succeed.
LEMMA KeepsValues ==
    ASSUME Inv, NEW t \in Threads, NEW New \in Seq(CallSet), NEW k \in {0, 1},
           k = 1 => stack[t] # <<>>, Moved(t, New, k), Monotone, Effects(t, k), Members',
           \A d \in DOMAIN New : Made(New[d])
    PROVE  Values'
PROOF
<1>1. stack \in Stacks /\ Values /\ Nested /\ Members
  BY DEF Inv
<1>2. /\ \A c \in InProgress(stack') : c \in InProgress(stack) \/ \E d \in DOMAIN New : c = New[d]
      /\ \A c \in InProgress(stack) : c \in InProgress(stack') \/ (k = 1 /\ c = Head(stack[t]))
  BY <1>1, MovedCalls
<1>3. Over => Over'
  BY <1>2 DEF Over, Effects, Monotone
<1>4. (Over \/ \E c \in InProgress(stack) : c.step = "result") /\ Succeeds => Succeeds'
  <2> SUFFICES ASSUME Over \/ \E c \in InProgress(stack) : c.step = "result", Succeeds
               PROVE  Succeeds'
    OBVIOUS
  <2>1. \A c \in Children : settled[c] = "value" => settled'[c] = "value"
    BY DEF Monotone
  <2>2. joinError' # "rejected"
    BY RefusedInTime DEF Effects, In, Res, Refused, Succeeds
  <2> QED BY <2>1, <2>2 DEF Succeeds, Children
<1>5. ASSUME NEW c \in InProgress(stack'), c.step = "result", c.res = "value"
      PROVE  Succeeds'
  BY <1>1, <1>2, <1>4, <1>5 DEF Made, Values
<1>6. ASSUME result' = "value"
      PROVE  Over' /\ Succeeds'
  <2>1. CASE result = "value"
    BY <1>1, <1>3, <1>4, <2>1 DEF Values
  <2>2. CASE k = 1 /\ Head(stack[t]).step = "result" /\ Head(stack[t]).res = "value"
    <3>1. stack[t] \in Seq(CallSet) /\ stack[t] # <<>>
      BY <1>1, <2>2 DEF Stacks
    <3>2. 1 \in DOMAIN stack[t] /\ stack[t][1] = Head(stack[t])
      BY <3>1
    <3>3. Head(stack[t]) \in InProgress(stack)
      BY <3>2 DEF InProgress
    <3>4. Over
      BY <1>1, <2>2, <3>2 DEF Nested, Over, InProgress
    <3> QED BY <1>1, <1>3, <1>4, <2>2, <3>3, <3>4 DEF Values
  <2> QED BY <1>6, <2>1, <2>2 DEF Effects
<1> QED BY <1>5, <1>6 DEF Values

-----------------------------------------------------------------------------
(* A step that shows these keeps the invariant.                            *)

\* What a step shows whatever calls it makes.
Shown(t, k) == Members' /\ Flags' /\ Monotone /\ Effects(t, k)

LEMMA StepKeeps ==
    ASSUME Inv, NEW t \in Threads, NEW New \in Seq(CallSet), NEW k, Replaces(t, New, k), Shown(t, k),
           \A d \in DOMAIN New : Made(New[d]),
           \A d, e \in DOMAIN New : New[d].step \in Turns /\ New[e].step \in Turns => d = e,
           (\E d \in DOMAIN New : New[d].step \in Turns) => TakesTurn(t, k),
           (\A d \in DOMAIN New : New[d].step \notin Turns) => LeavesTurn(t, k),
           \A d \in DOMAIN New :
              /\ Refused(New[d]) => d + 1 \in DOMAIN New /\ New[d + 1].step = "join"
              /\ Result(New[d]) => \E e \in DOMAIN New : e > d /\ New[e].step = "finish"
    PROVE  Inv'
PROOF
<1>1. stack \in Stacks
  BY DEF Inv
<1>2. Moved(t, New, k) /\ k \in {0, 1} /\ (k = 1 => stack[t] # <<>>)
  BY <1>1, ReplacingMoves DEF Replaces
<1>3. Members' /\ Flags' /\ Monotone /\ Effects(t, k)
  BY DEF Shown
<1>4. stack' \in Stacks
  BY <1>2 DEF Moved
<1>5. \A c \in InProgress(stack') : Good(c)'
  BY <1>2, <1>3, GoodCalls
<1>6. OneTurn'
  BY <1>2, KeepsOneTurn
<1>7. Nested'
  BY <1>2, KeepsNested
<1>8. Values'
  BY <1>2, <1>3, KeepsValues
<1> QED BY <1>3, <1>4, <1>5, <1>6, <1>7, <1>8 DEF Inv, Stacks

\* The steps that make no call, one, or two.
LEMMA NoneKeeps ==
    ASSUME Inv, NEW t \in Threads, NEW k, Replaces(t, <<>>, k), Shown(t, k), LeavesTurn(t, k)
    PROVE  Inv'
PROOF
<1> DEFINE New == <<>>
<1>1. New \in Seq(CallSet) /\ DOMAIN New = {}
  OBVIOUS
<1>2. Replaces(t, New, k)
  OBVIOUS
<1> HIDE DEF New
<1> QED BY <1>1, <1>2, StepKeeps

LEMMA OneKeeps ==
    ASSUME Inv, NEW t \in Threads, NEW k, NEW a, Replaces(t, <<a>>, k), Shown(t, k), Made(a),
           ~Refused(a), ~Result(a),
           IF a.step \in Turns THEN TakesTurn(t, k) ELSE LeavesTurn(t, k)
    PROVE  Inv'
PROOF
<1> DEFINE New == <<a>>
<1>1. New \in Seq(CallSet) /\ DOMAIN New = {1} /\ New[1] = a
  BY DEF Made
<1>2. Replaces(t, New, k)
  OBVIOUS
<1> HIDE DEF New
<1> QED BY <1>1, <1>2, StepKeeps

LEMMA TwoKeep ==
    ASSUME Inv, NEW t \in Threads, NEW k, NEW a, NEW b, Replaces(t, <<a, b>>, k), Shown(t, k),
           Made(a), Made(b), ~Result(a), ~Result(b), ~Refused(b), Refused(a) => b.step = "join",
           a.step \notin Turns,
           IF b.step \in Turns THEN TakesTurn(t, k) ELSE LeavesTurn(t, k)
    PROVE  Inv'
PROOF
<1> DEFINE New == <<a, b>>
<1>1. New \in Seq(CallSet) /\ DOMAIN New = {1, 2} /\ New[1] = a /\ New[2] = b
  BY DEF Made
<1>2. Replaces(t, New, k)
  OBVIOUS
<1>3. \A d \in DOMAIN New : Made(New[d])
  BY <1>1
<1>4. \A d, e \in DOMAIN New : New[d].step \in Turns /\ New[e].step \in Turns => d = e
  BY <1>1
<1>5. /\ (\E d \in DOMAIN New : New[d].step \in Turns) => TakesTurn(t, k)
      /\ (\A d \in DOMAIN New : New[d].step \notin Turns) => LeavesTurn(t, k)
  BY <1>1
<1>6. \A d \in DOMAIN New :
         /\ Refused(New[d]) => d + 1 \in DOMAIN New /\ New[d + 1].step = "join"
         /\ Result(New[d]) => \E e \in DOMAIN New : e > d /\ New[e].step = "finish"
  BY <1>1
<1> HIDE DEF New
<1> QED BY <1>1, <1>2, <1>3, <1>4, <1>5, <1>6, StepKeeps

-----------------------------------------------------------------------------
(* The initial state, and what every action uses.                          *)

LEMMA InitInv == Init => Inv
PROOF
<1> SUFFICES ASSUME Init
             PROVE  Inv
  OBVIOUS
<1>1. N \in Nat \ {0} /\ MaxStops \in Nat
  BY TaskJoinAssumption
<1>2. /\ settled \in [Children -> Results] /\ stopped \in [Children -> BOOLEAN]
      /\ ended \in [Children -> BOOLEAN] /\ completed \in [Children -> BOOLEAN]
      /\ subscribed \in [Children -> BOOLEAN]
      /\ \A c \in Children : completed[c] => ended[c] /\ settled[c] # "no"
  BY DEF Init, Results
<1>3. /\ joinError \in Results /\ result \in Results /\ started \in {"no", "yes", "skipped"}
      /\ {joinStopped, finished} \subseteq BOOLEAN /\ hook \in {"off", "on"} \cup Threads
  BY DEF Init, Results
<1>4. waiting \in 0 .. N /\ queued \in 0 .. N /\ stops \in 0 .. MaxStops
  BY <1>1 DEF Init
<1>5. Members
  BY <1>2, <1>3, <1>4 DEF Members
<1>6. stack \in Stacks /\ \A t \in Threads : stack[t] = <<>> /\ DOMAIN stack[t] = {}
  BY DEF Init, Stacks
<1>7. InProgress(stack) = {}
  BY <1>6 DEF InProgress
<1>8. Flags /\ result # "value"
  BY DEF Init, Flags
<1> QED BY <1>5, <1>6, <1>7, <1>8 DEF Inv, OneTurn, NoTurn, Nested, Values

LEMMA Stutter == Inv /\ UNCHANGED vars => Inv'
PROOF
<1> SUFFICES ASSUME Inv, UNCHANGED vars
             PROVE  Inv'
  OBVIOUS
<1>1. Members' /\ Flags'
  BY DEF Inv, vars, childVars, joinVars, Members, Flags, AllCompleted
<1>2. stack' = stack /\ InProgress(stack') = InProgress(stack) /\ stack' \in Stacks
  BY DEF Inv, vars, Stacks
<1>3. \A c \in InProgress(stack') : Good(c)'
  BY <1>2 DEF Inv, vars, childVars, joinVars, Good, AllCompleted
<1>4. OneTurn' /\ Nested'
  BY <1>2 DEF Inv, vars, joinVars, OneTurn, Nested, Rests, NoTurn
<1>5. Values'
  BY <1>2 DEF Inv, vars, childVars, joinVars, Values, Over, Succeeds
<1> QED BY <1>1, <1>2, <1>3, <1>4, <1>5 DEF Inv

\* The call a thread carries out is good, and the join does not rest if it is its turn.
LEMMA Acting ==
    ASSUME Inv, NEW t \in Threads, stack[t] # <<>>
    PROVE  /\ Head(stack[t]) \in CallSet /\ Head(stack[t]) \in InProgress(stack)
           /\ Good(Head(stack[t])) /\ Members /\ Flags
           /\ Head(stack[t]).step \in Turns => ~Rests
PROOF
<1>1. stack[t] \in Seq(CallSet)
  BY DEF Inv, Stacks
<1>2. 1 \in DOMAIN stack[t] /\ stack[t][1] = Head(stack[t])
  BY <1>1
<1>3. Head(stack[t]) \in InProgress(stack)
  BY <1>2 DEF InProgress
<1> QED BY <1>1, <1>2, <1>3 DEF Inv, OneTurn, NoTurn

LEMMA Calling ==
    ASSUME NEW step \in Steps, NEW c \in 0 .. N + 1, NEW r \in Results
    PROVE  /\ Call(step, c, r) \in CallSet
           /\ Call(step, c, r).step = step /\ Call(step, c, r).child = c /\ Call(step, c, r).res = r
BY DEF Call, CallSet

LEMMA Joining ==
    ASSUME NEW a \in CallSet, NEW b \in CallSet
    PROVE  <<a>> \o <<b>> = <<a, b>>
PROOF
<1> DEFINE l == <<a>> \o <<b>>
           m == <<a, b>>
<1>1. l \in Seq(CallSet) /\ Len(l) = 2 /\ l[1] = a /\ l[2] = b
  OBVIOUS
<1>2. m \in Seq(CallSet) /\ Len(m) = 2 /\ m[1] = a /\ m[2] = b
  OBVIOUS
<1> HIDE DEF l, m
<1>3. \A i \in 1 .. Len(l) : l[i] = m[i]
  BY <1>1, <1>2
<1>4. l = m
  BY <1>1, <1>2, <1>3, SeqEqual
<1> QED BY <1>4 DEF l, m

\* Children and the numbers next to them.
LEMMA ChildNumbers ==
    /\ N \in Nat \ {0} /\ 0 \in 0 .. N + 1 /\ 1 \in 0 .. N + 1 /\ 1 \in Children
    /\ \A c \in Children : c \in 0 .. N + 1 /\ c + 1 \in 0 .. N + 1 /\ c \in 0 .. N /\ c # 0 /\ c + 1 # 0
BY TaskJoinAssumption DEF Children

LEMMA StepsAre ==
    /\ Steps = {"settle", "complete", "cancel", "cancelJoin", "stopToken", "notify", "join", "await",
                "collect", "result", "unhook", "finish", "fail", "stopEach", "stopJoin", "called",
                "subscribe", "hook"}
    /\ {"no", "value", "error", "cancelled", "rejected"} = Results
BY DEF Steps, Results

\* A step that leaves the children and the join as they are.
LEMMA Untouched ==
    ASSUME Members, Flags, UNCHANGED <<childVars, joinVars>>, stops' \in 0 .. MaxStops
    PROVE  Members' /\ Flags' /\ Monotone
PROOF
<1>1. Members'
  BY DEF Members, childVars, joinVars
<1>2. Flags'
  BY DEF Flags, AllCompleted, childVars, joinVars
<1> QED BY <1>1, <1>2 DEF Monotone, childVars, joinVars

-----------------------------------------------------------------------------
(* The children.                                                           *)

LEMMA BeginEndKeeps ==
    ASSUME Inv, NEW t \in Threads, NEW c \in Children, BeginEnd(t, c)
    PROVE  Inv'
PROOF
<1>1. Members /\ Flags
  BY DEF Inv
<1>2. PICK a : a = At("settle", c)
  OBVIOUS
<1>3. a \in CallSet /\ a.step = "settle" /\ a.child = c
  BY <1>2, Calling, ChildNumbers, StepsAre DEF At
<1>4. Replaces(t, <<a>>, 0)
  BY <1>2 DEF BeginEnd, Enter, Replaces
<1>5. ended' = [ended EXCEPT ![c] = TRUE]
  BY DEF BeginEnd, Ending
<1>6. Members' /\ Monotone /\ ended'[c]
  BY <1>1, <1>5 DEF Members, Monotone, BeginEnd, joinVars
<1>7. Flags' /\ (Rests' <=> Rests) /\ joinError' = joinError /\ result' = result
  BY <1>1 DEF Flags, AllCompleted, Rests, BeginEnd, joinVars
<1>8. Shown(t, 0) /\ LeavesTurn(t, 0)
  BY <1>6, <1>7 DEF Shown, Effects, LeavesTurn
<1>9. Made(a)
  BY <1>3, <1>6 DEF Made, Good
<1> QED BY <1>3, <1>4, <1>8, <1>9, OneKeeps DEF Refused, Result, Turns

\* Settling a child once, with a result the join is told of.
LEMMA Settling ==
    ASSUME Members, Flags, NEW c \in Children, settled[c] = "no",
           NEW r \in {"value", "error", "cancelled"},
           settled' = [settled EXCEPT ![c] = r], subscribed' = [subscribed EXCEPT ![c] = FALSE],
           UNCHANGED <<stopped, ended, completed, joinVars, stops>>
    PROVE  Members' /\ Flags' /\ Monotone /\ settled'[c] = r
PROOF
<1>1. settled' \in [Children -> Results] /\ subscribed' \in [Children -> BOOLEAN] /\ settled'[c] = r
  BY DEF Members, Results
<1>2. \A k \in Children : settled[k] # "no" => settled'[k] = settled[k]
  BY DEF Members
<1>3. Members'
  BY <1>1, <1>2 DEF Members, joinVars
<1>4. \A k \in Children : settled'[k] # "rejected"
  BY DEF Members, Flags
<1>5. Flags'
  BY <1>4 DEF Flags, AllCompleted, joinVars
<1> QED BY <1>1, <1>2, <1>3, <1>5 DEF Monotone, joinVars

LEMMA SettleChildKeeps ==
    ASSUME Inv, NEW t \in Threads, SettleChild(t)
    PROVE  Inv'
PROOF
<1>1. PICK c : c = Child(t)
  OBVIOUS
<1>2. stack[t] # <<>> /\ Head(stack[t]).step = "settle" /\ Head(stack[t]).child = c
  BY <1>1 DEF SettleChild, In, Child
<1>3. c \in Children /\ ended[c] /\ Members /\ Flags
  BY <1>2, Acting DEF Good
<1>4. PICK b : b = At("complete", c)
  OBVIOUS
<1>5. b \in CallSet /\ b.step = "complete" /\ b.child = c
  BY <1>3, <1>4, Calling, ChildNumbers, StepsAre DEF At
<1>6. (Rests' <=> Rests) /\ joinError' = joinError /\ result' = result /\ ended' = ended
  BY DEF SettleChild, Rests, joinVars
<1>7. Effects(t, 1) /\ LeavesTurn(t, 1)
  BY <1>2, <1>6 DEF Effects, LeavesTurn
<1>8. CASE settled[c] # "no"
  <2>1. Replaces(t, <<b>>, 1) /\ UNCHANGED <<childVars, joinVars>> /\ stops' = stops
    BY <1>1, <1>2, <1>4, <1>8 DEF SettleChild, Become, Replaces, childVars
  <2>2. Shown(t, 1)
    BY <1>3, <1>7, <2>1, Untouched DEF Shown, Members
  <2>3. Made(b)
    BY <1>3, <1>5, <1>8, <2>1 DEF Made, Good, childVars
  <2> QED BY <1>5, <1>7, <2>1, <2>2, <2>3, OneKeeps DEF Refused, Result, Turns
<1>9. CASE settled[c] = "no"
  <2>1. PICK r \in {"value", "error"} :
            /\ settled' = [settled EXCEPT ![c] = r]
            /\ subscribed' = [subscribed EXCEPT ![c] = FALSE]
            /\ Become(t, Callbacks(c, r) \o <<b>>)
    BY <1>1, <1>4, <1>9 DEF SettleChild
  <2>2. Members' /\ Flags' /\ Monotone /\ settled'[c] = r
    BY <1>3, <1>9, <2>1, Settling DEF SettleChild
  <2>3. Shown(t, 1)
    BY <1>7, <2>2 DEF Shown
  <2>4. Made(b)
    BY <1>3, <1>5, <1>6, <2>2 DEF Made, Good
  <2>5. CASE ~subscribed[c]
    <3>1. Callbacks(c, r) \o <<b>> = <<b>>
      BY <2>5 DEF Callbacks
    <3>2. Replaces(t, <<b>>, 1)
      BY <1>2, <2>1, <3>1 DEF Become, Replaces
    <3> QED BY <1>5, <1>7, <2>3, <2>4, <3>2, OneKeeps DEF Refused, Result, Turns
  <2>6. CASE subscribed[c]
    <3>1. PICK a : a = Call("notify", c, r)
      OBVIOUS
    <3>2. a \in CallSet /\ a.step = "notify" /\ a.child = c /\ a.res = r
      BY <1>3, <3>1, Calling, ChildNumbers, StepsAre
    <3>3. Callbacks(c, r) \o <<b>> = <<a, b>>
      BY <1>5, <2>6, <3>1, <3>2, Joining DEF Callbacks
    <3>4. Replaces(t, <<a, b>>, 1)
      BY <1>2, <2>1, <3>3 DEF Become, Replaces
    <3>5. Made(a)
      BY <1>3, <3>2 DEF Made, Good
    <3> QED BY <1>5, <1>7, <2>3, <2>4, <3>2, <3>4, <3>5, TwoKeep DEF Refused, Result, Turns
  <2> QED BY <2>5, <2>6
<1> QED BY <1>8, <1>9

LEMMA RequestStopKeeps ==
    ASSUME Inv, NEW t \in Threads, RequestStop(t)
    PROVE  Inv'
PROOF
<1>1. Members /\ Flags
  BY DEF Inv
<1>2. UNCHANGED <<childVars, joinVars>> /\ stops' \in 0 .. MaxStops
  BY <1>1, TaskJoinAssumption DEF RequestStop, Members
<1>3. Members' /\ Flags' /\ Monotone
  BY <1>1, <1>2, Untouched
<1>4. Shown(t, 0) /\ LeavesTurn(t, 0)
  BY <1>2, <1>3 DEF Shown, Effects, LeavesTurn, Rests, joinVars
<1>5. ASSUME NEW c \in Children, Enter(t, <<At("cancel", c)>>)
      PROVE  Inv'
  <2>1. PICK a : a = At("cancel", c)
    OBVIOUS
  <2>2. a \in CallSet /\ a.step = "cancel" /\ a.child = c
    BY <2>1, Calling, ChildNumbers, StepsAre DEF At
  <2>3. Replaces(t, <<a>>, 0) /\ Made(a)
    BY <1>5, <2>1, <2>2 DEF Enter, Replaces, Made, Good
  <2> QED BY <1>4, <2>2, <2>3, OneKeeps DEF Refused, Result, Turns
<1>6. ASSUME Enter(t, <<At("cancelJoin", 0)>>)
      PROVE  Inv'
  <2>1. PICK a : a = At("cancelJoin", 0)
    OBVIOUS
  <2>2. a \in CallSet /\ a.step = "cancelJoin"
    BY <2>1, Calling, ChildNumbers, StepsAre DEF At
  <2>3. Replaces(t, <<a>>, 0) /\ Made(a)
    BY <1>6, <2>1, <2>2 DEF Enter, Replaces, Made, Good
  <2> QED BY <1>4, <2>2, <2>3, OneKeeps DEF Refused, Result, Turns
<1> QED BY <1>5, <1>6 DEF RequestStop

LEMMA CancelChildKeeps ==
    ASSUME Inv, NEW t \in Threads, CancelChild(t)
    PROVE  Inv'
PROOF
<1>1. PICK c : c = Child(t)
  OBVIOUS
<1>2. stack[t] # <<>> /\ Head(stack[t]).step = "cancel" /\ Head(stack[t]).child = c
  BY <1>1 DEF CancelChild, In, Child
<1>3. c \in Children /\ Members /\ Flags
  BY <1>2, Acting DEF Good
<1>4. PICK a : a = At("stopToken", c)
  OBVIOUS
<1>5. a \in CallSet /\ a.step = "stopToken" /\ a.child = c
  BY <1>3, <1>4, Calling, ChildNumbers, StepsAre DEF At
<1>6. Effects(t, 1) /\ LeavesTurn(t, 1)
  BY <1>2 DEF Effects, LeavesTurn, CancelChild, Rests, joinVars
<1>7. Made(a)
  BY <1>3, <1>5 DEF Made, Good
<1>8. CASE settled[c] # "no"
  <2>1. Replaces(t, <<a>>, 1) /\ UNCHANGED <<childVars, joinVars>> /\ stops' = stops
    BY <1>1, <1>2, <1>4, <1>8 DEF CancelChild, Become, Replaces, childVars
  <2>2. Shown(t, 1)
    BY <1>3, <1>6, <2>1, Untouched DEF Shown, Members
  <2> QED BY <1>5, <1>6, <1>7, <2>1, <2>2, OneKeeps DEF Refused, Result, Turns
<1>9. CASE settled[c] = "no"
  <2>1. /\ settled' = [settled EXCEPT ![c] = "cancelled"]
        /\ subscribed' = [subscribed EXCEPT ![c] = FALSE]
        /\ Become(t, <<a>> \o Callbacks(c, "cancelled"))
    BY <1>1, <1>4, <1>9 DEF CancelChild
  <2>2. Members' /\ Flags' /\ Monotone
    BY <1>3, <1>9, <2>1, Settling DEF CancelChild
  <2>3. Shown(t, 1)
    BY <1>6, <2>2 DEF Shown
  <2>4. CASE ~subscribed[c]
    <3>1. <<a>> \o Callbacks(c, "cancelled") = <<a>>
      BY <1>5, <2>4, ConcatEmptySeq DEF Callbacks
    <3>2. Replaces(t, <<a>>, 1)
      BY <1>2, <2>1, <3>1 DEF Become, Replaces
    <3> QED BY <1>5, <1>6, <1>7, <2>3, <3>2, OneKeeps DEF Refused, Result, Turns
  <2>5. CASE subscribed[c]
    <3>1. PICK b : b = Call("notify", c, "cancelled")
      OBVIOUS
    <3>2. b \in CallSet /\ b.step = "notify" /\ b.child = c /\ b.res = "cancelled"
      BY <1>3, <3>1, Calling, ChildNumbers, StepsAre
    <3>3. <<a>> \o Callbacks(c, "cancelled") = <<a, b>>
      BY <1>5, <2>5, <3>1, <3>2, Joining DEF Callbacks
    <3>4. Replaces(t, <<a, b>>, 1)
      BY <1>2, <2>1, <3>3 DEF Become, Replaces
    <3>5. Made(b)
      BY <1>3, <3>2 DEF Made, Good
    <3> QED BY <1>5, <1>6, <1>7, <2>3, <3>2, <3>4, <3>5, TwoKeep DEF Refused, Result, Turns
  <2> QED BY <2>4, <2>5
<1> QED BY <1>8, <1>9

LEMMA StopChildKeeps ==
    ASSUME Inv, NEW t \in Threads, StopChild(t)
    PROVE  Inv'
PROOF
<1>1. PICK c : c = Child(t)
  OBVIOUS
<1>2. stack[t] # <<>> /\ Head(stack[t]).step = "stopToken" /\ Head(stack[t]).child = c
  BY <1>1 DEF StopChild, In, Child
<1>3. c \in Children /\ Members /\ Flags
  BY <1>2, Acting DEF Good
<1>4. Effects(t, 1) /\ LeavesTurn(t, 1)
  BY <1>2 DEF Effects, LeavesTurn, StopChild, Rests, joinVars
<1>5. stopped' = [stopped EXCEPT ![c] = TRUE]
  BY <1>1 DEF StopChild
<1>6. ended' = ended \/ ended' = [ended EXCEPT ![c] = TRUE]
  BY <1>1 DEF StopChild, Ending
<1>7. Members' /\ Monotone
  BY <1>3, <1>5, <1>6 DEF StopChild, Members, Monotone, joinVars
<1>8. Flags'
  BY <1>3 DEF StopChild, Flags, AllCompleted, joinVars
<1>9. Shown(t, 1)
  BY <1>4, <1>7, <1>8 DEF Shown
<1>10. CASE Become(t, <<>>)
  <2>1. Replaces(t, <<>>, 1)
    BY <1>2, <1>10 DEF Become, Replaces
  <2> QED BY <1>4, <1>9, <2>1, NoneKeeps
<1>11. CASE ended' = Ending(c) /\ Become(t, <<At("settle", c)>>)
  <2>1. PICK a : a = At("settle", c)
    OBVIOUS
  <2>2. a \in CallSet /\ a.step = "settle" /\ a.child = c
    BY <1>3, <2>1, Calling, ChildNumbers, StepsAre DEF At
  <2>3. ended'[c]
    BY <1>3, <1>11 DEF Ending, Members
  <2>4. Replaces(t, <<a>>, 1) /\ Made(a)
    BY <1>2, <1>3, <1>11, <2>1, <2>2, <2>3 DEF Become, Replaces, Made, Good
  <2> QED BY <1>4, <1>9, <2>2, <2>4, OneKeeps DEF Refused, Result, Turns
<1> QED BY <1>1, <1>10, <1>11 DEF StopChild

LEMMA NotifyKeeps ==
    ASSUME Inv, NEW t \in Threads, Notify(t)
    PROVE  Inv'
PROOF
<1>1. PICK r : r = Res(t)
  OBVIOUS
<1>2. stack[t] # <<>> /\ Head(stack[t]).step = "notify" /\ Head(stack[t]).res = r
  BY <1>1 DEF Notify, In, Res
<1>3. r \in Results /\ r # "rejected" /\ Members /\ Flags
  BY <1>2, Acting DEF Good, CallSet
<1>4. UNCHANGED <<childVars, joinVars>> /\ stops' = stops
  BY DEF Notify
<1>5. Shown(t, 1) /\ LeavesTurn(t, 1)
  BY <1>2, <1>3, <1>4, Untouched DEF Shown, Effects, LeavesTurn, Rests, joinVars, Members
<1>6. CASE r = "value"
  <2>1. Replaces(t, <<>>, 1)
    BY <1>1, <1>2, <1>6 DEF Notify, Become, Replaces
  <2> QED BY <1>5, <2>1, NoneKeeps
<1>7. CASE r # "value"
  <2>1. PICK a : a = Call("fail", 0, r)
    OBVIOUS
  <2>2. a \in CallSet /\ a.step = "fail" /\ a.res = r
    BY <1>3, <2>1, Calling, ChildNumbers, StepsAre
  <2>3. Replaces(t, <<a>>, 1) /\ Made(a)
    BY <1>1, <1>2, <1>7, <2>1, <2>2 DEF Notify, Become, Replaces, Made, Good
  <2> QED BY <1>3, <1>5, <2>2, <2>3, OneKeeps DEF Refused, Result, Turns
<1> QED BY <1>6, <1>7

-----------------------------------------------------------------------------
(* Resuming the join.                                                      *)

\* Resuming the join at child c, all before and including it being completed.
LEMMA Resuming ==
    ASSUME Inv, NEW t \in Threads, NEW c \in Children, stack[t] # <<>>, ResumeJoin(t, c),
           started' = "yes", waiting' = 0, finished' = finished, ~finished, queued = 0,
           \A k \in Children : k <= c => completed'[k],
           (Rests /\ NoTurn) \/ Head(stack[t]).step \in Turns,
           Members', Monotone, Effects(t, 1), joinError' = joinError, settled' = settled
    PROVE  Inv'
PROOF
<1>1. Members /\ Flags
  BY DEF Inv
<1>2. \A k \in Children : settled'[k] # "rejected"
  BY <1>1 DEF Flags
<1>3. queued' = 0 \/ queued' = c
  BY DEF ResumeJoin
<1>4. Flags'
  BY <1>2, <1>3 DEF Flags
<1>5. Shown(t, 1)
  BY <1>4 DEF Shown
<1>6. PICK j : j = At("join", c + 1)
  OBVIOUS
<1>7. j \in CallSet /\ j.step = "join" /\ j.child = c + 1
  BY <1>6, Calling, ChildNumbers, StepsAre DEF At
<1>8. Made(j)
  <2>1. c \in Nat /\ c + 1 # 0
    BY ChildNumbers DEF Children
  <2>2. \A k \in Children : k < c + 1 => completed'[k]
    BY <2>1 DEF Children
  <2> QED BY <1>7, <2>1, <2>2 DEF Made, Good
<1>9. CASE queued' = queued
  <2>1. TakesTurn(t, 1)
    BY <1>9 DEF TakesTurn, Rests
  <2>2. CASE Become(t, <<j>>)
    <3>1. Replaces(t, <<j>>, 1)
      BY <2>2 DEF Become, Replaces
    <3> QED BY <1>5, <1>7, <1>8, <2>1, <3>1, OneKeeps DEF Refused, Result, Turns
  <2>3. CASE Become(t, <<Call("fail", 0, "rejected"), j>>)
    <3>1. PICK f : f = Call("fail", 0, "rejected")
      OBVIOUS
    <3>2. f \in CallSet /\ f.step = "fail" /\ f.res = "rejected"
      BY <3>1, Calling, ChildNumbers, StepsAre
    <3>3. Replaces(t, <<f, j>>, 1) /\ Made(f)
      BY <2>3, <3>1, <3>2 DEF Become, Replaces, Made, Good
    <3> QED BY <1>5, <1>7, <1>8, <2>1, <3>2, <3>3, TwoKeep DEF Refused, Result, Turns
  <2>4. CASE queued' = c
    BY <1>9, <2>4, ChildNumbers
  <2> QED BY <1>6, <2>2, <2>3, <2>4 DEF ResumeJoin
<1>10. CASE queued' = c /\ Become(t, <<>>)
  <2>1. Replaces(t, <<>>, 1)
    BY <1>10 DEF Become, Replaces
  <2>2. LeavesTurn(t, 1)
    <3>1. CASE Head(stack[t]).step \in Turns
      BY <3>1 DEF LeavesTurn
    <3>2. CASE Rests /\ NoTurn
      BY <3>2 DEF LeavesTurn
    <3> QED BY <3>1, <3>2
  <2> QED BY <1>5, <2>1, <2>2, NoneKeeps
<1> QED BY <1>6, <1>9, <1>10 DEF ResumeJoin

LEMMA CompleteChildKeeps ==
    ASSUME Inv, NEW t \in Threads, CompleteChild(t)
    PROVE  Inv'
PROOF
<1>1. PICK c : c = Child(t)
  OBVIOUS
<1>2. stack[t] # <<>> /\ Head(stack[t]).step = "complete" /\ Head(stack[t]).child = c
  BY <1>1 DEF CompleteChild, In, Child
<1>3. c \in Children /\ ended[c] /\ settled[c] # "no" /\ Members /\ Flags /\ OneTurn
  BY <1>2, Acting DEF Good, Inv
<1>4. completed' = [completed EXCEPT ![c] = TRUE]
  BY <1>1 DEF CompleteChild
<1>5. UNCHANGED <<settled, stopped, ended, subscribed, joinError, started, hook, joinStopped,
                  result, finished, stops>>
  BY DEF CompleteChild
<1>6. Monotone /\ completed'[c]
  BY <1>3, <1>4, <1>5 DEF Members, Monotone
<1>7. waiting' \in 0 .. N /\ queued' \in 0 .. N
  BY <1>1, <1>3, ChildNumbers DEF CompleteChild, ResumeJoin, Members
<1>8. Members'
  BY <1>3, <1>4, <1>5, <1>7 DEF Members
<1>9. Effects(t, 1)
  BY <1>2, <1>5 DEF Effects
<1>10. CASE waiting = c
  <2>1. waiting # 0
    BY <1>3, <1>10, ChildNumbers
  <2>2. started = "yes" /\ ~finished /\ queued = 0 /\ \A k \in Children : k < c => completed[k]
    BY <1>3, <1>10, <2>1 DEF Flags
  <2>3. Rests /\ NoTurn
    BY <1>3, <2>1 DEF OneTurn, Rests
  <2>4. ResumeJoin(t, c) /\ waiting' = 0
    BY <1>1, <1>10 DEF CompleteChild
  <2>5. \A k \in Children : k <= c => completed'[k]
    <3>1. c \in Nat
      BY <1>3 DEF Children
    <3>2. ASSUME NEW k \in Children, k <= c
          PROVE  completed'[k]
      <4>1. k = c \/ k < c
        BY <3>1, <3>2 DEF Children
      <4> QED BY <1>6, <2>2, <4>1 DEF Monotone
    <3> QED BY <3>2
  <2> QED BY <1>2, <1>3, <1>5, <1>6, <1>8, <1>9, <2>2, <2>3, <2>4, <2>5, Resuming
<1>11. CASE waiting # c
  <2>1. Become(t, <<>>) /\ UNCHANGED <<waiting, queued>>
    BY <1>1, <1>11 DEF CompleteChild
  <2>2. Flags'
    <3>1. \A k \in Children : completed[k] => completed'[k]
      BY <1>6 DEF Monotone
    <3>2. AllCompleted => AllCompleted'
      BY <3>1 DEF AllCompleted, Children
    <3> QED BY <1>3, <1>5, <2>1, <3>1, <3>2 DEF Flags, Children
  <2>3. Replaces(t, <<>>, 1) /\ LeavesTurn(t, 1)
    BY <1>2, <1>5, <2>1 DEF Become, Replaces, LeavesTurn, Rests
  <2> QED BY <1>6, <1>8, <1>9, <2>2, <2>3, NoneKeeps DEF Shown
<1> QED BY <1>10, <1>11

LEMMA DeliverKeeps ==
    ASSUME Inv, NEW t \in Threads, Deliver(t)
    PROVE  Inv'
PROOF
<1>1. Members /\ Flags /\ OneTurn
  BY DEF Inv
<1>2. PICK c : c = queued
  OBVIOUS
<1>3. /\ c # 0 /\ c \in Children /\ started = "yes" /\ ~finished /\ waiting = 0
      /\ \A k \in Children : k <= c => completed[k]
  BY <1>1, <1>2, TaskJoinAssumption DEF Deliver, Flags, Members, Children
<1>4. /\ queued' = 0 /\ UNCHANGED childVars
      /\ UNCHANGED <<joinError, started, waiting, hook, joinStopped, result, finished, stops>>
  BY DEF Deliver
<1>5. Members'
  BY <1>1, <1>4, ChildNumbers DEF Members, childVars
<1>6. Flags' /\ Monotone
  BY <1>1, <1>4 DEF Flags, AllCompleted, Monotone, childVars
<1>7. Shown(t, 0)
  BY <1>4, <1>5, <1>6 DEF Shown, Effects
<1>8. PICK j : j = At("join", c + 1)
  OBVIOUS
<1>9. j \in CallSet /\ j.step = "join" /\ j.child = c + 1
  BY <1>3, <1>8, Calling, ChildNumbers, StepsAre DEF At
<1>10. Made(j)
  <2>1. c \in Nat /\ c + 1 # 0
    BY <1>3, ChildNumbers DEF Children
  <2>2. \A k \in Children : k < c + 1 => completed'[k]
    BY <1>3, <1>4, <2>1 DEF Children, childVars
  <2> QED BY <1>3, <1>4, <1>9, <2>1, <2>2 DEF Made, Good
<1>11. TakesTurn(t, 0)
  BY <1>1, <1>2, <1>3, <1>4 DEF TakesTurn, Rests, OneTurn
<1>12. CASE Enter(t, <<j>>)
  <2>1. Replaces(t, <<j>>, 0)
    BY <1>12 DEF Enter, Replaces
  <2> QED BY <1>7, <1>9, <1>10, <1>11, <2>1, OneKeeps DEF Refused, Result, Turns
<1>13. CASE Enter(t, <<Call("fail", 0, "rejected"), j>>)
  <2>1. PICK f : f = Call("fail", 0, "rejected")
    OBVIOUS
  <2>2. f \in CallSet /\ f.step = "fail" /\ f.res = "rejected"
    BY <2>1, Calling, ChildNumbers, StepsAre
  <2>3. Replaces(t, <<f, j>>, 0) /\ Made(f)
    BY <1>13, <2>1, <2>2 DEF Enter, Replaces, Made, Good
  <2> QED BY <1>7, <1>9, <1>10, <1>11, <2>2, <2>3, TwoKeep DEF Refused, Result, Turns
<1> QED BY <1>2, <1>8, <1>12, <1>13 DEF Deliver

-----------------------------------------------------------------------------
(* The join.                                                               *)

LEMMA StartKeeps ==
    ASSUME Inv, NEW t \in Threads, Start(t)
    PROVE  Inv'
PROOF
<1>1. Members /\ Flags /\ OneTurn /\ started = "no"
  BY DEF Inv, Start
<1>2. waiting = 0 /\ queued = 0 /\ ~finished /\ NoTurn
  BY <1>1 DEF Flags, OneTurn, Rests
<1>3. /\ started' \in {"yes", "skipped"} /\ UNCHANGED childVars
      /\ UNCHANGED <<joinError, waiting, queued, hook, joinStopped, result, finished, stops>>
  BY DEF Start
<1>4. Members' /\ Monotone
  BY <1>1, <1>3 DEF Members, Monotone, childVars
<1>5. Flags'
  BY <1>1, <1>2, <1>3 DEF Flags, childVars
<1>6. Shown(t, 0)
  BY <1>3, <1>4, <1>5 DEF Shown, Effects
<1>7. TakesTurn(t, 0)
  BY <1>2, <1>3 DEF TakesTurn, Rests
<1>8. CASE started' = "skipped" /\ Enter(t, <<At("finish", 0)>>)
  <2>1. PICK a : a = At("finish", 0)
    OBVIOUS
  <2>2. a \in CallSet /\ a.step = "finish"
    BY <2>1, Calling, ChildNumbers, StepsAre DEF At
  <2>3. Replaces(t, <<a>>, 0) /\ Made(a)
    BY <1>8, <2>1, <2>2 DEF Enter, Replaces, Made, Good
  <2> QED BY <1>6, <1>7, <2>2, <2>3, OneKeeps DEF Refused, Result, Turns
<1>9. CASE started' = "yes" /\ Enter(t, <<At("subscribe", 1)>>)
  <2>1. PICK a : a = At("subscribe", 1)
    OBVIOUS
  <2>2. a \in CallSet /\ a.step = "subscribe" /\ a.child = 1
    BY <2>1, Calling, ChildNumbers, StepsAre DEF At
  <2>3. Replaces(t, <<a>>, 0) /\ Made(a)
    BY <1>9, <2>1, <2>2, ChildNumbers DEF Enter, Replaces, Made, Good
  <2> QED BY <1>6, <1>7, <2>2, <2>3, OneKeeps DEF Refused, Result, Turns
<1> QED BY <1>8, <1>9 DEF Start

\* A call of the body that has its turn hands it on.
LEMMA HandsOn ==
    ASSUME Inv, NEW t \in Threads, stack[t] # <<>>, Head(stack[t]).step \in Turns,
           UNCHANGED <<started, waiting, queued, finished>>
    PROVE  TakesTurn(t, 1) /\ LeavesTurn(t, 1)
BY Acting DEF TakesTurn, LeavesTurn, Rests

LEMMA SubscribeKeeps ==
    ASSUME Inv, NEW t \in Threads, Subscribe(t)
    PROVE  Inv'
PROOF
<1>1. PICK c : c = Child(t)
  OBVIOUS
<1>2. stack[t] # <<>> /\ Head(stack[t]).step = "subscribe" /\ Head(stack[t]).child = c
  BY <1>1 DEF Subscribe, In, Child
<1>3. c \in Children /\ started = "yes" /\ Members /\ Flags
  BY <1>2, Acting DEF Good
<1>4. PICK b : b = IF c = N THEN At("hook", 0) ELSE At("subscribe", c + 1)
  OBVIOUS
<1>5. b \in CallSet /\ b.step \in {"hook", "subscribe"} /\ (b.step = "subscribe" => b.child \in Children)
  <2>1. CASE c = N
    BY <1>4, <2>1, Calling, ChildNumbers, StepsAre DEF At
  <2>2. CASE c # N
    <3>1. c + 1 \in Children
      BY <1>3, <2>2, TaskJoinAssumption DEF Children
    <3> QED BY <1>3, <1>4, <2>2, <3>1, Calling, ChildNumbers, StepsAre DEF At
  <2> QED BY <2>1, <2>2
<1>6. UNCHANGED <<settled, stopped, ended, completed, joinVars, stops>>
  BY DEF Subscribe
<1>7. TakesTurn(t, 1)
  BY <1>2, <1>6, HandsOn DEF Turns, joinVars
<1>8. subscribed' \in [Children -> BOOLEAN]
  BY <1>1, <1>3 DEF Subscribe, Members
<1>9. Members' /\ Flags' /\ Monotone
  BY <1>3, <1>6, <1>8 DEF Members, Flags, Monotone, AllCompleted, joinVars
<1>10. Shown(t, 1)
  BY <1>2, <1>6, <1>9 DEF Shown, Effects, joinVars
<1>11. Made(b)
  BY <1>3, <1>5, <1>6 DEF Made, Good, joinVars
<1>12. CASE settled[c] = "no"
  <2>1. Replaces(t, <<b>>, 1)
    BY <1>1, <1>2, <1>4, <1>12 DEF Subscribe, Become, Replaces
  <2> QED BY <1>5, <1>7, <1>10, <1>11, <2>1, OneKeeps DEF Refused, Result, Turns
<1>13. CASE settled[c] # "no"
  <2>1. PICK a : a = Call("notify", c, settled[c])
    OBVIOUS
  <2>2. settled[c] \in Results /\ settled[c] # "rejected"
    BY <1>3 DEF Members, Flags
  <2>3. a \in CallSet /\ a.step = "notify" /\ a.child = c /\ a.res # "rejected"
    BY <1>3, <2>1, <2>2, Calling, ChildNumbers, StepsAre
  <2>4. Replaces(t, <<a, b>>, 1) /\ Made(a)
    BY <1>1, <1>2, <1>3, <1>4, <1>13, <2>1, <2>3 DEF Subscribe, Become, Replaces, Made, Good
  <2> QED BY <1>5, <1>7, <1>10, <1>11, <2>3, <2>4, TwoKeep DEF Refused, Result, Turns
<1> QED BY <1>12, <1>13

LEMMA HookKeeps ==
    ASSUME Inv, NEW t \in Threads, Hook(t)
    PROVE  Inv'
PROOF
<1>1. stack[t] # <<>> /\ Head(stack[t]).step = "hook"
  BY DEF Hook, In
<1>2. started = "yes" /\ Members /\ Flags
  BY <1>1, Acting DEF Good
<1>3. /\ UNCHANGED childVars /\ hook' \in {hook, "on"}
      /\ UNCHANGED <<joinError, started, waiting, queued, joinStopped, result, finished, stops>>
  BY DEF Hook
<1>4. Members' /\ Flags' /\ Monotone
  BY <1>2, <1>3 DEF Members, Flags, Monotone, AllCompleted, childVars
<1>5. Shown(t, 1) /\ TakesTurn(t, 1)
  BY <1>1, <1>3, <1>4, HandsOn DEF Shown, Effects, Turns
<1>6. PICK j : j = At("join", 1)
  OBVIOUS
<1>7. j \in CallSet /\ j.step = "join" /\ j.child = 1
  BY <1>6, Calling, ChildNumbers, StepsAre DEF At
<1>8. Made(j)
  BY <1>2, <1>3, <1>7 DEF Made, Good, Children
<1>9. CASE ~joinStopped
  <2>1. Replaces(t, <<j>>, 1)
    BY <1>1, <1>6, <1>9 DEF Hook, Become, Replaces
  <2> QED BY <1>5, <1>7, <1>8, <2>1, OneKeeps DEF Refused, Result, Turns
<1>10. CASE joinStopped
  <2>1. PICK f : f = Call("fail", 0, "cancelled")
    OBVIOUS
  <2>2. f \in CallSet /\ f.step = "fail" /\ f.res = "cancelled"
    BY <2>1, Calling, ChildNumbers, StepsAre
  <2>3. Replaces(t, <<f, j>>, 1) /\ Made(f)
    BY <1>1, <1>6, <1>10, <2>1, <2>2 DEF Hook, Become, Replaces, Made, Good
  <2> QED BY <1>5, <1>7, <1>8, <2>2, <2>3, TwoKeep DEF Refused, Result, Turns
<1> QED BY <1>9, <1>10

LEMMA JoinKeeps ==
    ASSUME Inv, NEW t \in Threads, Join(t)
    PROVE  Inv'
PROOF
<1>1. PICK c : c = Child(t)
  OBVIOUS
<1>2. stack[t] # <<>> /\ Head(stack[t]).step = "join" /\ Head(stack[t]).child = c
  BY <1>1 DEF Join, In, Child
<1>3. /\ c \in 0 .. N + 1 /\ c # 0 /\ started = "yes" /\ Members /\ Flags
      /\ \A k \in Children : k < c => completed[k]
  BY <1>2, Acting DEF Good, CallSet
<1>4. UNCHANGED <<childVars, joinVars>> /\ stops' = stops
  BY DEF Join
<1>5. Shown(t, 1) /\ TakesTurn(t, 1)
  BY <1>2, <1>3, <1>4, HandsOn, Untouched DEF Shown, Effects, Turns, joinVars, Members
<1>6. PICK a : a = At(IF Joined(c) THEN "collect" ELSE "await", c)
  OBVIOUS
<1>7. a \in CallSet /\ a.step = (IF Joined(c) THEN "collect" ELSE "await") /\ a.child = c
  BY <1>3, <1>6, Calling, StepsAre DEF At
<1>8. CASE Joined(c)
  <2>1. AllCompleted
    BY <1>3, <1>8, TaskJoinAssumption DEF Joined, AllCompleted, Children
  <2>2. Made(a)
    BY <1>3, <1>4, <1>7, <1>8, <2>1 DEF Made, Good, AllCompleted, childVars, joinVars
  <2>3. Replaces(t, <<a>>, 1)
    BY <1>1, <1>2, <1>6 DEF Join, Become, Replaces
  <2> QED BY <1>5, <1>7, <1>8, <2>2, <2>3, OneKeeps DEF Refused, Result, Turns
<1>9. CASE ~Joined(c)
  <2>1. c \in Children
    BY <1>3, <1>9, TaskJoinAssumption DEF Joined, Children
  <2>2. Made(a)
    BY <1>3, <1>4, <1>7, <1>9, <2>1 DEF Made, Good, childVars, joinVars
  <2>3. Replaces(t, <<a>>, 1)
    BY <1>1, <1>2, <1>6 DEF Join, Become, Replaces
  <2> QED BY <1>5, <1>7, <1>9, <2>2, <2>3, OneKeeps DEF Refused, Result, Turns
<1> QED BY <1>8, <1>9

LEMMA AwaitKeeps ==
    ASSUME Inv, NEW t \in Threads, Await(t)
    PROVE  Inv'
PROOF
<1>1. PICK c : c = Child(t)
  OBVIOUS
<1>2. stack[t] # <<>> /\ Head(stack[t]).step = "await" /\ Head(stack[t]).child = c
  BY <1>1 DEF Await, In, Child
<1>3. /\ c \in Children /\ c # 0 /\ started = "yes" /\ Members /\ Flags
      /\ \A k \in Children : k < c => completed[k]
  BY <1>2, Acting DEF Good
<1>4. Head(stack[t]).step \in Turns /\ ~Rests
  BY <1>2, Acting DEF Turns
<1>5. waiting = 0 /\ queued = 0 /\ ~finished
  BY <1>4 DEF Rests
<1>6. UNCHANGED <<childVars, joinError, started, hook, joinStopped, result, finished, stops>>
  BY DEF Await
<1>7. waiting' \in 0 .. N /\ queued' \in 0 .. N
  BY <1>1, <1>3, ChildNumbers DEF Await, ResumeJoin, Members
<1>8. Members' /\ Monotone
  BY <1>3, <1>6, <1>7 DEF Members, Monotone, childVars
<1>9. Effects(t, 1)
  BY <1>2, <1>6 DEF Effects
<1>10. CASE completed[c] /\ (Become(t, <<At("join", c + 1)>>) \/ ResumeJoin(t, c)) /\ waiting' = waiting
            /\ (Become(t, <<At("join", c + 1)>>) => queued' = queued \/ ResumeJoin(t, c))
  <2>1. \A k \in Children : k <= c => completed'[k]
    <3>1. c \in Nat
      BY <1>3 DEF Children
    <3>2. ASSUME NEW k \in Children, k <= c
          PROVE  completed'[k]
      <4>1. k = c \/ k < c
        BY <3>1, <3>2 DEF Children
      <4> QED BY <1>3, <1>6, <1>10, <4>1 DEF childVars
    <3> QED BY <3>2
  <2>2. CASE ResumeJoin(t, c)
    BY <1>2, <1>3, <1>4, <1>5, <1>6, <1>8, <1>9, <1>10, <2>1, <2>2, Resuming DEF childVars
  <2>3. CASE Become(t, <<At("join", c + 1)>>) /\ queued' = queued
    <3>1. PICK j : j = At("join", c + 1)
      OBVIOUS
    <3>2. j \in CallSet /\ j.step = "join" /\ j.child = c + 1
      BY <1>3, <3>1, Calling, ChildNumbers, StepsAre DEF At
    <3>3. Made(j)
      <4>1. c \in Nat /\ c + 1 # 0
        BY <1>3, ChildNumbers DEF Children
      <4>2. \A k \in Children : k < c + 1 => completed'[k]
        BY <2>1, <4>1 DEF Children
      <4> QED BY <1>3, <1>6, <3>2, <4>1, <4>2 DEF Made, Good
    <3>4. UNCHANGED <<childVars, joinVars>> /\ stops' \in 0 .. MaxStops
      BY <1>3, <1>6, <1>10, <2>3 DEF joinVars, Members
    <3>5. Shown(t, 1) /\ TakesTurn(t, 1)
      BY <1>2, <1>3, <1>4, <1>9, <3>4, HandsOn, Untouched DEF Shown, joinVars
    <3>6. Replaces(t, <<j>>, 1)
      BY <1>2, <2>3, <3>1 DEF Become, Replaces
    <3> QED BY <3>2, <3>3, <3>5, <3>6, OneKeeps DEF Refused, Result, Turns
  <2> QED BY <1>10, <2>2, <2>3
<1>11. CASE ~completed[c] /\ waiting' = c /\ Become(t, <<>>) /\ queued' = queued
  <2>1. Flags'
    BY <1>3, <1>5, <1>6, <1>11 DEF Flags, AllCompleted, childVars
  <2>2. Replaces(t, <<>>, 1) /\ LeavesTurn(t, 1)
    BY <1>2, <1>4, <1>11 DEF Become, Replaces, LeavesTurn
  <2> QED BY <1>8, <1>9, <2>1, <2>2, NoneKeeps DEF Shown
<1> QED BY <1>1, <1>10, <1>11 DEF Await

LEMMA CollectKeeps ==
    ASSUME Inv, NEW t \in Threads, Collect(t)
    PROVE  Inv'
PROOF
<1>1. stack[t] # <<>> /\ Head(stack[t]).step = "collect"
  BY DEF Collect, In
<1>2. started = "yes" /\ AllCompleted /\ Members /\ Flags
  BY <1>1, Acting DEF Good
<1>3. UNCHANGED <<childVars, joinVars>> /\ stops' = stops
  BY DEF Collect
<1>4. Shown(t, 1) /\ TakesTurn(t, 1)
  BY <1>1, <1>2, <1>3, HandsOn, Untouched DEF Shown, Effects, Turns, joinVars, Members
<1>5. started' = "yes" /\ AllCompleted'
  BY <1>2, <1>3 DEF AllCompleted, childVars, joinVars
<1>6. PICK u : u = At("unhook", 0)
  OBVIOUS
<1>7. u \in CallSet /\ u.step = "unhook"
  BY <1>6, Calling, ChildNumbers, StepsAre DEF At
<1>8. PICK f : f = At("finish", 0)
  OBVIOUS
<1>9. f \in CallSet /\ f.step = "finish"
  BY <1>8, Calling, ChildNumbers, StepsAre DEF At
<1>10. Made(u) /\ Made(f)
  BY <1>5, <1>7, <1>9 DEF Made, Good
<1>11. ASSUME NEW a, NEW b, Made(a), Made(b), Result(a), Result(b), Become(t, <<a, b, f>>)
       PROVE  Inv'
  <2> DEFINE New == <<a, b, f>>
  <2>1. New \in Seq(CallSet) /\ DOMAIN New = {1, 2, 3} /\ New[1] = a /\ New[2] = b /\ New[3] = f
    BY <1>9, <1>11 DEF Made
  <2>2. Replaces(t, New, 1)
    BY <1>1, <1>11 DEF Become, Replaces
  <2> HIDE DEF New
  <2>3. \A d \in DOMAIN New : Made(New[d])
    BY <1>10, <1>11, <2>1
  <2>4. a.step \notin Turns /\ b.step \notin Turns /\ f.step \in Turns /\ f.step \notin {"result", "unhook"}
        /\ ~Refused(a) /\ ~Refused(b) /\ ~Refused(f) /\ ~Result(f)
    BY <1>9, <1>11 DEF Result, Refused, Turns
  <2>5. \A d, e \in DOMAIN New : New[d].step \in Turns /\ New[e].step \in Turns => d = e
    BY <2>1, <2>4
  <2>6. /\ (\E d \in DOMAIN New : New[d].step \in Turns) => TakesTurn(t, 1)
        /\ (\A d \in DOMAIN New : New[d].step \notin Turns) => LeavesTurn(t, 1)
    BY <1>4, <2>1, <2>4
  <2>7. \A d \in DOMAIN New :
           /\ Refused(New[d]) => d + 1 \in DOMAIN New /\ New[d + 1].step = "join"
           /\ Result(New[d]) => \E e \in DOMAIN New : e > d /\ New[e].step = "finish"
    BY <1>9, <2>1, <2>4
  <2> QED BY <1>4, <2>1, <2>2, <2>3, <2>5, <2>6, <2>7, StepKeeps
<1>12. CASE FirstError # "no" \/ ValuesMissing
  <2>1. PICK r : r = Call("result", 0, "error")
    OBVIOUS
  <2>2. r \in CallSet /\ r.step = "result" /\ r.res = "error"
    BY <2>1, Calling, ChildNumbers, StepsAre
  <2>3. Made(r)
    BY <1>5, <2>2 DEF Made, Good
  <2>4. Become(t, <<u, r, f>>)
    BY <1>6, <1>8, <1>12, <2>1 DEF Collect
  <2> QED BY <1>7, <1>10, <1>11, <2>2, <2>3, <2>4 DEF Result
<1>13. CASE ~(FirstError # "no" \/ ValuesMissing)
  <2>1. PICK r : r = Call("result", 0, "value")
    OBVIOUS
  <2>2. r \in CallSet /\ r.step = "result" /\ r.res = "value"
    BY <2>1, Calling, ChildNumbers, StepsAre
  <2>3. Succeeds'
    BY <1>3, <1>13 DEF FirstError, ValuesMissing, Succeeds, childVars, joinVars
  <2>4. Made(r)
    BY <1>5, <2>2, <2>3 DEF Made, Good
  <2>5. Become(t, <<r, u, f>>)
    BY <1>6, <1>8, <1>13, <2>1 DEF Collect
  <2> QED BY <1>7, <1>10, <1>11, <2>2, <2>4, <2>5 DEF Result
<1> QED BY <1>12, <1>13

LEMMA SetResultKeeps ==
    ASSUME Inv, NEW t \in Threads, SetResult(t)
    PROVE  Inv'
PROOF
<1>1. stack[t] # <<>> /\ Head(stack[t]).step = "result"
  BY DEF SetResult, In
<1>2. Head(stack[t]).res \in Results /\ Members /\ Flags
  BY <1>1, Acting DEF CallSet
<1>3. result' = IF result = "no" THEN Head(stack[t]).res ELSE result
  BY DEF SetResult, Res
<1>4. UNCHANGED <<childVars, joinError, started, waiting, queued, hook, joinStopped, finished, stops>>
  BY DEF SetResult
<1>5. Members' /\ Flags' /\ Monotone
  BY <1>2, <1>3, <1>4 DEF Members, Flags, Monotone, AllCompleted, childVars
<1>6. Shown(t, 1)
  BY <1>1, <1>3, <1>4, <1>5 DEF Shown, Effects
<1>7. Replaces(t, <<>>, 1) /\ LeavesTurn(t, 1)
  BY <1>1, <1>4 DEF SetResult, Become, Replaces, LeavesTurn, Rests
<1> QED BY <1>6, <1>7, NoneKeeps

LEMMA UnhookKeeps ==
    ASSUME Inv, NEW t \in Threads, Unhook(t)
    PROVE  Inv'
PROOF
<1>1. stack[t] # <<>> /\ Head(stack[t]).step = "unhook"
  BY DEF Unhook, In
<1>2. Members /\ Flags
  BY DEF Inv
<1>3. /\ UNCHANGED <<childVars, joinError, started, waiting, queued, joinStopped, result, finished, stops>>
      /\ hook' = "off"
  BY DEF Unhook
<1>4. Members' /\ Flags' /\ Monotone
  BY <1>2, <1>3 DEF Members, Flags, Monotone, AllCompleted, childVars
<1>5. Shown(t, 1)
  BY <1>1, <1>3, <1>4 DEF Shown, Effects
<1>6. Replaces(t, <<>>, 1) /\ LeavesTurn(t, 1)
  BY <1>1, <1>3 DEF Unhook, Become, Replaces, LeavesTurn, Rests
<1> QED BY <1>5, <1>6, NoneKeeps

LEMMA FinishKeeps ==
    ASSUME Inv, NEW t \in Threads, Finish(t)
    PROVE  Inv'
PROOF
<1>1. stack[t] # <<>> /\ Head(stack[t]).step = "finish"
  BY DEF Finish, In
<1>2. Members /\ Flags /\ ~Rests /\ started # "no" /\ (started = "yes" => AllCompleted)
  BY <1>1, Acting DEF Good, Turns
<1>3. /\ UNCHANGED <<childVars, joinError, started, waiting, queued, hook, joinStopped, result, stops>>
      /\ finished' = TRUE
  BY DEF Finish
<1>4. Members' /\ Monotone
  BY <1>2, <1>3 DEF Members, Monotone, childVars
<1>5. Flags'
  BY <1>2, <1>3 DEF Flags, AllCompleted, Rests, childVars
<1>6. Shown(t, 1)
  BY <1>3, <1>4, <1>5 DEF Shown, Effects
<1>7. Replaces(t, <<>>, 1) /\ LeavesTurn(t, 1)
  BY <1>1 DEF Finish, Become, Replaces, LeavesTurn, Turns
<1> QED BY <1>6, <1>7, NoneKeeps

-----------------------------------------------------------------------------
(* Failing and stopping.                                                   *)

LEMMA FailKeeps ==
    ASSUME Inv, NEW t \in Threads, Fail(t)
    PROVE  Inv'
PROOF
<1>1. stack[t] # <<>> /\ Head(stack[t]).step = "fail"
  BY DEF Fail, In
<1>2. Head(stack[t]).res \in Results /\ Members /\ Flags
  BY <1>1, Acting DEF CallSet
<1>3. joinError' \in {joinError, Head(stack[t]).res}
  BY DEF Fail, Res
<1>4. UNCHANGED <<childVars, started, waiting, queued, hook, joinStopped, result, finished, stops>>
  BY DEF Fail
<1>5. Members' /\ Flags' /\ Monotone
  BY <1>2, <1>3, <1>4 DEF Members, Flags, Monotone, AllCompleted, childVars
<1>6. Effects(t, 1)
  BY <1>1, <1>3, <1>4 DEF Effects, In, Res
<1>7. Shown(t, 1) /\ LeavesTurn(t, 1)
  BY <1>4, <1>5, <1>6 DEF Shown, LeavesTurn, Rests
<1>8. CASE Become(t, <<>>)
  <2>1. Replaces(t, <<>>, 1)
    BY <1>1, <1>8 DEF Become, Replaces
  <2> QED BY <1>7, <2>1, NoneKeeps
<1>9. CASE Become(t, <<At("stopEach", 1)>>)
  <2>1. PICK a : a = At("stopEach", 1)
    OBVIOUS
  <2>2. a \in CallSet /\ a.step = "stopEach" /\ a.child = 1
    BY <2>1, Calling, ChildNumbers, StepsAre DEF At
  <2>3. Replaces(t, <<a>>, 1) /\ Made(a)
    BY <1>1, <1>9, <2>1, <2>2 DEF Become, Replaces, Made, Good
  <2> QED BY <1>7, <2>2, <2>3, OneKeeps DEF Refused, Result, Turns
<1> QED BY <1>8, <1>9 DEF Fail

LEMMA StopEachKeeps ==
    ASSUME Inv, NEW t \in Threads, StopEach(t)
    PROVE  Inv'
PROOF
<1>1. PICK c : c = Child(t)
  OBVIOUS
<1>2. stack[t] # <<>> /\ Head(stack[t]).step = "stopEach" /\ Head(stack[t]).child = c
  BY <1>1 DEF StopEach, In, Child
<1>3. c \in 0 .. N + 1 /\ c # 0 /\ Members /\ Flags
  BY <1>2, Acting DEF Good, CallSet
<1>4. UNCHANGED <<childVars, joinVars>> /\ stops' = stops
  BY DEF StopEach
<1>5. Shown(t, 1) /\ LeavesTurn(t, 1)
  BY <1>2, <1>3, <1>4, Untouched DEF Shown, Effects, LeavesTurn, Rests, joinVars, Members
<1>6. CASE StoppedAll(c)
  <2>1. Replaces(t, <<>>, 1)
    BY <1>1, <1>2, <1>6 DEF StopEach, Become, Replaces
  <2> QED BY <1>5, <2>1, NoneKeeps
<1>7. CASE ~StoppedAll(c)
  <2>1. c \in Children /\ c + 1 \in 0 .. N + 1 /\ c + 1 # 0
    BY <1>3, <1>7, TaskJoinAssumption DEF StoppedAll, Children
  <2>2. PICK b : b = At("stopEach", c + 1)
    OBVIOUS
  <2>3. b \in CallSet /\ b.step = "stopEach" /\ b.child = c + 1
    BY <2>1, <2>2, Calling, ChildNumbers, StepsAre DEF At
  <2>4. Made(b)
    BY <2>1, <2>3 DEF Made, Good
  <2>5. CASE completed[c]
    <3>1. Replaces(t, <<b>>, 1)
      BY <1>1, <1>2, <1>7, <2>2, <2>5 DEF StopEach, Become, Replaces
    <3> QED BY <1>5, <2>3, <2>4, <3>1, OneKeeps DEF Refused, Result, Turns
  <2>6. CASE ~completed[c]
    <3>1. PICK a : a = At("cancel", c)
      OBVIOUS
    <3>2. a \in CallSet /\ a.step = "cancel" /\ a.child = c
      BY <2>1, <3>1, Calling, ChildNumbers, StepsAre DEF At
    <3>3. Replaces(t, <<a, b>>, 1) /\ Made(a)
      BY <1>1, <1>2, <1>7, <2>1, <2>2, <2>6, <3>1, <3>2 DEF StopEach, Become, Replaces, Made, Good
    <3> QED BY <1>5, <2>3, <2>4, <3>2, <3>3, TwoKeep DEF Refused, Result, Turns
  <2> QED BY <2>5, <2>6
<1> QED BY <1>6, <1>7

LEMMA CancelJoinKeeps ==
    ASSUME Inv, NEW t \in Threads, CancelJoin(t)
    PROVE  Inv'
PROOF
<1>1. stack[t] # <<>> /\ Head(stack[t]).step = "cancelJoin"
  BY DEF CancelJoin, In
<1>2. Members /\ Flags
  BY DEF Inv
<1>3. result' = IF result = "no" THEN "cancelled" ELSE result
  BY DEF CancelJoin
<1>4. UNCHANGED <<childVars, joinError, started, waiting, queued, hook, joinStopped, finished, stops>>
  BY DEF CancelJoin
<1>5. Members' /\ Flags' /\ Monotone
  BY <1>2, <1>3, <1>4 DEF Members, Flags, Monotone, AllCompleted, Results, childVars
<1>6. Shown(t, 1)
  BY <1>1, <1>3, <1>4, <1>5 DEF Shown, Effects
<1>7. PICK a : a = At("stopJoin", 0)
  OBVIOUS
<1>8. a \in CallSet /\ a.step = "stopJoin"
  BY <1>7, Calling, ChildNumbers, StepsAre DEF At
<1>9. Replaces(t, <<a>>, 1) /\ LeavesTurn(t, 1) /\ Made(a)
  BY <1>1, <1>4, <1>7, <1>8 DEF CancelJoin, Become, Replaces, LeavesTurn, Rests, Made, Good
<1> QED BY <1>6, <1>8, <1>9, OneKeeps DEF Refused, Result, Turns

LEMMA StopJoinKeeps ==
    ASSUME Inv, NEW t \in Threads, StopJoin(t)
    PROVE  Inv'
PROOF
<1>1. stack[t] # <<>> /\ Head(stack[t]).step = "stopJoin"
  BY DEF StopJoin, In
<1>2. Members /\ Flags
  BY DEF Inv
<1>3. /\ UNCHANGED <<childVars, joinError, started, waiting, queued, result, finished, stops>>
      /\ joinStopped' = TRUE /\ hook' \in {hook, t}
  BY DEF StopJoin
<1>4. Members' /\ Flags' /\ Monotone
  BY <1>2, <1>3 DEF Members, Flags, Monotone, AllCompleted, childVars
<1>5. Shown(t, 1) /\ LeavesTurn(t, 1)
  BY <1>1, <1>3, <1>4 DEF Shown, Effects, LeavesTurn, Rests
<1>6. CASE Become(t, <<>>)
  <2>1. Replaces(t, <<>>, 1)
    BY <1>1, <1>6 DEF Become, Replaces
  <2> QED BY <1>5, <2>1, NoneKeeps
<1>7. CASE Become(t, <<Call("fail", 0, "cancelled"), At("called", 0)>>)
  <2>1. PICK a : a = Call("fail", 0, "cancelled")
    OBVIOUS
  <2>2. PICK b : b = At("called", 0)
    OBVIOUS
  <2>3. a \in CallSet /\ a.step = "fail" /\ a.res = "cancelled"
    BY <2>1, Calling, ChildNumbers, StepsAre
  <2>4. b \in CallSet /\ b.step = "called"
    BY <2>2, Calling, ChildNumbers, StepsAre DEF At
  <2>5. Replaces(t, <<a, b>>, 1) /\ Made(a) /\ Made(b)
    BY <1>1, <1>7, <2>1, <2>2, <2>3, <2>4 DEF Become, Replaces, Made, Good
  <2> QED BY <1>5, <2>3, <2>4, <2>5, TwoKeep DEF Refused, Result, Turns
<1> QED BY <1>6, <1>7 DEF StopJoin

LEMMA CalledKeeps ==
    ASSUME Inv, NEW t \in Threads, Called(t)
    PROVE  Inv'
PROOF
<1>1. stack[t] # <<>> /\ Head(stack[t]).step = "called"
  BY DEF Called, In
<1>2. Members /\ Flags
  BY DEF Inv
<1>3. /\ UNCHANGED <<childVars, joinError, started, waiting, queued, joinStopped, result, finished, stops>>
      /\ hook' = "off"
  BY DEF Called
<1>4. Members' /\ Flags' /\ Monotone
  BY <1>2, <1>3 DEF Members, Flags, Monotone, AllCompleted, childVars
<1>5. Shown(t, 1)
  BY <1>1, <1>3, <1>4 DEF Shown, Effects
<1>6. Replaces(t, <<>>, 1) /\ LeavesTurn(t, 1)
  BY <1>1, <1>3 DEF Called, Become, Replaces, LeavesTurn, Rests
<1> QED BY <1>5, <1>6, NoneKeeps

-----------------------------------------------------------------------------
(* The theorems.                                                           *)

LEMMA InvStep == Inv /\ [Next]_vars => Inv'
PROOF
<1> SUFFICES ASSUME Inv, [Next]_vars
             PROVE  Inv'
  OBVIOUS
<1>1. ASSUME NEW t \in Threads, Continue(t)
      PROVE  Inv'
  BY <1>1, SettleChildKeeps, CancelChildKeeps, StopChildKeeps, NotifyKeeps, CompleteChildKeeps,
     SubscribeKeeps, HookKeeps, JoinKeeps, AwaitKeeps, CollectKeeps, SetResultKeeps, UnhookKeeps,
     FinishKeeps, FailKeeps, StopEachKeeps, CancelJoinKeeps, StopJoinKeeps, CalledKeeps DEF Continue
<1>2. ASSUME NEW t \in Threads, Start(t) \/ RequestStop(t) \/ Deliver(t)
      PROVE  Inv'
  BY <1>2, StartKeeps, RequestStopKeeps, DeliverKeeps
<1>3. ASSUME NEW t \in Threads, NEW c \in Children, BeginEnd(t, c)
      PROVE  Inv'
  BY <1>3, BeginEndKeeps
<1>4. CASE UNCHANGED vars
  BY <1>4, Stutter
<1> QED BY <1>1, <1>2, <1>3, <1>4 DEF Next, Delivered

\* Every state the join reaches satisfies the invariant.
THEOREM Invariance == Safe => []Inv
PROOF BY InitInv, InvStep, PTL DEF Safe

LEMMA InvTypeOK == Inv => TypeOK
PROOF
<1> SUFFICES ASSUME Inv, NEW t \in Threads, NEW d \in DOMAIN stack[t]
             PROVE  stack[t][d].step \in Steps
  BY DEF Inv, TypeOK
<1>1. stack[t] \in Seq(CallSet)
  BY DEF Inv, Stacks
<1>2. stack[t][d] \in CallSet
  BY <1>1
<1> QED BY <1>2 DEF CallSet

\* A join that ran its body is finished only after every child, for any number of
\* children and threads, whatever fails and whoever stops it.
THEOREM OutlivesChildren == Safe => []JoinOutlivesChildren
PROOF
<1>1. Inv => JoinOutlivesChildren
  BY InvTypeOK DEF Inv, Flags, AllCompleted, JoinOutlivesChildren
<1> QED BY <1>1, Invariance, PTL

\* A join of tasks that have values returns them only if every child has its own
\* and no scheduler refused it.  (Without values nothing looks at the children
\* again after the error: there the run taskjoin_void shows a failure that is lost.)
THEOREM NoFailureLost == Safe => [](~Void => FailurePropagates)
PROOF
<1>1. Inv => (~Void => FailurePropagates)
  BY DEF Inv, Values, Succeeds, FailurePropagates
<1> QED BY <1>1, Invariance, PTL

\* Of a join without values this much is left: it was not refused.
THEOREM NoRefusalLost == Safe => [](result = "value" => joinError # "rejected")
PROOF
<1>1. Inv => (result = "value" => joinError # "rejected")
  BY DEF Inv, Values, Succeeds
<1> QED BY <1>1, Invariance, PTL
=============================================================================
