-------------------------- MODULE ThreadPoolProofs --------------------------
(***************************************************************************)
(* ThreadPool for every number of callers, tasks, workers and generations: *)
(* its safety, what a pool owes across its generations (a stop waits for   *)
(* all that was accepted), and that it implements the executor.            *)
(***************************************************************************)
EXTENDS MCThreadPool, FiniteSetTheorems, TLAPS

-----------------------------------------------------------------------------
(* The strengthening: why the four properties are kept by every step.      *)

\* A worker goes to sleep only after it saw its queue empty, under _lock.
BlockedOnEmpty == \A w \in Workers : pc[w] = "blocking" => queue[w[1]] = <<>>

\* A stop token is set only after the queue was shut (stop shuts, then asks).
TokensFollowShutdown == \A w \in Workers : stopReq[w] => shut[w[1]]
StoppersFollowShutdown == \A a \in Agents :
    call[a].op = "stop" => \A w \in call[a].owned : shut[w[1]]

\* Workers call the pool only while they run a task.
CallersRun == \A w \in Workers : call[w] # Idle => pc[w] = "running"

\* The threads of generations still to come do not exist.
FutureIsFresh == \A w \in Workers :
    (generation < w[1] \/ ~hasStarted) => pc[w] = "none"

\* The pool owns threads of its current generation, and none once stopped.
OwnsCurrent ==
    /\ \A w \in workers : w[1] = generation
    /\ ~started => workers = {}

Inv ==
    /\ TypeOK
    /\ NoStrandedWaiter
    /\ DrainedBeforeExit
    /\ BlockedOnEmpty
    /\ TokensFollowShutdown
    /\ StoppersFollowShutdown
    /\ CallersRun
    /\ FutureIsFresh
    /\ OwnsCurrent

-----------------------------------------------------------------------------
(* Facts about the helpers.                                                *)

\* The kinds of calls are told apart by their op.
LEMMA CallOps ==
    /\ Idle.op = "idle" /\ Starting.op = "start" /\ Starting # Idle
    /\ \A g, t : Pushing(g, t).op = "push" /\ Pushing(g, t) # Idle
                 /\ Pushing(g, t).gen = g /\ Pushing(g, t).task = t
    /\ \A g, W, L : Stopping(g, W, L).op = "stop" /\ Stopping(g, W, L) # Idle
                    /\ Stopping(g, W, L).gen = g /\ Stopping(g, W, L).owned = W
                    /\ Stopping(g, W, L).left = L
PROOF BY DEF Idle, Starting, Pushing, Stopping

\* A worker is a pair of a generation and a rank.
LEMMA WorkerParts ==
    ASSUME NEW w \in Workers
    PROVE  w[1] \in Gens /\ w[2] \in 1 .. NumWorkers /\ w = <<w[1], w[2]>>
PROOF BY DEF Workers

\* A call that pushes has a generation and a task; one that stops, two sets.
LEMMA CallParts ==
    ASSUME TypeOK, NEW a \in Agents
    PROVE  /\ call[a].op = "push" =>
                 call[a].gen \in Gens /\ call[a].task \in Tasks
           /\ call[a].op = "stop" =>
                 /\ call[a].gen \in Gens
                 /\ call[a].owned \in SUBSET Workers
                 /\ call[a].left \in SUBSET call[a].owned
                 /\ call[a] = Stopping(call[a].gen, call[a].owned, call[a].left)
           /\ call[a].op = "start" => call[a] = Starting
PROOF
<1>1. \/ call[a] = Idle \/ call[a] = Starting
      \/ \E g \in Gens, t \in Tasks : call[a] = Pushing(g, t)
      \/ \E g \in Gens, W \in SUBSET Workers : \E L \in SUBSET W : call[a] = Stopping(g, W, L)
  BY DEF TypeOK, CallTypeOK
<1>2. CASE call[a] = Idle \/ call[a] = Starting
  BY <1>2 DEF Idle, Starting
<1>3. CASE \E g \in Gens, t \in Tasks : call[a] = Pushing(g, t)
  BY <1>3 DEF Pushing
<1>4. CASE \E g \in Gens, W \in SUBSET Workers : \E L \in SUBSET W : call[a] = Stopping(g, W, L)
  <2>0. PICK g \in Gens, W \in SUBSET Workers : \E L \in SUBSET W : call[a] = Stopping(g, W, L)
    BY <1>4
  <2>1. PICK L \in SUBSET W : call[a] = Stopping(g, W, L)
    BY <2>0
  <2>2. call[a].op = "stop" /\ call[a].gen = g /\ call[a].owned = W /\ call[a].left = L
    BY <2>1 DEF Stopping
  <2> QED BY <2>1, <2>2
<1> QED BY <1>1, <1>2, <1>3, <1>4

\* What a step does to the call of one agent keeps the type of call.
LEMMA CallTypeKept ==
    ASSUME DOMAIN call = Agents, CallTypeOK, NEW a \in Agents, NEW c,
           \/ c = Idle \/ c = Starting
           \/ \E g \in Gens, t \in Tasks : c = Pushing(g, t)
           \/ \E g \in Gens, W \in SUBSET Workers : \E L \in SUBSET W : c = Stopping(g, W, L),
           call' = [call EXCEPT ![a] = c]
    PROVE  DOMAIN call' = Agents /\ CallTypeOK'
PROOF
<1>1. \A b \in Agents : call'[b] = IF b = a THEN c ELSE call[b]
  OBVIOUS
<1>2. CallTypeOK'
  BY <1>1, ZenonT(40) DEF CallTypeOK
<1> QED BY <1>2

LEMMA CallTypeStays ==
    ASSUME CallTypeOK, call' = call
    PROVE  CallTypeOK'
PROOF BY DEF CallTypeOK

-----------------------------------------------------------------------------
(* The strengthening is inductive: one lemma per operation.                *)

\* Everything but TypeOK.
Rest ==
    /\ NoStrandedWaiter
    /\ DrainedBeforeExit
    /\ BlockedOnEmpty
    /\ TokensFollowShutdown
    /\ StoppersFollowShutdown
    /\ CallersRun
    /\ FutureIsFresh
    /\ OwnsCurrent

\* A pool that was never started satisfies the invariant.
LEMMA InitInv == Init => Inv
PROOF
<1> SUFFICES ASSUME Init PROVE Inv
  OBVIOUS
<1>1. DOMAIN call = Agents /\ CallTypeOK
  BY DEF Init, CallTypeOK
<1>2. queue \in [Gens -> Seq(Tasks)]
  BY DEF Init
<1>3. \A w \in Workers : task[w] \in Tasks <=> pc[w] = "running"
  BY ThreadPoolAssumption DEF Init
<1>4. generation \in Gens
  BY ThreadPoolAssumption DEF Init, Gens
<1>5. TypeOK
  BY <1>1, <1>2, <1>3, <1>4 DEF Init, TypeOK, WorkerStates
<1>6. Rest
  BY CallOps DEF Init, Rest, NoStrandedWaiter, DrainedBeforeExit, BlockedOnEmpty,
     TokensFollowShutdown, StoppersFollowShutdown, CallersRun, FutureIsFresh,
     OwnsCurrent, Agents
<1> QED BY <1>5, <1>6 DEF Inv, Rest

\* Reading _queue for a push changes only the caller, which starts to push.
LEMMA SubmitInv ==
    ASSUME Inv, NEW a \in Agents, NEW t \in Tasks, Submit(a, t)
    PROVE  Inv'
PROOF
<1>1. DOMAIN call' = Agents /\ CallTypeOK'
  BY CallTypeKept DEF Inv, TypeOK, Submit
<1>2. TypeOK'
  BY <1>1 DEF Inv, TypeOK, Submit, poolVars, workerVars, CanCall
<1>3. Rest'
  BY CallOps DEF Inv, Rest, TypeOK, Submit, CanCall, poolVars, workerVars, NoStrandedWaiter,
     DrainedBeforeExit, BlockedOnEmpty, TokensFollowShutdown, StoppersFollowShutdown,
     CallersRun, FutureIsFresh, OwnsCurrent, Agents
<1> QED BY <1>2, <1>3 DEF Inv, Rest

\* A push into an open queue may wake a sleeping worker and blocks none.
LEMMA AcceptInv ==
    ASSUME Inv, NEW a \in Agents, Accept(a)
    PROVE  Inv'
PROOF
<1> DEFINE g == call[a].gen
<1> USE DEF Inv
<1>1. g \in Gens /\ call[a].task \in Tasks
  BY CallParts DEF Accept
<1>2. DOMAIN call' = Agents /\ CallTypeOK'
  BY CallTypeKept DEF TypeOK, Accept
<1>3. \A w \in Workers : pc'[w] = pc[w] \/ (w[1] = g /\ pc[w] = "waiting" /\ pc'[w] = "popping")
  BY DEF Accept, WakeOne, In, Of, TypeOK
<1>4. pc' \in [Workers -> WorkerStates]
  BY DEF Accept, WakeOne, TypeOK, WorkerStates
<1>5. TypeOK'
  BY <1>1, <1>2, <1>3, <1>4 DEF TypeOK, Accept, poolVars, workerVars, LockFree
<1>6. ~shut[g] /\ \A w \in Workers : w[1] = g => pc[w] # "blocking"
  BY DEF Accept, MayAccept, LockFree, In, Of
<1>7. \A h \in Gens : h # g => queue'[h] = queue[h]
  BY DEF Accept, TypeOK
<1>8. NoStrandedWaiter' /\ DrainedBeforeExit' /\ BlockedOnEmpty'
  BY <1>3, <1>6, <1>7, WorkerParts DEF Accept, NoStrandedWaiter, DrainedBeforeExit, BlockedOnEmpty
<1>9. call' = [call EXCEPT ![a] = Idle] /\ UNCHANGED <<poolVars, shut, task, stopReq>>
  BY DEF Accept
<1>10. (TokensFollowShutdown /\ StoppersFollowShutdown /\ OwnsCurrent)'
  BY <1>9, CallOps DEF TypeOK, TokensFollowShutdown, StoppersFollowShutdown, OwnsCurrent, poolVars
<1>11. (CallersRun /\ FutureIsFresh)'
  BY <1>3, <1>9 DEF TypeOK, CallersRun, FutureIsFresh, poolVars, Agents
<1> QED BY <1>5, <1>8, <1>10, <1>11

\* A push that a shut queue refuses changes nothing but the caller.
LEMMA RefuseInv ==
    ASSUME Inv, NEW a \in Agents, Refuse(a)
    PROVE  Inv'
PROOF
<1>1. DOMAIN call' = Agents /\ CallTypeOK'
  BY CallTypeKept DEF Inv, TypeOK, Refuse
<1>2. TypeOK'
  BY <1>1 DEF Inv, TypeOK, Refuse, poolVars, workerVars, history
<1>3. Rest'
  BY CallOps DEF Inv, Rest, TypeOK, Refuse, poolVars, workerVars, NoStrandedWaiter,
     DrainedBeforeExit, BlockedOnEmpty, TokensFollowShutdown, StoppersFollowShutdown,
     CallersRun, FutureIsFresh, OwnsCurrent, Agents
<1> QED BY <1>2, <1>3 DEF Inv, Rest

\* The threads a start creates did not exist before.
LEMMA SpawnedFresh ==
    ASSUME Inv, NextGeneration \in Gens, NEW k, NEW w \in Spawned(k)
    PROVE  /\ w \in Workers
           /\ w[1] = NextGeneration
           /\ pc[w] = "none"
           /\ task[w] \notin Tasks
PROOF
<1>1. w \in Workers /\ w[1] = NextGeneration
  BY DEF Spawned, Of
<1>2. generation < w[1] \/ ~hasStarted
  BY <1>1 DEF NextGeneration, Inv, TypeOK, Gens
<1>3. pc[w] = "none"
  BY <1>1, <1>2 DEF Inv, FutureIsFresh
<1> QED BY <1>1, <1>3 DEF Inv, TypeOK

\* A start creates threads of a generation that had none, and owns them, whether it
\* creates all of them or fails.
LEMMA CreatesInv ==
    ASSUME Inv, NEW a \in Agents, NEW k, Creates(a, k),
           call' = call \/ call' = [call EXCEPT ![a] = Starting]
    PROVE  Inv'
PROOF
<1> DEFINE S == Spawned(k)
<1> USE DEF Inv
<1>1. NextGeneration \in Gens /\ ~started /\ CanCall(a) /\ generation' = NextGeneration
  BY DEF Creates, MayStart
<1>2. \A w \in S : w \in Workers /\ w[1] = NextGeneration /\ pc[w] = "none" /\ task[w] \notin Tasks
  BY <1>1, SpawnedFresh
<1>3. \A w \in Workers : pc'[w] = IF w \in S THEN "popping" ELSE pc[w]
  BY DEF Creates
<1>4. pc' \in [Workers -> WorkerStates]
  BY DEF Creates, TypeOK, WorkerStates
<1>5. workers' = workers \cup S /\ started' /\ hasStarted'
  BY DEF Creates
<1>6. UNCHANGED <<queue, shut, task, stopReq, history>>
  BY DEF Creates
<1>7. workers' \in SUBSET Workers
  BY <1>2, <1>5 DEF TypeOK
<1>8. TypeOK'
  <2>1. CASE call' = call
    <3>1. DOMAIN call' = Agents /\ CallTypeOK'
      BY <2>1, CallTypeStays DEF TypeOK
    <3>2. \A w \in Workers : task'[w] \in Tasks <=> pc'[w] = "running"
      BY <1>2, <1>3, <1>6 DEF TypeOK
    <3> QED BY <1>1, <1>4, <1>5, <1>6, <1>7, <3>1, <3>2 DEF TypeOK, history, Creates
  <2>2. CASE call' = [call EXCEPT ![a] = Starting]
    <3>1. DOMAIN call' = Agents /\ CallTypeOK'
      BY <2>2, CallTypeKept, Zenon DEF TypeOK
    <3>2. \A w \in Workers : task'[w] \in Tasks <=> pc'[w] = "running"
      BY <1>2, <1>3, <1>6 DEF TypeOK
    <3> QED BY <1>1, <1>4, <1>5, <1>6, <1>7, <3>1, <3>2 DEF TypeOK, history, Creates
  <2> QED BY <2>1, <2>2
<1>9. (NoStrandedWaiter /\ DrainedBeforeExit /\ BlockedOnEmpty)'
  BY <1>3, <1>6 DEF NoStrandedWaiter, DrainedBeforeExit, BlockedOnEmpty
<1>10. \A b \in Agents : call'[b] = call[b] \/ (b = a /\ call'[b] = Starting)
  BY DEF TypeOK
<1>11. (TokensFollowShutdown /\ StoppersFollowShutdown)'
  BY <1>6, <1>10, CallOps DEF TokensFollowShutdown, StoppersFollowShutdown
<1>12. CallersRun'
  BY <1>1, <1>2, <1>3, <1>10 DEF CallersRun, CanCall, Agents
<1>13. FutureIsFresh'
  <2>1. \A w \in Workers : NextGeneration < w[1] => generation < w[1]
    BY WorkerParts DEF NextGeneration, TypeOK, Gens
  <2>2. \A w \in Workers : NextGeneration < w[1] => w \notin S
    BY <1>1, <1>2 DEF Gens
  <2> QED BY <1>1, <1>3, <1>5, <2>1, <2>2 DEF FutureIsFresh
<1>14. OwnsCurrent'
  BY <1>1, <1>2, <1>5 DEF OwnsCurrent
<1> QED BY <1>8, <1>9, <1>11, <1>12, <1>13, <1>14

\* The queue is shut under its lock, so no worker of it is falling asleep.
LEMMA ShutsInv ==
    ASSUME Inv, NEW a \in Agents, Shuts(a), a \in Workers => pc[a] = "running"
    PROVE  Inv'
PROOF
<1> DEFINE g == generation
<1> USE DEF Inv
<1>1. g \in Gens /\ \A w \in Workers : w[1] = g => pc[w] # "blocking"
  BY DEF Shuts, TypeOK, LockFree, In, Of
<1>2. \A w \in Workers : pc'[w] = IF w[1] = g /\ pc[w] = "waiting" THEN "popping" ELSE pc[w]
  BY DEF Shuts, WakeAll
<1>3. pc' \in [Workers -> WorkerStates]
  BY DEF Shuts, WakeAll, TypeOK, WorkerStates
<1>4. call' = [call EXCEPT ![a] = Stopping(g, workers, workers)]
  BY DEF Shuts
<1>5. DOMAIN call' = Agents /\ CallTypeOK'
  BY <1>1, <1>4, CallTypeKept DEF TypeOK
<1>6. shut' = [shut EXCEPT ![g] = TRUE] /\ workers' = {} /\ started' = FALSE
      /\ UNCHANGED <<generation, hasStarted, queue, task, stopReq, history>>
  BY DEF Shuts
<1>7. \A w \in Workers : w[1] \in Gens
  BY WorkerParts
<1>8. \A h \in Gens : shut'[h] = (IF h = g THEN TRUE ELSE shut[h])
  BY <1>6 DEF TypeOK
<1>9. TypeOK'
  BY <1>2, <1>3, <1>5, <1>6 DEF TypeOK, history
<1>10. (NoStrandedWaiter /\ DrainedBeforeExit /\ BlockedOnEmpty)'
  BY <1>1, <1>2, <1>6, <1>7, <1>8 DEF NoStrandedWaiter, DrainedBeforeExit, BlockedOnEmpty
<1>11. TokensFollowShutdown'
  BY <1>6, <1>7, <1>8 DEF TokensFollowShutdown
<1>12. StoppersFollowShutdown'
  <2>1. \A b \in Agents : call'[b] = IF b = a THEN Stopping(g, workers, workers) ELSE call[b]
    BY <1>4 DEF TypeOK
  <2>2. \A w \in workers : shut'[w[1]]
    BY <1>1, <1>8 DEF OwnsCurrent
  <2>3. \A b \in Agents : b # a /\ call[b].op = "stop" => \A w \in call[b].owned : shut'[w[1]]
    BY <1>7, <1>8, CallParts DEF StoppersFollowShutdown
  <2> QED BY <2>1, <2>2, <2>3, CallOps DEF StoppersFollowShutdown
<1>13. CallersRun'
  BY <1>2, <1>4 DEF CallersRun, TypeOK
<1>14. FutureIsFresh'
  BY <1>2, <1>6 DEF FutureIsFresh
<1>15. OwnsCurrent'
  BY <1>6 DEF OwnsCurrent
<1> QED BY <1>9, <1>10, <1>11, <1>12, <1>13, <1>14, <1>15

\* A stop token is set only in a generation that is already shut.
LEMMA RequestStopInv ==
    ASSUME Inv, NEW a \in Agents, RequestStop(a)
    PROVE  Inv'
PROOF
<1> USE DEF Inv
<1>1. PICK w \in call[a].left :
         /\ stopReq' = [stopReq EXCEPT ![w] = TRUE]
         /\ pc' = IF pc[w] \in {"blocking", "waiting"} THEN WakeAll(w[1], pc) ELSE pc
         /\ call' = [call EXCEPT ![a] = Stopping(@.gen, @.owned, @.left \ {w})]
  BY DEF RequestStop
<1>2. /\ call[a].op = "stop" /\ call[a].gen \in Gens
      /\ call[a].owned \in SUBSET Workers
      /\ call[a].left \in SUBSET call[a].owned
  BY CallParts DEF RequestStop
<1>3. w \in Workers /\ w \in call[a].owned /\ shut[w[1]]
  BY <1>2 DEF StoppersFollowShutdown
<1>4. \A v \in Workers : v[1] = w[1] => pc[v] \notin {"blocking", "waiting"}
  BY <1>3 DEF NoStrandedWaiter
<1>5. pc' = pc
  BY <1>1, <1>3, <1>4
<1>6. UNCHANGED <<poolVars, queue, shut, task, history>>
  BY DEF RequestStop
<1> DEFINE c == Stopping(call[a].gen, call[a].owned, call[a].left \ {w})
<1>7. call' = [call EXCEPT ![a] = c]
  BY <1>1
<1>8. call[a].left \ {w} \in SUBSET call[a].owned
  BY <1>2
<1>9. DOMAIN call' = Agents /\ CallTypeOK'
  <2>1. \E g \in Gens, W \in SUBSET Workers : \E L \in SUBSET W : c = Stopping(g, W, L)
    BY <1>2, <1>8
  <2> HIDE DEF c
  <2> QED BY <1>7, <2>1, CallTypeKept DEF TypeOK
<1>10. TypeOK'
  BY <1>1, <1>3, <1>5, <1>6, <1>9 DEF TypeOK, poolVars, history
<1>11. (NoStrandedWaiter /\ DrainedBeforeExit /\ BlockedOnEmpty /\ FutureIsFresh /\ OwnsCurrent)'
  BY <1>5, <1>6 DEF NoStrandedWaiter, DrainedBeforeExit, BlockedOnEmpty, FutureIsFresh,
     OwnsCurrent, poolVars
<1>12. TokensFollowShutdown'
  BY <1>1, <1>3, <1>6 DEF TokensFollowShutdown, TypeOK
<1>13. \A b \in Agents : call'[b] = IF b = a THEN c ELSE call[b]
  BY <1>7 DEF TypeOK
<1>14. StoppersFollowShutdown'
  BY <1>2, <1>6, <1>13, CallOps DEF StoppersFollowShutdown
<1>15. CallersRun'
  BY <1>2, <1>5, <1>13, CallOps DEF CallersRun, Agents
<1> QED BY <1>10, <1>11, <1>12, <1>14, <1>15

\* A stop that returns changes only its caller.
LEMMA StopReturnsInv ==
    ASSUME Inv, NEW a \in Agents, StopReturns(a)
    PROVE  Inv'
PROOF
<1>1. DOMAIN call' = Agents /\ CallTypeOK'
  BY CallTypeKept DEF Inv, TypeOK, StopReturns
<1>2. TypeOK'
  BY <1>1 DEF Inv, TypeOK, StopReturns, poolVars, workerVars, history
<1>3. Rest'
  BY CallOps DEF Inv, Rest, TypeOK, StopReturns, poolVars, workerVars, NoStrandedWaiter,
     DrainedBeforeExit, BlockedOnEmpty, TokensFollowShutdown, StoppersFollowShutdown,
     CallersRun, FutureIsFresh, OwnsCurrent, Agents
<1> QED BY <1>2, <1>3 DEF Inv, Rest

\* A pop hands the task to a worker that was on its way to the queue.
LEMMA TakeInv ==
    ASSUME Inv, NEW w \in Workers, Take(w)
    PROVE  Inv'
PROOF
<1> USE DEF Inv
<1>1. w[1] \in Gens /\ queue[w[1]] \in Seq(Tasks) /\ queue[w[1]] # <<>>
  BY WorkerParts DEF Take, TypeOK
<1>2. Head(queue[w[1]]) \in Tasks /\ Tail(queue[w[1]]) \in Seq(Tasks)
  BY <1>1
<1>3. /\ pc[w] = "popping"
      /\ pc' = [pc EXCEPT ![w] = "running"]
      /\ task' = [task EXCEPT ![w] = Head(queue[w[1]])]
      /\ queue' = [queue EXCEPT ![w[1]] = Tail(@)]
      /\ UNCHANGED <<poolVars, shut, stopReq, call, history>>
  BY DEF Take
<1>4. TypeOK'
  <2>1. DOMAIN call' = Agents /\ CallTypeOK'
    <3>1. call' = call
      BY <1>3
    <3> QED BY <3>1 DEF TypeOK, CallTypeOK
  <2>2. \A v \in Workers : task'[v] \in Tasks <=> pc'[v] = "running"
    BY <1>2, <1>3 DEF TypeOK
  <2>3. queue' \in [Gens -> Seq(Tasks)]
    BY <1>1, <1>2, <1>3 DEF TypeOK
  <2> QED BY <1>2, <1>3, <2>1, <2>2, <2>3 DEF TypeOK, poolVars, history, WorkerStates
<1>5. \A v \in Workers : v[1] = w[1] => pc[v] # "done"
  BY <1>1 DEF DrainedBeforeExit
<1>6. \A v \in Workers : v[1] = w[1] => pc[v] # "blocking"
  BY <1>1 DEF BlockedOnEmpty
<1>7. \A v \in Workers : v[1] # w[1] => queue'[v[1]] = queue[v[1]]
  BY <1>3, WorkerParts DEF TypeOK
<1>8. (NoStrandedWaiter /\ DrainedBeforeExit /\ BlockedOnEmpty)'
  BY <1>3, <1>5, <1>6, <1>7 DEF NoStrandedWaiter, DrainedBeforeExit, BlockedOnEmpty, TypeOK
<1>9. (TokensFollowShutdown /\ StoppersFollowShutdown /\ OwnsCurrent)'
  BY <1>3 DEF TokensFollowShutdown, StoppersFollowShutdown, OwnsCurrent, poolVars
<1>10. CallersRun' /\ FutureIsFresh'
  BY <1>3 DEF CallersRun, FutureIsFresh, poolVars, TypeOK
<1> QED BY <1>4, <1>8, <1>9, <1>10

\* The steps of a worker between two tasks move its pc and nothing else.
LEMMA WaitingInv ==
    ASSUME Inv, NEW w \in Workers, Block(w) \/ Exit(w) \/ Sleep(w) \/ SpuriousWake(w)
    PROVE  Inv'
PROOF
<1> USE DEF Inv
<1>1. UNCHANGED <<poolVars, queue, shut, task, stopReq, call, history>>
  BY DEF Block, Exit, Sleep, SpuriousWake
<1>2. PICK s \in {"blocking", "done", "waiting", "popping"} :
         /\ pc' = [pc EXCEPT ![w] = s]
         /\ s = "blocking" => queue[w[1]] = <<>> /\ ~shut[w[1]]
         /\ s = "done" => queue[w[1]] = <<>> /\ (shut[w[1]] \/ stopReq[w])
         /\ s = "waiting" => pc[w] = "blocking"
  BY DEF Block, Exit, Sleep, SpuriousWake, MustWait, MayExit
<1>3. pc[w] \in {"popping", "blocking", "waiting"}
  BY DEF Block, Exit, Sleep, SpuriousWake
<1>4. TypeOK'
  <2>1. DOMAIN call' = Agents /\ CallTypeOK'
    BY <1>1 DEF TypeOK, CallTypeOK
  <2>2. \A v \in Workers : task'[v] \in Tasks <=> pc'[v] = "running"
    BY <1>1, <1>2, <1>3 DEF TypeOK
  <2> QED BY <1>1, <1>2, <2>1, <2>2 DEF TypeOK, poolVars, history, WorkerStates
<1>5. (NoStrandedWaiter /\ DrainedBeforeExit /\ BlockedOnEmpty)'
  BY <1>1, <1>2 DEF NoStrandedWaiter, DrainedBeforeExit, BlockedOnEmpty,
     TokensFollowShutdown, TypeOK
<1>6. (TokensFollowShutdown /\ StoppersFollowShutdown /\ OwnsCurrent)'
  BY <1>1 DEF TokensFollowShutdown, StoppersFollowShutdown, OwnsCurrent, poolVars
<1>7. CallersRun' /\ FutureIsFresh'
  BY <1>1, <1>2, <1>3 DEF CallersRun, FutureIsFresh, poolVars, TypeOK
<1> QED BY <1>4, <1>5, <1>6, <1>7

\* A worker that drops its task is on its way to the queue again.
LEMMA FinishInv ==
    ASSUME Inv, NEW w \in Workers, Finish(w)
    PROVE  Inv'
PROOF
<1> USE DEF Inv
<1>1. /\ pc[w] = "running" /\ call[w] = Idle
      /\ pc' = [pc EXCEPT ![w] = "popping"]
      /\ task' = [task EXCEPT ![w] = NoTask]
      /\ finished' = finished \cup {task[w]}
      /\ UNCHANGED <<poolVars, queue, shut, stopReq, call, issued, accepted>>
  BY DEF Finish, Dropped
<1>2. task[w] \in Tasks
  BY <1>1 DEF TypeOK
<1>3. TypeOK'
  <2>1. DOMAIN call' = Agents /\ CallTypeOK'
    BY <1>1 DEF TypeOK, CallTypeOK
  <2>2. \A v \in Workers : task'[v] \in Tasks <=> pc'[v] = "running"
    BY <1>1, ThreadPoolAssumption DEF TypeOK
  <2> QED BY <1>1, <1>2, <2>1, <2>2 DEF TypeOK, poolVars, WorkerStates
<1>4. (NoStrandedWaiter /\ DrainedBeforeExit /\ BlockedOnEmpty)'
  BY <1>1 DEF NoStrandedWaiter, DrainedBeforeExit, BlockedOnEmpty, TypeOK
<1>5. (TokensFollowShutdown /\ StoppersFollowShutdown /\ OwnsCurrent)'
  BY <1>1 DEF TokensFollowShutdown, StoppersFollowShutdown, OwnsCurrent, poolVars
<1>6. CallersRun' /\ FutureIsFresh'
  BY <1>1 DEF CallersRun, FutureIsFresh, poolVars, TypeOK
<1> QED BY <1>3, <1>4, <1>5, <1>6

\* Every step of the pool preserves the invariant.
THEOREM InvStep == Inv /\ [Next]_vars => Inv'
PROOF
<1> SUFFICES ASSUME Inv, [Next]_vars PROVE Inv'
  OBVIOUS
<1>1. ASSUME NEW a \in Agents, CallerNext(a) PROVE Inv'
  <2>1. ASSUME Start(a) \/ \E k \in 0 .. NumWorkers - 1 : StartFails(a, k) PROVE Inv'
    BY <2>1, CreatesInv DEF Start, StartFails
  <2>2. ASSUME Stop(a) \/ StartCatches(a) PROVE Inv'
    <3>1. Shuts(a) /\ (a \in Workers => pc[a] = "running")
      BY <2>2, CallOps DEF Stop, StartCatches, CanCall, Inv, CallersRun
    <3> QED BY <3>1, ShutsInv
  <2> QED BY <1>1, <2>1, <2>2, SubmitInv, AcceptInv, RefuseInv, RequestStopInv, StopReturnsInv
          DEF CallerNext, Pushes
<1>2. ASSUME NEW w \in Workers, WorkerNext(w) PROVE Inv'
  BY <1>2, TakeInv, WaitingInv, FinishInv DEF WorkerNext, Pops
<1>3. CASE UNCHANGED vars
  <2>1. DOMAIN call' = Agents /\ CallTypeOK'
    BY <1>3 DEF vars, Inv, TypeOK, CallTypeOK
  <2>2. TypeOK'
    BY <1>3, <2>1 DEF vars, Inv, TypeOK, poolVars, workerVars, history
  <2>3. Rest'
    BY <1>3 DEF vars, Inv, Rest, poolVars, workerVars, NoStrandedWaiter, DrainedBeforeExit,
       BlockedOnEmpty, TokensFollowShutdown, StoppersFollowShutdown, CallersRun,
       FutureIsFresh, OwnsCurrent
  <2> QED BY <2>2, <2>3 DEF Inv, Rest
<1> QED BY <1>1, <1>2, <1>3 DEF Next

\* The invariant holds in every reachable state.
THEOREM Invariance == Safe => []Inv
PROOF BY InitInv, InvStep, PTL DEF Safe

\* Types, and no task held by a worker that is between two tasks.
THEOREM TypesHold == Safe => []TypeOK
PROOF
<1>1. Inv => TypeOK
  BY DEF Inv
<1> QED BY <1>1, Invariance, PTL

\* No worker sleeps through the shutdown of its generation.
THEOREM NoneStranded == Safe => []NoStrandedWaiter
PROOF
<1>1. Inv => NoStrandedWaiter
  BY DEF Inv
<1> QED BY <1>1, Invariance, PTL

\* Workers leave nothing behind.
THEOREM ExitsDrained == Safe => []DrainedBeforeExit
PROOF
<1>1. Inv => DrainedBeforeExit
  BY DEF Inv
<1> QED BY <1>1, Invariance, PTL

-----------------------------------------------------------------------------
(* No wake-up is lost: counting the workers on their way to a queue.       *)

\* A generation has finitely many workers, in whatever state they are.
LEMMA WorkersFinite ==
    ASSUME NEW g, NEW s
    PROVE  IsFiniteSet(In(g, s)) /\ Cardinality(In(g, s)) \in Nat
PROOF
<1>1. IsFiniteSet(Gens) /\ IsFiniteSet(1 .. NumWorkers)
  BY FS_Interval, ThreadPoolAssumption DEF Gens
<1>2. IsFiniteSet(Workers)
  BY <1>1, FS_Product DEF Workers
<1>3. In(g, s) \in SUBSET Workers
  BY DEF In, Of
<1>4. IsFiniteSet(In(g, s))
  BY <1>2, <1>3, FS_Subset
<1> QED BY <1>4, FS_CardinalityType

\* The property of one generation.
Covered(g) == In(g, "waiting") # {} => Len(queue[g]) <= Cardinality(In(g, "popping"))

\* A step after which as many workers of g are awake, no other sleeps and the
\* queue of g is no longer, keeps it.
LEMMA CoveredKept ==
    ASSUME Inv, Inv', NEW g \in Gens, Covered(g),
           queue'[g] = queue[g],
           \A w \in Of(g) : pc[w] = "popping" => pc'[w] = "popping",
           \A w \in Of(g) : pc'[w] = "waiting" => pc[w] = "waiting"
    PROVE  Covered(g)'
PROOF
<1>1. In(g, "popping") \in SUBSET In(g, "popping")'
  BY DEF In, Of
<1>2. In(g, "waiting")' # {} => In(g, "waiting") # {}
  BY DEF In, Of
<1>3. IsFiniteSet(In(g, "popping")')
  <2>1. In(g, "popping")' \in SUBSET Workers
    BY DEF In, Of
  <2>2. IsFiniteSet(Gens) /\ IsFiniteSet(1 .. NumWorkers)
    BY FS_Interval, ThreadPoolAssumption DEF Gens
  <2>3. IsFiniteSet(Workers)
    BY <2>2, FS_Product DEF Workers
  <2> QED BY <2>1, <2>3, FS_Subset
<1>4. Cardinality(In(g, "popping")) <= Cardinality(In(g, "popping")')
  BY <1>1, <1>3, FS_Subset
<1>5. Cardinality(In(g, "popping")') \in Nat
  BY <1>3, FS_CardinalityType
<1>6. Len(queue[g]) \in Nat
  BY DEF Inv, TypeOK
<1> QED BY <1>2, <1>4, <1>5, <1>6, WorkersFinite DEF Covered

\* A push wakes a worker of its generation, unless none sleeps.
LEMMA AcceptCovered ==
    ASSUME Inv, Inv', NEW a \in Agents, Accept(a), NEW g \in Gens, Covered(g)
    PROVE  Covered(g)'
PROOF
<1> DEFINE h == call[a].gen
<1>1. h \in Gens /\ call[a].task \in Tasks
  BY CallParts DEF Accept, Inv
<1>2. queue' = [queue EXCEPT ![h] = Append(@, call[a].task)]
  BY DEF Accept
<1>3. CASE g # h
  <2>1. \A w \in Of(g) : pc'[w] = pc[w]
    BY <1>3 DEF Accept, WakeOne, In, Of, Inv, TypeOK
  <2>2. queue'[g] = queue[g]
    BY <1>2, <1>3 DEF Inv, TypeOK
  <2> QED BY <2>1, <2>2, CoveredKept
<1>4. CASE g = h /\ In(h, "waiting") = {}
  <2>1. pc' = pc
    BY <1>4 DEF Accept, WakeOne
  <2> QED BY <1>4, <2>1 DEF Covered, In
<1>5. CASE g = h /\ In(h, "waiting") # {}
  <2>1. PICK w \in In(g, "waiting") : pc' = [pc EXCEPT ![w] = "popping"]
    BY <1>5 DEF Accept, WakeOne
  <2>2. In(g, "popping")' = In(g, "popping") \cup {w} /\ w \notin In(g, "popping")
    BY <2>1 DEF In, Of, Inv, TypeOK
  <2>3. Cardinality(In(g, "popping")') = Cardinality(In(g, "popping")) + 1
    BY <2>2, WorkersFinite, FS_AddElement
  <2>4. Len(queue'[g]) = Len(queue[g]) + 1 /\ Len(queue[g]) \in Nat
    BY <1>1, <1>2, <1>5 DEF Inv, TypeOK
  <2>5. Len(queue[g]) <= Cardinality(In(g, "popping"))
    BY <1>5 DEF Covered
  <2> QED BY <2>3, <2>4, <2>5, WorkersFinite DEF Covered
<1> QED BY <1>3, <1>4, <1>5

\* A pop takes one worker off the way and one task off the queue.
LEMMA TakeCovered ==
    ASSUME Inv, Inv', NEW w \in Workers, Take(w), NEW g \in Gens, Covered(g)
    PROVE  Covered(g)'
PROOF
<1>1. pc[w] = "popping" /\ pc' = [pc EXCEPT ![w] = "running"]
      /\ queue[w[1]] # <<>> /\ queue' = [queue EXCEPT ![w[1]] = Tail(@)]
  BY DEF Take
<1>2. CASE g # w[1]
  <2>1. \A v \in Of(g) : pc'[v] = pc[v]
    BY <1>1, <1>2 DEF Of, Inv, TypeOK
  <2>2. queue'[g] = queue[g]
    BY <1>1, <1>2, WorkerParts DEF Inv, TypeOK
  <2> QED BY <2>1, <2>2, CoveredKept
<1>3. CASE g = w[1]
  <2>1. In(g, "popping")' = In(g, "popping") \ {w} /\ w \in In(g, "popping")
    BY <1>1, <1>3 DEF In, Of, Inv, TypeOK
  <2>2. Cardinality(In(g, "popping")') = Cardinality(In(g, "popping")) - 1
    BY <2>1, WorkersFinite, FS_RemoveElement
  <2>3. Len(queue'[g]) = Len(queue[g]) - 1 /\ Len(queue[g]) \in Nat
    BY <1>1, <1>3, WorkerParts DEF Inv, TypeOK
  <2>4. In(g, "waiting")' # {} => In(g, "waiting") # {}
    BY <1>1 DEF In, Of, Inv, TypeOK
  <2> QED BY <2>2, <2>3, <2>4, WorkersFinite DEF Covered
<1> QED BY <1>2, <1>3

\* Blocking and exiting need an empty queue, and so does falling asleep.
LEMMA WaitingCovered ==
    ASSUME Inv, Inv', NEW w \in Workers, Block(w) \/ Exit(w) \/ Sleep(w) \/ SpuriousWake(w),
           NEW g \in Gens, Covered(g)
    PROVE  Covered(g)'
PROOF
<1>1. queue' = queue /\ \A v \in Workers : v # w => pc'[v] = pc[v]
  BY DEF Block, Exit, Sleep, SpuriousWake, Inv, TypeOK
<1>2. CASE g # w[1]
  BY <1>1, <1>2, CoveredKept DEF Of
<1>3. CASE g = w[1] /\ queue[g] = <<>>
  <2>1. Len(queue'[g]) = 0
    BY <1>1, <1>3
  <2>2. IsFiniteSet(In(g, "popping")')
    <3>1. In(g, "popping")' \in SUBSET (In(g, "popping") \cup {w})
      BY <1>1 DEF In, Of
    <3>2. IsFiniteSet(In(g, "popping") \cup {w})
      BY WorkersFinite, FS_AddElement
    <3> QED BY <3>1, <3>2, FS_Subset
  <2>3. Cardinality(In(g, "popping")') \in Nat
    BY <2>2, FS_CardinalityType
  <2> QED BY <2>1, <2>3 DEF Covered
<1>4. CASE g = w[1] /\ queue[g] # <<>>
  <2>1. pc[w] = "waiting" /\ pc' = [pc EXCEPT ![w] = "popping"]
    BY <1>4 DEF Block, Exit, Sleep, SpuriousWake, MayExit, Inv, BlockedOnEmpty
  <2>2. \A v \in Of(g) : pc[v] = "popping" => pc'[v] = "popping"
    BY <2>1 DEF Of, Inv, TypeOK
  <2>3. \A v \in Of(g) : pc'[v] = "waiting" => pc[v] = "waiting"
    BY <2>1 DEF Of, Inv, TypeOK
  <2> QED BY <1>1, <2>2, <2>3, CoveredKept
<1> QED BY <1>2, <1>3, <1>4

\* The remaining steps keep the queues and put nobody to sleep.
LEMMA OthersCovered ==
    ASSUME Inv, Inv', NEW g \in Gens, Covered(g),
           \/ UNCHANGED vars
           \/ \E w \in Workers : Finish(w)
           \/ \E a \in Agents :
                 \/ \E t \in Tasks : Submit(a, t)
                 \/ Refuse(a)
                 \/ Start(a)
                 \/ \E k \in 0 .. NumWorkers - 1 : StartFails(a, k)
                 \/ Stop(a) \/ StartCatches(a)
                 \/ RequestStop(a)
                 \/ StopReturns(a)
    PROVE  Covered(g)'
PROOF
<1>1. queue' = queue
  BY DEF vars, Finish, Submit, Refuse, Start, StartFails, Creates, Stop, StartCatches, Shuts,
     RequestStop, StopReturns
<1>2. \A w \in Workers : \/ pc'[w] = pc[w]
                         \/ pc'[w] = "popping"
  <2>1. CASE UNCHANGED vars \/ \E a \in Agents : (\E t \in Tasks : Submit(a, t)) \/ Refuse(a) \/ StopReturns(a)
    BY <2>1 DEF vars, workerVars, Submit, Refuse, StopReturns
  <2>2. CASE \E w \in Workers : Finish(w)
    BY <2>2 DEF Finish, Inv, TypeOK
  <2>3. CASE \E a \in Agents : Start(a) \/ \E k \in 0 .. NumWorkers - 1 : StartFails(a, k)
    BY <2>3 DEF Start, StartFails, Creates
  <2>4. CASE \E a \in Agents : Stop(a) \/ StartCatches(a) \/ RequestStop(a)
    BY <2>4 DEF Stop, StartCatches, Shuts, RequestStop, WakeAll
  <2> QED BY <2>1, <2>2, <2>3, <2>4
<1>3. \A w \in Of(g) : w \in Workers /\ (pc[w] = "popping" => pc'[w] = "popping")
                     /\ (pc'[w] = "waiting" => pc[w] = "waiting")
  BY <1>2 DEF Of
<1> QED BY <1>1, <1>3, CoveredKept

\* While a worker sleeps, its awake peers are enough for the queued tasks.
THEOREM NoWakeupLost == Safe => []NoLostWakeup
PROOF
<1> DEFINE AllCovered == \A g \in Gens : Covered(g)
<1>1. Init => AllCovered
  BY DEF Init, Covered, In, Of
<1>2. Inv /\ Inv' /\ AllCovered /\ [Next]_vars => AllCovered'
  <2> SUFFICES ASSUME Inv, Inv', AllCovered, [Next]_vars, NEW g \in Gens
               PROVE  Covered(g)'
    OBVIOUS
  <2>1. Covered(g)
    OBVIOUS
  <2>2. ASSUME NEW a \in Agents, CallerNext(a) PROVE Covered(g)'
    BY <2>1, <2>2, AcceptCovered, OthersCovered DEF CallerNext, Pushes
  <2>3. ASSUME NEW w \in Workers, WorkerNext(w) PROVE Covered(g)'
    BY <2>1, <2>3, TakeCovered, WaitingCovered, OthersCovered DEF WorkerNext, Pops
  <2>4. CASE UNCHANGED vars
    BY <2>1, <2>4, OthersCovered
  <2> QED BY <2>2, <2>3, <2>4 DEF Next
<1>3. AllCovered => NoLostWakeup
  BY DEF Covered, NoLostWakeup
<1> QED BY <1>1, <1>2, <1>3, Invariance, PTL DEF Safe

-----------------------------------------------------------------------------
(* A start that fails holds _worker_lock from its first thread to its      *)
(* shutdown: nobody else can stop the pool, or start it again, in between. *)

HoldsLock == \A a \in Agents : call[a].op = "start" =>
    started /\ \A b \in Agents : call[b].op = "start" => b = a

LEMMA LockStep ==
    ASSUME Inv, HoldsLock, [Next]_vars
    PROVE  HoldsLock'
PROOF
<1>1. ASSUME UNCHANGED started, \A b \in Agents : call'[b].op = "start" => call[b].op = "start" PROVE HoldsLock'
  BY <1>1 DEF HoldsLock
<1>2. CASE (\E w \in Workers : WorkerNext(w)) \/ UNCHANGED vars
  <2>1. UNCHANGED <<started, call>>
    BY <1>2 DEF WorkerNext, Pops, Take, Block, Exit, Sleep, SpuriousWake, Finish, vars, poolVars
  <2> QED BY <1>1, <2>1
<1>3. ASSUME NEW a \in Agents, (\E t \in Tasks : Submit(a, t)) \/ Pushes(a) \/ StopReturns(a) PROVE HoldsLock'
  <2>1. UNCHANGED started /\ (\/ call' = [call EXCEPT ![a] = Idle]
                             \/ \E t \in Tasks : call' = [call EXCEPT ![a] = Pushing(generation, t)])
    BY <1>3 DEF Submit, Pushes, Accept, Refuse, StopReturns, poolVars
  <2>2. call'[a].op # "start" /\ \A b \in Agents \ {a} : call'[b] = call[b]
    BY <2>1, CallOps DEF Inv, TypeOK
  <2>3. \A b \in Agents : call'[b].op = "start" => call[b].op = "start"
    BY <2>2
  <2> QED BY <1>1, <2>1, <2>3
<1>4. ASSUME NEW a \in Agents, RequestStop(a) PROVE HoldsLock'
  <2>1. PICK w \in call[a].left :
           call' = [call EXCEPT ![a] = Stopping(@.gen, @.owned, @.left \ {w})]
    BY <1>4 DEF RequestStop
  <2>2. call'[a].op = "stop" /\ \A b \in Agents \ {a} : call'[b] = call[b]
    BY <2>1, CallOps DEF Inv, TypeOK
  <2>3. \A b \in Agents : call'[b].op = "start" => call[b].op = "start"
    BY <2>2
  <2> QED BY <1>1, <1>4, <2>3 DEF RequestStop, poolVars
<1>5. ASSUME NEW a \in Agents, Start(a) PROVE HoldsLock'
  BY <1>5 DEF Start, Creates, HoldsLock
<1>6. ASSUME NEW a \in Agents, NEW k, StartFails(a, k) PROVE HoldsLock'
  <2>1. started' /\ WorkerLockFree /\ \A b \in Agents \ {a} : call'[b] = call[b]
    BY <1>6 DEF StartFails, Creates, MayStart, Inv, TypeOK
  <2>2. \A b \in Agents : call[b].op # "start"
    BY <2>1, CallParts DEF Inv, WorkerLockFree
  <2> QED BY <2>1, <2>2 DEF HoldsLock
<1>7. ASSUME NEW a \in Agents, Stop(a) \/ StartCatches(a) PROVE HoldsLock'
  <2>1. call'[a] = Stopping(generation, workers, workers) /\ \A b \in Agents \ {a} : call'[b] = call[b]
    BY <1>7 DEF Stop, StartCatches, Shuts, Inv, TypeOK
  <2>2. \A b \in Agents \ {a} : call[b].op # "start"
    <3>1. CASE Stop(a)
      BY <3>1, CallParts DEF Stop, WorkerLockFree, Inv
    <3>2. CASE StartCatches(a)
      BY <3>2 DEF StartCatches, HoldsLock
    <3> QED BY <1>7, <3>1, <3>2
  <2>3. \A b \in Agents : call'[b].op # "start"
    BY <2>1, <2>2, CallOps
  <2> QED BY <2>3 DEF HoldsLock
<1> QED BY <1>2, <1>3, <1>4, <1>5, <1>6, <1>7 DEF Next, CallerNext

\* No two starts fail at once, and no stop comes in between.
THEOREM LockHeld == Safe => []HoldsLock
PROOF
<1>1. Init => HoldsLock
  BY CallOps DEF Init, HoldsLock
<1>2. Inv /\ HoldsLock /\ [Next]_vars => HoldsLock'
  BY LockStep
<1> QED BY <1>1, <1>2, Invariance, PTL DEF Safe

-----------------------------------------------------------------------------
(* Generations follow each other: the earlier ones are shut, the later     *)
(* ones are untouched, and a call is about one that has begun.             *)

PoolState ==
    /\ started => hasStarted /\ ~shut[generation]
    /\ hasStarted /\ ~started => shut[generation]
    /\ \A h \in Gens : h < generation => shut[h]
    /\ \A h \in Gens : shut[h] => hasStarted /\ h <= generation

CallsInTime == \A a \in Agents :
    /\ call[a].op \in {"push", "stop"} => call[a].gen <= generation
    /\ call[a].op = "stop" => shut[call[a].gen]

GenerationsInOrder == PoolState /\ CallsInTime

\* The generation that a start creates was never shut, and all before it are.
LEMMA NextIsFresh ==
    ASSUME Inv, PoolState, ~started, NextGeneration \in Gens
    PROVE  /\ ~shut[NextGeneration]
           /\ generation <= NextGeneration
           /\ \A h \in Gens : h < NextGeneration => shut[h]
PROOF
<1>1. generation \in Gens /\ hasStarted \in BOOLEAN
  BY DEF Inv, TypeOK
<1>2. CASE hasStarted
  <2>1. NextGeneration = generation + 1
    BY <1>2 DEF NextGeneration
  <2>2. \A h \in Gens : h < generation + 1 => h < generation \/ h = generation
    BY <1>1 DEF Gens
  <2>3. shut[generation]
    BY <1>2 DEF PoolState
  <2> QED BY <1>1, <2>1, <2>2, <2>3 DEF PoolState, Gens
<1>3. CASE ~hasStarted
  BY <1>1, <1>3 DEF PoolState, NextGeneration, Gens
<1> QED BY <1>2, <1>3

\* A step by which one agent's call comes to be about a generation that has begun,
\* or about none, keeps the calls in time.
LEMMA CallsKept ==
    ASSUME Inv, CallsInTime, NEW a \in Agents, \A b \in Agents \ {a} : call'[b] = call[b],
           generation <= generation', generation' \in Gens,
           \A h \in Gens : shut[h] => shut'[h],
           call'[a].op \in {"push", "stop"} => call'[a].gen <= generation',
           call'[a].op = "stop" => shut'[call'[a].gen]
    PROVE  CallsInTime'
PROOF
<1>1. ASSUME NEW b \in Agents \ {a}
      PROVE  /\ call'[b].op \in {"push", "stop"} => call'[b].gen <= generation'
             /\ call'[b].op = "stop" => shut'[call'[b].gen]
  <2>1. call[b].op \in {"push", "stop"} => call[b].gen \in Gens
    BY CallParts DEF Inv
  <2>2. call[b].op \in {"push", "stop"} => call[b].gen <= generation
    BY DEF CallsInTime
  <2>3. call[b].op = "stop" => shut'[call[b].gen]
    BY <2>1 DEF CallsInTime
  <2>4. generation \in Gens
    BY DEF Inv, TypeOK
  <2>5. call[b].op \in {"push", "stop"} => call[b].gen <= generation'
    BY <2>1, <2>2, <2>4 DEF Gens
  <2> QED BY <2>3, <2>5
<1> QED BY <1>1 DEF CallsInTime

\* The order of generations is kept by every step.
LEMMA InOrderStep ==
    ASSUME Inv, Inv', HoldsLock, GenerationsInOrder, [Next]_vars
    PROVE  GenerationsInOrder'
PROOF
<1> USE DEF GenerationsInOrder
<1>0. generation \in Gens /\ generation' \in Gens /\ generation <= generation
  BY DEF Inv, TypeOK, Gens
<1>1. ASSUME NEW a \in Agents, NEW t \in Tasks, Submit(a, t) PROVE GenerationsInOrder'
  <2>1. UNCHANGED <<poolVars, shut>> /\ call'[a] = Pushing(generation, t)
        /\ \A b \in Agents \ {a} : call'[b] = call[b]
    BY <1>1 DEF Submit, Inv, TypeOK
  <2>2. CallsInTime'
    BY <1>0, <2>1, CallsKept, CallOps DEF poolVars
  <2> QED BY <2>1, <2>2 DEF PoolState, poolVars
<1>2. ASSUME NEW a \in Agents, Accept(a) \/ Refuse(a) \/ StopReturns(a) PROVE GenerationsInOrder'
  <2>1. UNCHANGED <<poolVars, shut>> /\ call'[a] = Idle
        /\ \A b \in Agents \ {a} : call'[b] = call[b]
    BY <1>2 DEF Accept, Refuse, StopReturns, Inv, TypeOK
  <2>2. CallsInTime'
    BY <1>0, <2>1, CallsKept, CallOps DEF poolVars
  <2> QED BY <2>1, <2>2 DEF PoolState, poolVars
<1>3. ASSUME NEW a \in Agents, RequestStop(a) PROVE GenerationsInOrder'
  <2>1. PICK w \in call[a].left :
           call' = [call EXCEPT ![a] = Stopping(@.gen, @.owned, @.left \ {w})]
    BY <1>3 DEF RequestStop
  <2>2. UNCHANGED <<poolVars, shut>> /\ call[a].op = "stop"
    BY <1>3 DEF RequestStop
  <2>3. call'[a].gen = call[a].gen /\ \A b \in Agents \ {a} : call'[b] = call[b]
    BY <2>1, CallOps DEF Inv, TypeOK
  <2>4. call[a].gen <= generation /\ shut[call[a].gen]
    BY <2>2 DEF CallsInTime
  <2>5. CallsInTime'
    BY <1>0, <2>2, <2>3, <2>4, CallsKept DEF poolVars
  <2> QED BY <2>2, <2>5 DEF PoolState, poolVars
<1>4. ASSUME NEW a \in Agents, NEW k, Creates(a, k), call' = call \/ call' = [call EXCEPT ![a] = Starting]
      PROVE  GenerationsInOrder'
  <2>1. ~started /\ NextGeneration \in Gens /\ generation' = NextGeneration
        /\ hasStarted' /\ started' /\ UNCHANGED shut
    BY <1>4 DEF Creates, MayStart
  <2>2. ~shut[NextGeneration] /\ generation <= NextGeneration
        /\ \A h \in Gens : h < NextGeneration => shut[h]
    BY <2>1, NextIsFresh
  <2>3. \A b \in Agents : call[b].op \in {"push", "stop"} => call[b].gen <= generation'
    <3>1. \A b \in Agents : call[b].op \in {"push", "stop"} => call[b].gen \in Gens
      BY CallParts DEF Inv
    <3> QED BY <1>0, <2>1, <2>2, <3>1 DEF CallsInTime, Gens
  <2>4. PoolState'
    BY <1>0, <2>1, <2>2 DEF PoolState, Gens
  <2>5. \A b \in Agents : call'[b] = call[b] \/ call'[b] = Starting
    BY <1>4 DEF Inv, TypeOK
  <2> QED BY <2>1, <2>3, <2>4, <2>5, CallOps DEF CallsInTime
<1>5. ASSUME NEW a \in Agents, Start(a) \/ \E k \in 0 .. NumWorkers - 1 : StartFails(a, k)
      PROVE  GenerationsInOrder'
  BY <1>4, <1>5 DEF Start, StartFails
<1>6. ASSUME NEW a \in Agents, Stop(a) \/ StartCatches(a) PROVE GenerationsInOrder'
  <2>1. ~started' /\ shut' = [shut EXCEPT ![generation] = TRUE]
        /\ call'[a] = Stopping(generation, workers, workers)
        /\ generation' = generation /\ hasStarted' = hasStarted
        /\ \A b \in Agents \ {a} : call'[b] = call[b]
    BY <1>6 DEF Stop, StartCatches, Shuts, Inv, TypeOK
  <2>2. \A h \in Gens : shut'[h] <=> (h = generation \/ shut[h])
    BY <2>1 DEF Inv, TypeOK
  <2>3. started /\ hasStarted
    BY <1>6 DEF Stop, StartCatches, HoldsLock, PoolState
  <2>4. PoolState'
    BY <1>0, <2>1, <2>2, <2>3 DEF PoolState, Gens
  <2>5. shut'[generation] /\ \A h \in Gens : shut[h] => shut'[h]
    BY <1>0, <2>2
  <2>6. CallsInTime'
    BY <1>0, <2>1, <2>5, CallsKept, CallOps
  <2> QED BY <2>4, <2>6
<1>7. ASSUME (\E w \in Workers : WorkerNext(w)) \/ UNCHANGED vars PROVE GenerationsInOrder'
  <2>1. UNCHANGED <<poolVars, shut, call>>
    BY <1>7 DEF WorkerNext, Pops, Take, Block, Exit, Sleep, SpuriousWake, Finish, vars
  <2> QED BY <2>1 DEF PoolState, CallsInTime, poolVars
<1> QED BY <1>1, <1>2, <1>3, <1>5, <1>6, <1>7 DEF Next, CallerNext, Pushes

\* Generations follow each other in every reachable state.
THEOREM Generations == Safe => []GenerationsInOrder
PROOF
<1>1. Init => GenerationsInOrder
  BY ThreadPoolAssumption, CallOps DEF Init, GenerationsInOrder, PoolState, CallsInTime, Gens
<1>2. Inv /\ Inv' /\ HoldsLock /\ GenerationsInOrder /\ [Next]_vars => GenerationsInOrder'
  BY InOrderStep
<1> QED BY <1>1, <1>2, Invariance, LockHeld, PTL DEF Safe

-----------------------------------------------------------------------------
(* A stop takes every thread of its generation, and a task accepted by a   *)
(* generation is queued there, or held by one of its threads, or finished. *)

\* The threads of generation g when their program counters are p.
Threads(g, p) == {w \in Of(g) : p[w] # "none"}

OwnsAll ==
    /\ started => workers = Threads(generation, pc)
    /\ \A a \in Agents : call[a].op = "stop" => call[a].owned = Threads(call[a].gen, pc)

AcceptedIsSomewhere == \A g \in Gens : \A t \in accepted[g] :
    \/ t \in finished
    \/ \E i \in 1 .. Len(queue[g]) : queue[g][i] = t
    \/ \E w \in Of(g) : task[w] = t

\* A step that neither starts nor stops the pool.
Quiet ==
    \/ \E a \in Agents : (\E t \in Tasks : Submit(a, t)) \/ Pushes(a) \/ RequestStop(a) \/ StopReturns(a)
    \/ \E w \in Workers : WorkerNext(w)
    \/ UNCHANGED vars

\* Threads are created by a start only, and never become uncreated.
LEMMA ThreadsKept ==
    ASSUME Inv, NEW g \in Gens, [Next]_vars,
           g # NextGeneration \/ Quiet \/ \E a \in Agents : Stop(a) \/ StartCatches(a)
    PROVE  Threads(g, pc') = Threads(g, pc)
PROOF
<1>1. \A w \in Of(g) : w \in Workers /\ w[1] = g
  BY DEF Of
<1>2. CASE g # NextGeneration /\ \E a \in Agents : Start(a) \/ \E k \in 0 .. NumWorkers - 1 : StartFails(a, k)
  <2>1. \A w \in Of(g), k \in 0 .. NumWorkers : w \notin Spawned(k)
    BY <1>1, <1>2 DEF Spawned, Of
  <2>2. \A w \in Of(g) : pc'[w] = pc[w]
    BY <1>1, <1>2, <2>1, ThreadPoolAssumption DEF Start, StartFails, Creates
  <2> QED BY <2>2 DEF Threads, Of
<1>3. CASE \E a \in Agents : Stop(a) \/ StartCatches(a) \/ RequestStop(a)
  <2>1. pc' = pc \/ \E h : pc' = WakeAll(h, pc)
    <3>1. CASE \E a \in Agents : Stop(a) \/ StartCatches(a)
      BY <3>1 DEF Stop, StartCatches, Shuts
    <3>2. CASE \E a \in Agents : RequestStop(a)
      <4>1. PICK a \in Agents : RequestStop(a)
        BY <3>2
      <4>2. PICK w \in call[a].left : pc' = IF pc[w] \in {"blocking", "waiting"} THEN WakeAll(w[1], pc) ELSE pc
        BY <4>1 DEF RequestStop
      <4>3. pc' = pc \/ pc' = WakeAll(w[1], pc)
        BY <4>2
      <4> QED BY <4>3
    <3> QED BY <1>3, <3>1, <3>2
  <2>2. \A w \in Of(g) : pc'[w] = "none" <=> pc[w] = "none"
    BY <1>1, <2>1 DEF WakeAll
  <2> QED BY <2>2 DEF Threads, Of
<1>4. CASE \E a \in Agents : (\E t \in Tasks : Submit(a, t)) \/ Accept(a) \/ Refuse(a) \/ StopReturns(a)
  <2>1. \A w \in Of(g) : pc'[w] = "none" <=> pc[w] = "none"
    BY <1>1, <1>4 DEF Submit, Accept, Refuse, StopReturns, WakeOne, In, Of, workerVars, Inv, TypeOK
  <2> QED BY <2>1 DEF Threads, Of
<1>5. CASE \E v \in Workers : WorkerNext(v)
  <2>1. \A w \in Of(g) : pc'[w] = "none" <=> pc[w] = "none"
    BY <1>1, <1>5 DEF WorkerNext, Pops, Take, Block, Exit, Sleep, SpuriousWake, Finish, Inv, TypeOK
  <2> QED BY <2>1 DEF Threads, Of
<1>6. CASE UNCHANGED vars
  BY <1>6 DEF vars, workerVars, Threads, Of
<1> QED BY <1>2, <1>3, <1>4, <1>5, <1>6 DEF Next, CallerNext, Pushes, Quiet

\* A quiet step begins no stop, and a stop in progress keeps what it owns.
LEMMA QuietStops ==
    ASSUME Inv, Quiet, NEW a \in Agents, call'[a].op = "stop"
    PROVE  call[a].op = "stop" /\ call'[a].gen = call[a].gen /\ call'[a].owned = call[a].owned
PROOF
<1>1. CASE (\E w \in Workers : WorkerNext(w)) \/ UNCHANGED vars
  <2>1. call' = call
    BY <1>1 DEF WorkerNext, Pops, Take, Block, Exit, Sleep, SpuriousWake, Finish, vars
  <2> QED BY <2>1
<1>2. ASSUME NEW b \in Agents, (\E t \in Tasks : Submit(b, t)) \/ Pushes(b) \/ StopReturns(b)
      PROVE  call'[a] = call[a]
  <2>1. \/ call' = [call EXCEPT ![b] = Idle]
        \/ \E t \in Tasks : call' = [call EXCEPT ![b] = Pushing(generation, t)]
    BY <1>2 DEF Submit, Pushes, Accept, Refuse, StopReturns
  <2> QED BY <2>1, CallOps DEF Inv, TypeOK
<1>3. ASSUME NEW b \in Agents, RequestStop(b)
      PROVE  call[a].op = "stop" /\ call'[a].gen = call[a].gen /\ call'[a].owned = call[a].owned
  <2>1. PICK w \in call[b].left :
           call' = [call EXCEPT ![b] = Stopping(@.gen, @.owned, @.left \ {w})]
    BY <1>3 DEF RequestStop
  <2>2. call[b].op = "stop"
    BY <1>3 DEF RequestStop
  <2> QED BY <2>1, <2>2, CallOps DEF Inv, TypeOK
<1> QED BY <1>1, <1>2, <1>3 DEF Quiet

\* A stop owns every thread of its generation.
LEMMA OwnsAllStep ==
    ASSUME Inv, Inv', HoldsLock, GenerationsInOrder, OwnsAll, [Next]_vars
    PROVE  OwnsAll'
PROOF
<1>0. generation \in Gens
  BY DEF Inv, TypeOK
<1>1. \A a \in Agents : call[a].op = "stop" =>
         call[a].gen \in Gens /\ (~started => call[a].gen # NextGeneration)
  <2> SUFFICES ASSUME NEW a \in Agents, call[a].op = "stop"
               PROVE  call[a].gen \in Gens /\ (~started => call[a].gen # NextGeneration)
    OBVIOUS
  <2>1. call[a].gen \in Gens /\ shut[call[a].gen]
    BY CallParts DEF Inv, GenerationsInOrder, CallsInTime
  <2>2. ~started /\ call[a].gen = NextGeneration => ~shut[call[a].gen]
    BY <2>1, NextIsFresh DEF GenerationsInOrder
  <2> QED BY <2>1, <2>2
<1>2. ASSUME NEW a \in Agents, NEW k \in 0 .. NumWorkers, ~started,
             NextGeneration \in Gens,
             \A w \in Workers : pc'[w] = IF w \in Spawned(k) THEN "popping" ELSE pc[w]
      PROVE  Threads(NextGeneration, pc') = Spawned(k)
  <2> DEFINE g == NextGeneration
  <2>1. \A w \in Spawned(k) : w \in Of(g) /\ w \in Workers
    BY DEF Spawned, Of
  <2>2. \A w \in Of(g) : w \in Workers /\ (generation < w[1] \/ ~hasStarted)
    BY <1>0 DEF Of, NextGeneration, Gens
  <2>3. \A w \in Of(g) : pc[w] = "none"
    BY <2>2 DEF Inv, FutureIsFresh
  <2>4. {w \in Of(g) : pc'[w] # "none"} = Spawned(k)
    BY <1>2, <2>1, <2>2, <2>3
  <2> QED BY <2>4 DEF Threads, Of
<1>3. ASSUME NEW a \in Agents, NEW k \in 0 .. NumWorkers, Creates(a, k),
             call' = call \/ call' = [call EXCEPT ![a] = Starting],
             \A g \in Gens : g # NextGeneration => Threads(g, pc') = Threads(g, pc)
      PROVE  OwnsAll'
  <2>1. ~started /\ NextGeneration \in Gens /\ generation' = NextGeneration
        /\ workers' = workers \cup Spawned(k)
    BY <1>3 DEF Creates, MayStart
  <2>2. workers' = Spawned(k)
    BY <2>1 DEF Inv, OwnsCurrent
  <2>3. Threads(NextGeneration, pc') = Spawned(k)
    BY <1>2, <1>3, <2>1 DEF Creates
  <2>4. \A b \in Agents : call[b].op = "stop" => call[b].owned = Threads(call[b].gen, pc')
    BY <1>1, <1>3, <2>1 DEF OwnsAll
  <2>5. \A b \in Agents : call'[b] = call[b] \/ call'[b] = Starting
    BY <1>3 DEF Inv, TypeOK
  <2> QED BY <2>1, <2>2, <2>3, <2>4, <2>5, CallOps DEF OwnsAll
<1>4. ASSUME NEW a \in Agents, Start(a) \/ \E k \in 0 .. NumWorkers - 1 : StartFails(a, k) PROVE OwnsAll'
  <2>1. \A g \in Gens : g # NextGeneration => Threads(g, pc') = Threads(g, pc)
    BY <1>4, ThreadsKept
  <2>2. 0 .. NumWorkers - 1 \subseteq 0 .. NumWorkers /\ NumWorkers \in 0 .. NumWorkers
    BY ThreadPoolAssumption
  <2> QED BY <1>3, <1>4, <2>1, <2>2 DEF Start, StartFails
<1>5. ASSUME NEW a \in Agents, Stop(a) \/ StartCatches(a) PROVE OwnsAll'
  <2>1. started /\ ~started' /\ call'[a] = Stopping(generation, workers, workers)
        /\ \A b \in Agents \ {a} : call'[b] = call[b]
    BY <1>5 DEF Stop, StartCatches, Shuts, HoldsLock, Inv, TypeOK
  <2>2. \A g \in Gens : Threads(g, pc') = Threads(g, pc)
    BY <1>5, ThreadsKept
  <2> QED BY <1>0, <1>1, <2>1, <2>2, CallOps DEF OwnsAll
<1>6. CASE Quiet
  <2>1. \A g \in Gens : Threads(g, pc') = Threads(g, pc)
    BY <1>6, ThreadsKept
  <2>2. started' = started /\ generation' = generation /\ workers' = workers
    BY <1>6 DEF Quiet, WorkerNext, Pops, Take, Block, Exit, Sleep, SpuriousWake, Finish, vars,
       poolVars, Submit, Pushes, Accept, Refuse, RequestStop, StopReturns
  <2>3. \A a \in Agents : call'[a].op = "stop" =>
           call[a].op = "stop" /\ call'[a].gen = call[a].gen /\ call'[a].owned = call[a].owned
    BY <1>6, QuietStops
  <2> QED BY <1>0, <1>1, <2>1, <2>2, <2>3 DEF OwnsAll
<1> QED BY <1>4, <1>5, <1>6 DEF Next, CallerNext, Quiet

\* A stop in progress owns all the threads of its generation.
THEOREM StopsOwnAll == Safe => []OwnsAll
PROOF
<1>1. Init => OwnsAll
  BY CallOps DEF Init, OwnsAll
<1>2. Inv /\ Inv' /\ HoldsLock /\ GenerationsInOrder /\ OwnsAll /\ [Next]_vars => OwnsAll'
  BY OwnsAllStep
<1> QED BY <1>1, <1>2, Invariance, LockHeld, Generations, PTL DEF Safe

\* Push, pop and the end of a task move it from one place to the next.
LEMMA SomewhereStep ==
    ASSUME Inv, Inv', AcceptedIsSomewhere, [Next]_vars
    PROVE  AcceptedIsSomewhere'
PROOF
<1> DEFINE Somewhere(g, t) == \/ t \in finished
                              \/ \E i \in 1 .. Len(queue[g]) : queue[g][i] = t
                              \/ \E w \in Of(g) : task[w] = t
<1>0. \A g \in Gens : accepted'[g] \subseteq Tasks
  BY DEF Inv, TypeOK
<1>1. SUFFICES ASSUME NEW g \in Gens, NEW t \in Tasks, t \in accepted'[g],
                      t \in accepted[g] => Somewhere(g, t)
               PROVE  Somewhere(g, t)'
  BY <1>0, SMTT(30) DEF AcceptedIsSomewhere
<1>2. queue[g] \in Seq(Tasks)
  BY DEF Inv, TypeOK
<1>3. ASSUME NEW a \in Agents, Accept(a) PROVE Somewhere(g, t)'
  <2>1. call[a].gen \in Gens /\ call[a].task \in Tasks
    BY <1>3, CallParts DEF Accept, Inv
  <2>2. /\ queue' = [queue EXCEPT ![call[a].gen] = Append(@, call[a].task)]
        /\ accepted' = [accepted EXCEPT ![call[a].gen] = @ \cup {call[a].task}]
        /\ task' = task /\ finished' = finished
    BY <1>3 DEF Accept
  <2>3. CASE call[a].gen = g
    <3>1. queue'[g] = Append(queue[g], call[a].task) /\ accepted'[g] = accepted[g] \cup {call[a].task}
      BY <2>1, <2>2, <2>3 DEF Inv, TypeOK
    <3>2. Len(queue'[g]) = Len(queue[g]) + 1 /\ queue'[g][Len(queue[g]) + 1] = call[a].task
          /\ \A i \in 1 .. Len(queue[g]) : queue'[g][i] = queue[g][i]
      BY <1>2, <2>1, <3>1
    <3>3. Len(queue[g]) \in Nat
      BY <1>2
    <3>4. CASE t \in accepted[g]
      BY <1>1, <2>2, <3>2, <3>3, <3>4 DEF Of
    <3>5. CASE t = call[a].task
      BY <3>2, <3>3, <3>5
    <3> QED BY <1>1, <3>1, <3>4, <3>5
  <2>4. CASE call[a].gen # g
    <3>1. queue'[g] = queue[g] /\ accepted'[g] = accepted[g]
      BY <2>1, <2>2, <2>4 DEF Inv, TypeOK
    <3> QED BY <1>1, <2>2, <3>1 DEF Of
  <2> QED BY <2>3, <2>4
<1>4. ASSUME NEW v \in Workers, Take(v) PROVE Somewhere(g, t)'
  <2>1. /\ queue[v[1]] # <<>> /\ pc[v] = "popping"
        /\ queue' = [queue EXCEPT ![v[1]] = Tail(@)]
        /\ task' = [task EXCEPT ![v] = Head(queue[v[1]])]
        /\ accepted' = accepted /\ finished' = finished
    BY <1>4 DEF Take, history
  <2>2. \A w \in Workers : w # v => task'[w] = task[w]
    BY <2>1 DEF Inv, TypeOK
  <2>3. task'[v] = Head(queue[v[1]]) /\ task[v] \notin Tasks
    BY <2>1 DEF Inv, TypeOK
  <2>4. CASE v[1] = g
    <3>1. queue'[g] = Tail(queue[g]) /\ queue[g] # <<>>
      BY <2>1, <2>4 DEF Inv, TypeOK
    <3>2. ASSUME NEW i \in 1 .. Len(queue[g]), queue[g][i] = t PROVE Somewhere(g, t)'
      <4>1. CASE i = 1
        <5>1. task'[v] = t /\ v \in Of(g)
          BY <1>2, <2>3, <2>4, <3>1, <3>2, <4>1 DEF Of
        <5> QED BY <5>1 DEF Of
      <4>2. CASE i # 1
        <5>1. i - 1 \in 1 .. Len(queue'[g]) /\ queue'[g][i - 1] = t
          BY <1>2, <3>1, <3>2, <4>2
        <5> QED BY <5>1
      <4> QED BY <4>1, <4>2
    <3> QED BY <1>1, <2>1, <2>2, <2>3, <3>2 DEF Of
  <2>5. CASE v[1] # g
    <3>1. queue'[g] = queue[g]
      BY <2>1, <2>5, WorkerParts DEF Inv, TypeOK
    <3> QED BY <1>1, <2>1, <2>2, <2>3, <3>1 DEF Of
  <2> QED BY <2>4, <2>5
<1>5. ASSUME NEW v \in Workers, Finish(v) PROVE Somewhere(g, t)'
  <2>1. /\ finished' = finished \cup {task[v]}
        /\ task' = [task EXCEPT ![v] = NoTask]
        /\ accepted' = accepted /\ queue' = queue
    BY <1>5 DEF Finish, Dropped
  <2>2. \A w \in Workers : w # v => task'[w] = task[w]
    BY <2>1 DEF Inv, TypeOK
  <2> QED BY <1>1, <2>1, <2>2 DEF Of
<1>6. CASE UNCHANGED <<queue, task, accepted, finished>>
  BY <1>1, <1>6 DEF Of
<1>7. ASSUME [Next]_vars, \A a \in Agents : ~Accept(a), \A w \in Workers : ~Take(w) /\ ~Finish(w)
      PROVE  UNCHANGED <<queue, task, accepted, finished>>
  BY <1>7 DEF Next, CallerNext, WorkerNext, Pushes, Pops, Submit, Refuse, Start, StartFails, Creates, Stop,
     StartCatches, Shuts, RequestStop, StopReturns, Block, Exit, Sleep, SpuriousWake, vars, workerVars, history
<1> QED BY <1>3, <1>4, <1>5, <1>6, <1>7

\* No task that was accepted is ever out of sight of its generation.
THEOREM NoneLost == Safe => []AcceptedIsSomewhere
PROOF
<1>1. Init => AcceptedIsSomewhere
  BY DEF Init, AcceptedIsSomewhere
<1>2. Inv /\ Inv' /\ AcceptedIsSomewhere /\ [Next]_vars => AcceptedIsSomewhere'
  BY SomewhereStep
<1> QED BY <1>1, <1>2, Invariance, PTL DEF Safe

\* Once the threads a stop owns are done, its generation has nothing queued and
\* nobody at work: what it accepted has finished.
LEMMA JoinedDrains ==
    ASSUME Inv, GenerationsInOrder, OwnsAll, AcceptedIsSomewhere,
           NEW a \in Agents, call[a].op = "stop", call[a].owned # {}, Joined(a)
    PROVE  accepted[call[a].gen] \subseteq finished /\ shut[call[a].gen]
PROOF
<1> DEFINE g == call[a].gen
<1>1. g \in Gens /\ shut[g] /\ call[a].owned = Threads(g, pc)
  BY CallParts DEF Inv, GenerationsInOrder, CallsInTime, OwnsAll
<1>2. PICK w \in Of(g) : pc[w] = "done" /\ w \in Workers
  BY <1>1 DEF Joined, Threads, Of
<1>3. queue[g] = <<>>
  BY <1>2 DEF Inv, DrainedBeforeExit, Of
<1>4. \A v \in Of(g) : task[v] \notin Tasks
  <2>1. \A v \in Of(g) : v \in Workers /\ (pc[v] = "none" \/ pc[v] = "done")
    BY <1>1 DEF Joined, Threads, Of
  <2> QED BY <2>1 DEF Inv, TypeOK
<1>5. accepted[g] \subseteq Tasks
  BY <1>1 DEF Inv, TypeOK
<1> QED BY <1>1, <1>3, <1>4, <1>5 DEF AcceptedIsSomewhere

\* An agent that is stopping the pool does nothing else before its stop returns.
LEMMA StopEnds ==
    ASSUME Inv, [Next]_vars, NEW a \in Agents, call[a].op = "stop", call'[a] = Idle
    PROVE  StopReturns(a)
PROOF
<1>1. call[a] # Idle /\ call[a].op \notin {"push", "start"}
  BY CallOps
<1>2. CASE UNCHANGED vars \/ \E w \in Workers : WorkerNext(w)
  <2>1. call' = call
    BY <1>2 DEF vars, WorkerNext, Pops, Take, Block, Exit, Sleep, SpuriousWake, Finish
  <2> QED BY <1>1, <2>1
<1>3. ASSUME NEW b \in Agents, CallerNext(b), b # a PROVE FALSE
  <2>1. call'[a] = call[a]
    BY <1>3 DEF CallerNext, Pushes, Submit, Accept, Refuse, Start, StartFails, Creates, Stop,
       StartCatches, Shuts, RequestStop, StopReturns, Inv, TypeOK
  <2> QED BY <1>1, <2>1
<1>4. CASE Start(a)
  BY <1>1, <1>4 DEF Start, Creates, MayStart, CanCall
<1>5. CASE \/ \E t \in Tasks : Submit(a, t)
           \/ Pushes(a) \/ Stop(a) \/ StartCatches(a)
           \/ \E k \in 0 .. NumWorkers - 1 : StartFails(a, k)
  BY <1>1, <1>5 DEF Submit, Pushes, Accept, Refuse, Stop, StartCatches, StartFails, Creates, MayStart, CanCall
<1>6. CASE RequestStop(a)
  <2>1. PICK w \in call[a].left :
           call' = [call EXCEPT ![a] = Stopping(@.gen, @.owned, @.left \ {w})]
    BY <1>6 DEF RequestStop
  <2> QED BY <2>1, CallOps DEF Inv, TypeOK
<1> QED BY <1>1, <1>2, <1>3, <1>4, <1>5, <1>6 DEF Next, CallerNext

\* README: an external stop waits for the queued work and the workers of the
\* generation it stops.
THEOREM StopsDrain == Safe => StopDrains
PROOF
<1> DEFINE Drained == \A c \in Callers :
        (call[c].op = "stop" /\ call[c].owned # {} /\ call'[c] = Idle) =>
            /\ accepted[call[c].gen] \subseteq finished
            /\ shut[call[c].gen]
<1>1. ASSUME Inv, GenerationsInOrder, OwnsAll, AcceptedIsSomewhere, [Next]_vars
      PROVE  Drained
  <2> SUFFICES ASSUME NEW c \in Callers, call[c].op = "stop", call[c].owned # {}, call'[c] = Idle
               PROVE  accepted[call[c].gen] \subseteq finished /\ shut[call[c].gen]
    OBVIOUS
  <2>1. c \in Agents /\ c \notin Workers
    BY ThreadPoolAssumption DEF Agents
  <2>2. StopReturns(c)
    BY <1>1, <2>1, StopEnds
  <2>3. Joined(c)
    BY <2>1, <2>2 DEF StopReturns, Detaches
  <2> QED BY <1>1, <2>1, <2>3, JoinedDrains
<1> HIDE DEF Drained
<1>2. Safe => [][Drained]_vars
  BY <1>1, Invariance, Generations, StopsOwnAll, NoneLost, PTL DEF Safe
<1>3. [][Drained]_vars <=> StopDrains
  BY DEF Drained, StopDrains
<1> QED BY <1>2, <1>3

-----------------------------------------------------------------------------
(* A task is in one place at a time: in the hands of the agent that pushes *)
(* it, in one position of one queue, or held by one worker.                *)

Pushed(a, t) == call[a].op = "push" /\ call[a].task = t
Queued(g, i, t) == i \in 1 .. Len(queue[g]) /\ queue[g][i] = t
Held(w, t) == task[w] = t

\* The places of task t exclude each other, and one that has none was not handed
\* to the pool yet, or was refused, or is finished.
InOnePlace(t) ==
    /\ t \in finished => t \in issued
    /\ \A a \in Agents : Pushed(a, t) => t \in issued \ finished
    /\ \A g \in Gens : \A i \in Nat : Queued(g, i, t) => t \in issued \ finished
    /\ \A w \in Workers : Held(w, t) => t \in issued \ finished
    /\ \A a, b \in Agents : Pushed(a, t) /\ Pushed(b, t) => a = b
    /\ \A g, h \in Gens : \A i, j \in Nat : Queued(g, i, t) /\ Queued(h, j, t) => g = h /\ i = j
    /\ \A w, v \in Workers : Held(w, t) /\ Held(v, t) => w = v
    /\ \A a \in Agents, g \in Gens : \A i \in Nat : ~(Pushed(a, t) /\ Queued(g, i, t))
    /\ \A a \in Agents, w \in Workers : ~(Pushed(a, t) /\ Held(w, t))
    /\ \A g \in Gens, w \in Workers : \A i \in Nat : ~(Queued(g, i, t) /\ Held(w, t))

OnePlace == \A t \in Tasks : InOnePlace(t)

\* A step that adds no place keeps the places apart.
LEMMA PlacesShrink ==
    ASSUME NEW t \in Tasks, InOnePlace(t), issued \subseteq issued', t \in finished' => t \in finished,
           \A a \in Agents : Pushed(a, t)' => Pushed(a, t),
           \A g \in Gens : \A i \in Nat : Queued(g, i, t)' => Queued(g, i, t),
           \A w \in Workers : Held(w, t)' => Held(w, t)
    PROVE  InOnePlace(t)'
PROOF BY ZenonT(40) DEF InOnePlace

\* A task handed to the pool for the first time has no other place.
LEMMA SubmitPlaces ==
    ASSUME Inv, NEW a \in Agents, NEW s \in Tasks, Submit(a, s), NEW t \in Tasks, InOnePlace(t)
    PROVE  InOnePlace(t)'
PROOF
<1>1. /\ s \notin issued /\ issued' = issued \cup {s} /\ finished' = finished
      /\ call' = [call EXCEPT ![a] = Pushing(generation, s)]
      /\ queue' = queue /\ task' = task
  BY DEF Submit, workerVars
<1>2. \A b \in Agents : Pushed(b, t)' <=> (b = a /\ t = s) \/ (b # a /\ Pushed(b, t))
  BY <1>1, CallOps DEF Pushed, Inv, TypeOK
<1>3. \A g \in Gens : \A i \in Nat : Queued(g, i, t)' <=> Queued(g, i, t)
  BY <1>1 DEF Queued
<1>4. \A w \in Workers : Held(w, t)' <=> Held(w, t)
  BY <1>1 DEF Held
<1>5. CASE t = s
  <2>1. s \notin finished /\ ~(\E b \in Agents : Pushed(b, s))
        /\ ~(\E g \in Gens : \E i \in Nat : Queued(g, i, s)) /\ ~(\E w \in Workers : Held(w, s))
    BY <1>1, <1>5 DEF InOnePlace
  <2> QED BY <1>1, <1>2, <1>3, <1>4, <1>5, <2>1 DEF InOnePlace
<1>6. CASE t # s
  BY <1>1, <1>2, <1>3, <1>4, <1>6, PlacesShrink
<1> QED BY <1>5, <1>6

\* A push moves the task from its agent to the end of one queue.
LEMMA AcceptPlaces ==
    ASSUME Inv, NEW a \in Agents, Accept(a), NEW t \in Tasks, InOnePlace(t)
    PROVE  InOnePlace(t)'
PROOF
<1>1. /\ call[a].op = "push" /\ call' = [call EXCEPT ![a] = Idle]
      /\ queue' = [queue EXCEPT ![call[a].gen] = Append(@, call[a].task)]
      /\ issued' = issued /\ finished' = finished /\ task' = task
  BY DEF Accept
<1>2. PICK g \in Gens : g = call[a].gen
  BY <1>1, CallParts DEF Inv
<1>3. call[a].task \in Tasks /\ queue[g] \in Seq(Tasks)
  BY <1>1, CallParts DEF Inv, TypeOK
<1>4. PICK n \in Nat : n = Len(queue[g]) + 1
  BY <1>3
<1>5. \A b \in Agents : Pushed(b, t)' <=> b # a /\ Pushed(b, t)
  BY <1>1, CallOps DEF Pushed, Inv, TypeOK
<1>6. \A h \in Gens : \A i \in Nat :
         Queued(h, i, t)' <=> Queued(h, i, t) \/ (h = g /\ i = n /\ Pushed(a, t))
  <2>1. queue'[g] = Append(queue[g], call[a].task) /\ \A h \in Gens : h # g => queue'[h] = queue[h]
    BY <1>1, <1>2 DEF Inv, TypeOK
  <2>2. \A i \in Nat : Queued(g, i, t)' <=> Queued(g, i, t) \/ (i = n /\ Pushed(a, t))
    BY <1>1, <1>3, <1>4, <2>1 DEF Queued, Pushed
  <2> QED BY <2>1, <2>2 DEF Queued
<1>7. \A w \in Workers : Held(w, t)' <=> Held(w, t)
  BY <1>1 DEF Held
<1>8. CASE Pushed(a, t)
  <2>1. t \in issued \ finished /\ ~(\E b \in Agents : b # a /\ Pushed(b, t))
        /\ ~(\E h \in Gens : \E i \in Nat : Queued(h, i, t)) /\ ~(\E w \in Workers : Held(w, t))
    BY <1>8 DEF InOnePlace
  <2> QED BY <1>1, <1>5, <1>6, <1>7, <1>8, <2>1 DEF InOnePlace
<1>9. CASE ~Pushed(a, t)
  BY <1>1, <1>5, <1>6, <1>7, <1>9, PlacesShrink
<1> QED BY <1>8, <1>9

\* A pop moves the task from the head of its queue to the worker.
LEMMA TakePlaces ==
    ASSUME Inv, NEW w \in Workers, Take(w), NEW t \in Tasks, InOnePlace(t)
    PROVE  InOnePlace(t)'
PROOF
<1> DEFINE g == w[1]
<1>1. g \in Gens /\ queue[g] \in Seq(Tasks) /\ queue[g] # <<>>
  BY WorkerParts DEF Take, Inv, TypeOK
<1>2. /\ queue' = [queue EXCEPT ![g] = Tail(@)]
      /\ task' = [task EXCEPT ![w] = Head(queue[g])]
      /\ issued' = issued /\ finished' = finished /\ call' = call
  BY DEF Take, history
<1>3. \A b \in Agents : Pushed(b, t)' <=> Pushed(b, t)
  BY <1>2 DEF Pushed
<1>4. queue'[g] = Tail(queue[g]) /\ \A h \in Gens : h # g => queue'[h] = queue[h]
  BY <1>1, <1>2 DEF Inv, TypeOK
<1>5. \A i \in Nat : Queued(g, i, t)' => Queued(g, i + 1, t) /\ i # 0
  BY <1>1, <1>4 DEF Queued
<1>6. \A h \in Gens : \A i \in Nat : h # g => (Queued(h, i, t)' <=> Queued(h, i, t))
  BY <1>4 DEF Queued
<1>7. Queued(g, 1, Head(queue[g]))
  BY <1>1 DEF Queued
<1>8. \A v \in Workers : Held(v, t)' => (v # w /\ Held(v, t)) \/ (v = w /\ Queued(g, 1, t))
  BY <1>2, <1>7 DEF Held, Inv, TypeOK
<1> HIDE DEF g
<1>9. CASE Queued(g, 1, t)
  <2>1. t \in issued \ finished /\ ~(\E b \in Agents : Pushed(b, t)) /\ ~(\E v \in Workers : Held(v, t))
        /\ \A h \in Gens : \A i \in Nat : Queued(h, i, t) => h = g /\ i = 1
    BY <1>1, <1>9 DEF InOnePlace
  <2>2. \A h \in Gens : \A i \in Nat : ~Queued(h, i, t)'
    BY <1>5, <1>6, <2>1
  <2> QED BY <1>2, <1>3, <1>8, <1>9, <2>1, <2>2 DEF InOnePlace
<1>10. CASE ~Queued(g, 1, t)
  <2>1. \A v \in Workers : Held(v, t)' => Held(v, t)
    BY <1>8, <1>10
  <2>2. \A h \in Gens : \A i \in Nat : Queued(h, i, t)' => t \in issued \ finished
        /\ (\A b \in Agents : ~Pushed(b, t)) /\ (\A v \in Workers : ~Held(v, t))
    BY <1>1, <1>5, <1>6 DEF InOnePlace
  <2>3. \A h, k \in Gens : \A i, j \in Nat : Queued(h, i, t)' /\ Queued(k, j, t)' => h = k /\ i = j
    BY <1>1, <1>5, <1>6 DEF InOnePlace
  <2> QED BY <1>2, <1>3, <2>1, <2>2, <2>3 DEF InOnePlace
<1> QED BY <1>9, <1>10

\* Every step keeps every task in one place.
LEMMA OnePlaceStep ==
    ASSUME Inv, OnePlace, [Next]_vars
    PROVE  OnePlace'
PROOF
<1> SUFFICES ASSUME NEW t \in Tasks, InOnePlace(t) PROVE InOnePlace(t)'
  BY DEF OnePlace
<1>1. ASSUME NEW a \in Agents, NEW s \in Tasks, Submit(a, s) PROVE InOnePlace(t)'
  BY <1>1, SubmitPlaces
<1>2. ASSUME NEW a \in Agents, Accept(a) PROVE InOnePlace(t)'
  BY <1>2, AcceptPlaces
<1>3. ASSUME NEW w \in Workers, Take(w) PROVE InOnePlace(t)'
  BY <1>3, TakePlaces
<1>4. ASSUME NEW w \in Workers, Finish(w) PROVE InOnePlace(t)'
  <2>1. /\ finished' = finished \cup {task[w]}
        /\ task' = [task EXCEPT ![w] = NoTask]
        /\ issued' = issued /\ call' = call /\ queue' = queue
    BY <1>4 DEF Finish, Dropped
  <2>2. \A a \in Agents : Pushed(a, t)' <=> Pushed(a, t)
    BY <2>1 DEF Pushed
  <2>3. \A g \in Gens : \A i \in Nat : Queued(g, i, t)' <=> Queued(g, i, t)
    BY <2>1 DEF Queued
  <2>4. \A v \in Workers : Held(v, t)' => v # w /\ Held(v, t)
    BY <2>1, ThreadPoolAssumption DEF Held, Inv, TypeOK
  <2>5. CASE Held(w, t)
    <3>1. t \in issued /\ (\A a \in Agents : ~Pushed(a, t)) /\ (\A v \in Workers : v # w => ~Held(v, t))
          /\ (\A g \in Gens : \A i \in Nat : ~Queued(g, i, t))
      BY <2>5 DEF InOnePlace
    <3> QED BY <2>1, <2>2, <2>3, <2>4, <3>1 DEF InOnePlace
  <2>6. CASE ~Held(w, t)
    <3>1. t \in finished' => t \in finished
      BY <2>1, <2>6 DEF Held
    <3> QED BY <2>1, <2>2, <2>3, <2>4, <3>1, PlacesShrink
  <2> QED BY <2>5, <2>6
<1>5. CASE \/ \E w \in Workers : Block(w) \/ Exit(w) \/ Sleep(w) \/ SpuriousWake(w)
           \/ UNCHANGED vars
           \/ \E a \in Agents : Start(a) \/ StopReturns(a) \/ Refuse(a) \/ RequestStop(a) \/ Stop(a) \/ StartCatches(a)
           \/ \E a \in Agents, k \in 0 .. NumWorkers - 1 : StartFails(a, k)
  <2>1. UNCHANGED <<queue, task, issued, finished>>
    BY <1>5 DEF Block, Exit, Sleep, SpuriousWake, vars, Start, StopReturns, Refuse, RequestStop, Stop,
       StartCatches, Shuts, StartFails, Creates, workerVars, history
  <2>2. \A b \in Agents : Pushed(b, t)' => Pushed(b, t)
    <3>1. CASE call' = call
      BY <3>1 DEF Pushed
    <3>2. ASSUME NEW a \in Agents, StopReturns(a) \/ Refuse(a) \/ Stop(a) \/ StartCatches(a)
                 \/ \E k \in 0 .. NumWorkers - 1 : StartFails(a, k)
          PROVE  \A b \in Agents : Pushed(b, t)' => Pushed(b, t)
      <4>1. call'[a].op # "push" /\ \A b \in Agents \ {a} : call'[b] = call[b]
        BY <3>2, CallOps DEF StopReturns, Refuse, Stop, StartCatches, Shuts, StartFails, Inv, TypeOK
      <4> QED BY <4>1 DEF Pushed
    <3>3. ASSUME NEW a \in Agents, RequestStop(a)
          PROVE  \A b \in Agents : Pushed(b, t)' => Pushed(b, t)
      <4>1. PICK w \in call[a].left :
               call' = [call EXCEPT ![a] = Stopping(@.gen, @.owned, @.left \ {w})]
        BY <3>3 DEF RequestStop
      <4>2. call'[a].op # "push" /\ \A b \in Agents \ {a} : call'[b] = call[b]
        BY <4>1, CallOps DEF Inv, TypeOK
      <4> QED BY <4>2 DEF Pushed
    <3>4. (\E w \in Workers : Block(w) \/ Exit(w) \/ Sleep(w) \/ SpuriousWake(w)) \/ UNCHANGED vars
          \/ (\E a \in Agents : Start(a)) => call' = call
      BY DEF Block, Exit, Sleep, SpuriousWake, vars, Start
    <3> QED BY <1>5, <3>1, <3>2, <3>3, <3>4
  <2>3. \A g \in Gens : \A i \in Nat : Queued(g, i, t)' => Queued(g, i, t)
    BY <2>1 DEF Queued
  <2>4. \A v \in Workers : Held(v, t)' => Held(v, t)
    BY <2>1 DEF Held
  <2> QED BY <2>1, <2>2, <2>3, <2>4, PlacesShrink
<1> QED BY <1>1, <1>2, <1>3, <1>4, <1>5 DEF Next, CallerNext, WorkerNext, Pushes, Pops

\* No task is ever in two places.
THEOREM PlacesExclude == Safe => []OnePlace
PROOF
<1>1. Init => OnePlace
  BY ThreadPoolAssumption, CallOps DEF Init, OnePlace, InOnePlace, Pushed, Queued, Held
<1>2. Inv /\ OnePlace /\ [Next]_vars => OnePlace'
  BY OnePlaceStep
<1> QED BY <1>1, <1>2, Invariance, PTL DEF Safe

-----------------------------------------------------------------------------
(* The pool implements the executor.                                       *)

\* A generation has NumWorkers workers.
LEMMA GenerationSize ==
    ASSUME NEW g \in Gens
    PROVE  IsFiniteSet(Of(g)) /\ Cardinality(Of(g)) = NumWorkers
PROOF
<1> DEFINE f == [k \in 1 .. NumWorkers |-> <<g, k>>]
<1>1. \A w \in Of(g) : w \in Gens \X (1 .. NumWorkers) /\ w = <<g, w[2]>> /\ w[2] \in 1 .. NumWorkers
  BY DEF Of, Workers
<1>2. \A k \in 1 .. NumWorkers : <<g, k>> \in Of(g)
  BY DEF Of, Workers
<1>3. f \in Bijection(1 .. NumWorkers, Of(g))
  BY <1>1, <1>2 DEF Bijection, Injection, Surjection, IsInjective
<1>4. ExistsBijection(1 .. NumWorkers, Of(g))
  BY <1>3 DEF ExistsBijection
<1> QED BY <1>4, FS_NatBijection, FS_CountingElements, ThreadPoolAssumption

\* A worker on its way to the queue leaves room for a task in its generation.
LEMMA RoomForOne ==
    ASSUME Inv, NEW w \in Workers, pc[w] = "popping"
    PROVE  Cardinality(Running(w[1])) < NumWorkers
PROOF
<1> DEFINE S == {v \in Of(w[1]) : task[v] # NoTask}
           f == [v \in S |-> task[v]]
<1>1. w[1] \in Gens /\ w \in Of(w[1]) /\ w \notin S
  BY WorkerParts DEF Of, Inv, TypeOK
<1>2. S \in SUBSET (Of(w[1]) \ {w})
  BY <1>1
<1>3. IsFiniteSet(Of(w[1]) \ {w}) /\ Cardinality(Of(w[1]) \ {w}) = NumWorkers - 1
  BY <1>1, GenerationSize, FS_RemoveElement
<1>4. IsFiniteSet(S) /\ Cardinality(S) <= NumWorkers - 1
  BY <1>2, <1>3, FS_Subset
<1>5. f \in Surjection(S, Running(w[1]))
  BY DEF Running, Surjection
<1>6. IsFiniteSet(Running(w[1])) /\ Cardinality(Running(w[1])) <= Cardinality(S)
  BY <1>4, <1>5, FS_Surjection
<1>7. Cardinality(S) \in Nat /\ Cardinality(Running(w[1])) \in Nat
  BY <1>4, <1>6, FS_CardinalityType
<1> QED BY <1>4, <1>6, <1>7, ThreadPoolAssumption

\* The tasks the executor has begun are those held or finished.
LEMMA BegunAndQueued ==
    ASSUME Inv, NEW t \in Tasks
    PROVE  /\ t \in Pool!Begun <=> t \in finished \/ \E w \in Workers : Held(w, t)
           /\ t \in Pool!Queued <=> \E g \in Gens : \E i \in Nat : Queued(g, i, t)
PROOF
<1>1. \A g \in Gens : t \in Running(g) <=> \E w \in Of(g) : Held(w, t)
  BY ThreadPoolAssumption DEF Running, Held
<1>2. \A w \in Workers : w[1] \in Gens /\ w \in Of(w[1])
  BY WorkerParts DEF Of
<1>3. t \in Pool!Begun <=> t \in finished \/ \E g \in Gens : t \in Running(g)
  BY DEF Pool!Begun
<1>4. t \in Pool!Begun <=> t \in finished \/ \E w \in Workers : Held(w, t)
  BY <1>1, <1>2, <1>3 DEF Of
<1>5. t \in Pool!Queued <=> \E g \in Gens : \E i \in 1 .. Len(queue[g]) : queue[g][i] = t
  BY DEF Pool!Queued
<1>6. \A g \in Gens : Len(queue[g]) \in Nat
  BY DEF Inv, TypeOK
<1> QED BY <1>4, <1>5, <1>6 DEF Queued

\* The executor counts as this module does.
LEMMA SameCardinality == \A S : Pool!Cardinality(S) = Cardinality(S)
PROOF BY DEF Pool!Cardinality, Cardinality, Pool!IsFiniteSet, IsFiniteSet

\* A step that keeps what the workers hold keeps what runs.
LEMMA RunningKept ==
    ASSUME task' = task, NEW g \in Gens
    PROVE  Running(g)' = Running(g)
PROOF BY DEF Running, Of

\* A push into an open queue is an Accept: earlier generations are closed, and
\* the task is neither begun nor queued.
LEMMA AcceptMaps ==
    ASSUME Inv, GenerationsInOrder, OnePlace, NEW a \in Agents, Accept(a)
    PROVE  Pool!Accept(call[a].gen, call[a].task)
PROOF
<1> DEFINE g == call[a].gen
           t == call[a].task
<1>1. g \in Gens /\ t \in Tasks /\ g <= generation /\ generation \in Gens
  BY CallParts DEF Accept, Inv, TypeOK, GenerationsInOrder, CallsInTime
<1>2. ~shut[g]
  BY DEF Accept, MayAccept
<1>3. \A h \in Gens : h < g => shut[h]
  BY <1>1 DEF GenerationsInOrder, PoolState, Gens
<1>4. InOnePlace(t) /\ Pushed(a, t)
  BY <1>1 DEF OnePlace, Pushed, Accept
<1>5. t \in issued /\ t \notin Pool!Begun /\ t \notin Pool!Queued
  BY <1>1, <1>4, BegunAndQueued DEF InOnePlace
<1>6. /\ queue' = [queue EXCEPT ![g] = Append(@, t)]
      /\ UNCHANGED <<issued, finished, shut, task>>
  BY DEF Accept
<1>7. [h \in Gens |-> Running(h)]' = [h \in Gens |-> Running(h)]
  BY <1>6, RunningKept
<1> QED BY <1>1, <1>2, <1>3, <1>5, <1>6, <1>7 DEF Pool!Accept

\* A pop is a Begin: there is room, and the task was not begun before.
LEMMA TakeMaps ==
    ASSUME Inv, OnePlace, NEW w \in Workers, Take(w)
    PROVE  Pool!Begin(w[1])
PROOF
<1> DEFINE g == w[1]
           t == Head(queue[g])
<1>1. g \in Gens /\ queue[g] \in Seq(Tasks) /\ queue[g] # <<>> /\ pc[w] = "popping"
  BY WorkerParts DEF Take, Inv, TypeOK
<1>2. t \in Tasks /\ Queued(g, 1, t)
  BY <1>1 DEF Queued
<1>3. InOnePlace(t)
  BY <1>2 DEF OnePlace
<1>4. t \notin Pool!Begun
  BY <1>1, <1>2, <1>3, BegunAndQueued DEF InOnePlace
<1>5. Cardinality(Running(g)) < NumWorkers
  BY <1>1, RoomForOne
<1>6. /\ queue' = [queue EXCEPT ![g] = Tail(@)]
      /\ task' = [task EXCEPT ![w] = t]
      /\ issued' = issued /\ finished' = finished /\ shut' = shut
  BY DEF Take, history
<1>7. task[w] = NoTask /\ w \in Of(g) /\ task'[w] = t /\ t # NoTask
      /\ \A v \in Workers : v # w => task'[v] = task[v]
  BY <1>1, <1>2, <1>6, ThreadPoolAssumption DEF Of, Inv, TypeOK
<1>8. ASSUME NEW h \in Gens
      PROVE  Running(h)' = IF h = g THEN Running(g) \cup {t} ELSE Running(h)
  <2>1. \A v \in Of(h) : v \in Workers /\ (v # w => task'[v] = task[v])
    BY <1>7 DEF Of
  <2>2. CASE h = g
    BY <1>7, <2>1, <2>2 DEF Running, Of
  <2>3. CASE h # g
    BY <1>7, <2>1, <2>3 DEF Running, Of
  <2> QED BY <2>2, <2>3
<1>9. Pool!Cardinality([h \in Gens |-> Running(h)][g]) < NumWorkers
  BY <1>1, <1>5, SameCardinality
<1> QED BY <1>1, <1>4, <1>6, <1>8, <1>9 DEF Pool!Begin

\* The end of a task is a Finish: no other worker holds it.
LEMMA FinishMaps ==
    ASSUME Inv, OnePlace, NEW w \in Workers, Finish(w)
    PROVE  Pool!Finish(w[1], task[w])
PROOF
<1> DEFINE g == w[1]
           t == task[w]
<1>1. /\ pc[w] = "running" /\ task' = [task EXCEPT ![w] = NoTask]
      /\ finished' = finished \cup {t}
      /\ issued' = issued /\ queue' = queue /\ shut' = shut
  BY DEF Finish, Dropped
<1>2. g \in Gens /\ t \in Tasks /\ w \in Of(g) /\ t # NoTask
  BY <1>1, WorkerParts, ThreadPoolAssumption DEF Of, Inv, TypeOK
<1>3. \A v \in Workers : v # w => task'[v] = task[v] /\ task[v] # t
  BY <1>1, <1>2 DEF OnePlace, InOnePlace, Held, Inv, TypeOK
<1>4. task'[w] = NoTask
  BY <1>1 DEF Inv, TypeOK
<1> HIDE DEF t
<1>5. ASSUME NEW h \in Gens
      PROVE  Running(h)' = IF h = g THEN Running(g) \ {t} ELSE Running(h)
  <2>1. \A v \in Of(h) : v \in Workers
    BY DEF Of
  <2>2. CASE h = g
    BY <1>2, <1>3, <1>4, <2>1, <2>2 DEF Running, Of, t
  <2>3. CASE h # g
    BY <1>2, <1>3, <1>4, <2>1, <2>3 DEF Running, Of
  <2> QED BY <2>2, <2>3
<1>6. t \in Running(g)
  BY <1>2 DEF Running, t
<1> QED BY <1>1, <1>2, <1>5, <1>6 DEF Pool!Finish, t

\* stop, and a start that fails, shut a generation that was open.
LEMMA ShutMaps ==
    ASSUME Inv, HoldsLock, GenerationsInOrder, NEW a \in Agents, Stop(a) \/ StartCatches(a)
    PROVE  \E g \in Gens : Pool!Close(g)
PROOF
<1>1. started /\ Shuts(a)
  BY DEF Stop, StartCatches, HoldsLock
<1>2. generation \in Gens /\ ~shut[generation] /\ shut' = [shut EXCEPT ![generation] = TRUE]
      /\ UNCHANGED <<issued, queue, finished, task>>
  BY <1>1 DEF Shuts, Inv, TypeOK, GenerationsInOrder, PoolState, history
<1>3. [h \in Gens |-> Running(h)]' = [h \in Gens |-> Running(h)]
  BY <1>2, RunningKept
<1> QED BY <1>2, <1>3 DEF Pool!Close

\* Every step of the pool is a step of the executor, or none.
LEMMA StepMaps ==
    ASSUME Inv, HoldsLock, GenerationsInOrder, OnePlace, [Next]_vars
    PROVE  [Pool!Next]_(Pool!evars)
PROOF
<1>1. ASSUME NEW a \in Agents, NEW t \in Tasks, Submit(a, t) PROVE Pool!Next
  <2>1. t \notin issued /\ issued' = issued \cup {t} /\ UNCHANGED <<queue, finished, shut, task>>
    BY <1>1 DEF Submit, workerVars
  <2>2. [h \in Gens |-> Running(h)]' = [h \in Gens |-> Running(h)]
    BY <2>1, RunningKept
  <2>3. Pool!Issue(t)
    BY <2>1, <2>2 DEF Pool!Issue
  <2> QED BY <2>3 DEF Pool!Next
<1>2. ASSUME NEW a \in Agents, Accept(a) PROVE Pool!Next
  <2>1. call[a].gen \in Gens /\ call[a].task \in Tasks
    BY <1>2, CallParts DEF Accept, Inv
  <2> QED BY <1>2, <2>1, AcceptMaps DEF Pool!Next
<1>3. ASSUME NEW w \in Workers, Take(w) PROVE Pool!Next
  BY <1>3, TakeMaps, WorkerParts DEF Pool!Next
<1>4. ASSUME NEW w \in Workers, Finish(w) PROVE Pool!Next
  <2>1. task[w] \in Tasks /\ w[1] \in Gens
    BY <1>4, WorkerParts DEF Finish, Inv, TypeOK
  <2> QED BY <1>4, <2>1, FinishMaps DEF Pool!Next
<1>5. ASSUME NEW a \in Agents, Stop(a) \/ StartCatches(a) PROVE Pool!Next
  BY <1>5, ShutMaps DEF Pool!Next
<1>6. CASE \/ \E w \in Workers : Block(w) \/ Exit(w) \/ Sleep(w) \/ SpuriousWake(w)
           \/ UNCHANGED vars
           \/ \E a \in Agents : Start(a) \/ StopReturns(a) \/ Refuse(a) \/ RequestStop(a)
           \/ \E a \in Agents, k \in 0 .. NumWorkers - 1 : StartFails(a, k)
  <2>1. UNCHANGED <<issued, queue, finished, shut, task>>
    BY <1>6 DEF Block, Exit, Sleep, SpuriousWake, vars, Start, StartFails, Creates, StopReturns,
       Refuse, RequestStop, workerVars, history
  <2>2. [h \in Gens |-> Running(h)]' = [h \in Gens |-> Running(h)]
    BY <2>1, RunningKept
  <2> QED BY <2>1, <2>2 DEF Pool!evars
<1> QED BY <1>1, <1>2, <1>3, <1>4, <1>5, <1>6 DEF Next, CallerNext, WorkerNext, Pushes, Pops

\* The pool implements the executor, whatever its threads do.
THEOREM Refinement == Safe => ImplementsExecutor
PROOF
<1>1. Init => Pool!Init
  <2> SUFFICES ASSUME Init PROVE Pool!Init
    OBVIOUS
  <2>1. \A g \in Gens : Running(g) = {}
    BY DEF Init, Running, Of
  <2> QED BY <2>1 DEF Init, Pool!Init
<1>2. Inv /\ HoldsLock /\ GenerationsInOrder /\ OnePlace /\ [Next]_vars => [Pool!Next]_(Pool!evars)
  BY StepMaps
<1> QED BY <1>1, <1>2, Invariance, LockHeld, Generations, PlacesExclude, PTL
        DEF Safe, ImplementsExecutor, Pool!Spec
=============================================================================
