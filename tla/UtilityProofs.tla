--------------------------- MODULE UtilityProofs ---------------------------
(***************************************************************************)
(* The containers of vutil.h and vcache.h: blocking_queue loses no         *)
(* wake-up, for every number of poppers and calls, and the cache keeps its *)
(* contract, for every set of keys, width of int and depth of nesting.     *)
(***************************************************************************)
EXTENDS BlockingQueue, Cache, FiniteSetTheorems, TLAPS

TypeOK ==
    /\ d_queue \in Seq(Nat) /\ d_shutdown \in BOOLEAN
    /\ pc \in [Poppers -> {"out", "blocking", "waiting", "woken"}]
    /\ pushes \in Nat /\ throws \in Nat

\* Who is about to sleep saw the queue empty, and nobody has had the mutex since.
BlocksOnEmpty == At("blocking") # {} => d_queue = <<>>

Inv == TypeOK /\ BlocksOnEmpty /\ WakeupsSuffice

-----------------------------------------------------------------------------
\* The poppers at a point of pop can be counted.
LEMMA PoppersCounted ==
    ASSUME NEW S \in SUBSET Poppers
    PROVE  IsFiniteSet(S) /\ Cardinality(S) \in Nat
PROOF BY FS_Subset, FS_CardinalityType, QueueAssumption

\* With nothing queued, or nobody asleep, there is nothing to show.
LEMMA NothingOwed ==
    ASSUME TypeOK', d_queue' = <<>> \/ \A p \in Poppers : pc'[p] # "waiting"
    PROVE  WakeupsSuffice'
PROOF
<1>1. At("woken")' \in SUBSET Poppers
  BY DEF At
<1>2. Cardinality(At("woken")') \in Nat
  BY <1>1, PoppersCounted
<1>3. CASE d_queue' = <<>>
  BY <1>2, <1>3 DEF TypeOK, WakeupsSuffice
<1>4. CASE \A p \in Poppers : pc'[p] # "waiting"
  BY <1>4 DEF WakeupsSuffice, At
<1> QED BY <1>3, <1>4

\* A push wakes one popper for its item, unless none sleeps.
LEMMA PushCovered ==
    ASSUME Inv, Push
    PROVE  Inv'
PROOF
<1>1. LockFree /\ pushes' = pushes + 1 /\ throws' = throws /\ d_shutdown' = d_shutdown
  BY DEF Push, history
<1>2. CASE UNCHANGED <<d_queue, pc>>
  BY <1>1, <1>2 DEF Inv, TypeOK, BlocksOnEmpty, WakeupsSuffice, At
<1>3. CASE d_queue' = Append(d_queue, pushes + 1) /\ pc' \in WakeOne
  <2>1. d_queue' \in Seq(Nat) /\ Len(d_queue') = Len(d_queue) + 1 /\ Len(d_queue) \in Nat
    BY <1>3 DEF Inv, TypeOK
  <2>2. CASE At("waiting") = {}
    <3>1. pc' = pc
      BY <1>3, <2>2 DEF WakeOne
    <3>2. TypeOK' /\ BlocksOnEmpty'
      BY <1>1, <2>1, <3>1 DEF Inv, TypeOK, BlocksOnEmpty, LockFree, At
    <3> QED BY <2>2, <3>1, <3>2, NothingOwed DEF Inv, At
  <2>3. CASE At("waiting") # {}
    <3>1. PICK p \in At("waiting") : pc' = [pc EXCEPT ![p] = "woken"]
      BY <1>3, <2>3 DEF WakeOne
    <3>2. p \in Poppers /\ pc[p] = "waiting"
      BY <3>1 DEF At
    <3>3. TypeOK' /\ BlocksOnEmpty'
      BY <1>1, <2>1, <3>1, <3>2 DEF Inv, TypeOK, BlocksOnEmpty, LockFree, At
    <3>4. At("woken")' = At("woken") \cup {p} /\ p \notin At("woken")
      BY <3>1, <3>2 DEF At, Inv, TypeOK
    <3>5. At("woken") \in SUBSET Poppers
      BY DEF At
    <3>6. Cardinality(At("woken")') = Cardinality(At("woken")) + 1 /\ Cardinality(At("woken")) \in Nat
      BY <3>4, <3>5, PoppersCounted, FS_AddElement
    <3> QED BY SMTT(30), <1>1, <2>1, <2>3, <3>3, <3>6 DEF Inv, WakeupsSuffice, TypeOK
  <2> QED BY <2>2, <2>3
<1> QED BY <1>2, <1>3 DEF Push

\* A pop that takes an item, or wastes a wake-up on a copy that throws, is one awake
\* popper less for one item less, or is counted.
LEMMA PopCovered ==
    ASSUME Inv, NEW p \in Poppers, Pop(p)
    PROVE  Inv'
PROOF
<1>1. LockFree /\ pc[p] \in {"out", "woken"} /\ d_shutdown' = d_shutdown /\ pushes' = pushes
  BY DEF Pop
<1>2. CASE ~Ready(p) /\ pc' = [pc EXCEPT ![p] = "blocking"] /\ UNCHANGED <<d_queue, throws>>
  <2>1. d_queue' = <<>>
    BY <1>2 DEF Ready
  <2>2. TypeOK' /\ BlocksOnEmpty'
    BY <1>1, <1>2, <2>1 DEF Inv, TypeOK, BlocksOnEmpty
  <2> QED BY <2>1, <2>2, NothingOwed DEF Inv
<1>3. CASE pc' = [Told(p) EXCEPT ![p] = "out"]
  <2> DEFINE Takes == d_queue # <<>> /\ d_queue' = Tail(d_queue) /\ throws' = throws
             Throws == d_queue' = d_queue /\ throws' = throws + 1
             Leaves == d_queue = <<>> /\ d_queue' = d_queue /\ throws' = throws
  <2>1. Takes \/ Throws \/ Leaves
    <3>1. pc'[p] = "out"
      BY <1>3 DEF Told, WakeAll, Inv, TypeOK
    <3>2. ~(pc' = [pc EXCEPT ![p] = "blocking"])
      BY <3>1 DEF Inv, TypeOK
    <3> QED BY <3>2 DEF Pop
  <2>2. d_queue' \in Seq(Nat) /\ throws' \in Nat
    <3>1. d_queue \in Seq(Nat) /\ throws \in Nat
      BY DEF Inv, TypeOK
    <3>2. d_queue # <<>> => Tail(d_queue) \in Seq(Nat)
      BY <3>1
    <3> QED BY SMTT(30), <2>1, <3>1, <3>2
  <2>3. pc' \in [Poppers -> {"out", "blocking", "waiting", "woken"}]
    BY <1>3 DEF Told, WakeAll, Inv, TypeOK
  <2>4. \A q \in Poppers : pc'[q] # "blocking"
    BY <1>1, <1>3 DEF Told, WakeAll, LockFree, At, Inv, TypeOK
  <2>5. TypeOK' /\ BlocksOnEmpty'
    BY <1>1, <2>2, <2>3, <2>4 DEF Inv, TypeOK, BlocksOnEmpty, At
  <2>6. CASE Told(p) = WakeAll
    <3>1. \A q \in Poppers : pc'[q] # "waiting"
      BY <1>3, <2>6 DEF WakeAll, Inv, TypeOK
    <3> QED BY <2>5, <3>1, NothingOwed DEF Inv
  <2>7. CASE Told(p) = pc
    <3>1. pc' = [pc EXCEPT ![p] = "out"]
      BY <1>3, <2>7
    <3>2. At("waiting")' = At("waiting") /\ At("woken")' = At("woken") \ {p}
      BY <1>1, <3>1 DEF At, Inv, TypeOK
    <3>3. At("woken") \in SUBSET Poppers
      BY DEF At
    <3>4. Cardinality(At("woken")) \in Nat /\ Cardinality(At("woken")') \in Nat
          /\ Cardinality(At("woken")') >= Cardinality(At("woken")) - 1
      BY <3>2, <3>3, PoppersCounted, FS_RemoveElement, FS_CardinalityType
    <3>5. CASE Leaves
      BY <2>5, <3>5, NothingOwed DEF Inv
    <3>6. CASE Takes
      <4>1. Len(d_queue') = Len(d_queue) - 1 /\ Len(d_queue) \in Nat
        BY <3>6 DEF Inv, TypeOK
      <4> QED BY <2>5, <3>2, <3>4, <3>6, <4>1 DEF Inv, WakeupsSuffice, TypeOK
    <3>7. CASE Throws
      <4>1. Len(d_queue) \in Nat
        BY DEF Inv, TypeOK
      <4> QED BY <2>5, <3>2, <3>4, <3>7, <4>1 DEF Inv, WakeupsSuffice, TypeOK
    <3> QED BY <2>1, <3>5, <3>6, <3>7
  <2> QED BY <2>6, <2>7 DEF Told
<1> QED BY <1>2, <1>3 DEF Pop

\* Falling asleep needs an empty queue; a spurious wake-up is one more popper awake.
LEMMA SleepCovered ==
    ASSUME Inv, NEW p \in Poppers, Sleep(p) \/ WakesSpuriously(p)
    PROVE  Inv'
PROOF
<1>1. UNCHANGED <<queue, token, history>>
  BY DEF Sleep, WakesSpuriously
<1>2. CASE Sleep(p)
  <2>1. d_queue' = <<>>
    BY <1>1, <1>2 DEF Sleep, Inv, BlocksOnEmpty, At, queue
  <2>2. TypeOK' /\ BlocksOnEmpty'
    BY <1>1, <1>2, <2>1 DEF Sleep, Inv, TypeOK, BlocksOnEmpty, queue, history
  <2> QED BY <2>1, <2>2, NothingOwed DEF Inv
<1>3. CASE WakesSpuriously(p)
  <2>1. TypeOK' /\ BlocksOnEmpty'
    BY <1>1, <1>3 DEF WakesSpuriously, Inv, TypeOK, BlocksOnEmpty, At, queue, history
  <2>2. At("woken")' = At("woken") \cup {p} /\ p \notin At("woken") /\ At("waiting") # {}
    BY <1>3 DEF WakesSpuriously, At, Inv, TypeOK
  <2>3. At("woken") \in SUBSET Poppers
    BY DEF At
  <2>4. Cardinality(At("woken")') = Cardinality(At("woken")) + 1 /\ Cardinality(At("woken")) \in Nat
    BY <2>2, <2>3, PoppersCounted, FS_AddElement
  <2>5. Len(d_queue) \in Nat
    BY DEF Inv, TypeOK
  <2> QED BY <1>1, <2>1, <2>2, <2>4, <2>5 DEF Inv, WakeupsSuffice, TypeOK, queue, history
<1> QED BY <1>2, <1>3

\* The other operations change no item, and wake everybody or nobody.
LEMMA OthersCovered ==
    ASSUME Inv,
           \/ Shutdown \/ Reset \/ UNCHANGED vars
           \/ \E p \in Poppers : RequestStop(p) \/ RunCallback(p)
    PROVE  Inv'
PROOF
<1>1. d_queue' = d_queue /\ pushes' = pushes /\ throws' = throws /\ d_shutdown' \in BOOLEAN
  BY DEF Shutdown, Reset, vars, RequestStop, RunCallback, queue, history, Inv, TypeOK
<1>2. pc' = pc \/ pc' = WakeAll
  BY DEF Shutdown, Reset, vars, RequestStop, RunCallback
<1>3. TypeOK' /\ BlocksOnEmpty'
  BY <1>1, <1>2 DEF Inv, TypeOK, BlocksOnEmpty, At, WakeAll
<1>4. CASE pc' = WakeAll
  <2>1. \A p \in Poppers : pc'[p] # "waiting"
    BY <1>4 DEF WakeAll
  <2> QED BY <1>3, <2>1, NothingOwed DEF Inv
<1>5. CASE pc' = pc
  BY <1>1, <1>3, <1>5 DEF Inv, WakeupsSuffice, At
<1> QED BY <1>2, <1>4, <1>5

\* One notify_one per push is enough.
THEOREM WakeupsEnough == Spec => []WakeupsSuffice
PROOF
<1>1. Init => Inv
  <2> SUFFICES ASSUME Init PROVE Inv
    OBVIOUS
  <2>1. TypeOK
    <3>1. d_queue \in Seq(Nat)
      BY DEF Init
    <3>2. pc \in [Poppers -> {"out", "blocking", "waiting", "woken"}] /\ d_shutdown \in BOOLEAN
      BY DEF Init
    <3> QED BY <3>1, <3>2 DEF Init, TypeOK
  <2>2. At("blocking") = {} /\ At("waiting") = {}
    BY DEF Init, At
  <2> QED BY <2>1, <2>2 DEF Inv, BlocksOnEmpty, WakeupsSuffice
<1>2. Inv /\ [Next]_vars => Inv'
  BY PushCovered, PopCovered, SleepCovered, OthersCovered DEF Next
<1>3. Inv => WakeupsSuffice
  BY DEF Inv
<1> QED BY <1>1, <1>2, <1>3, PTL DEF Spec

-----------------------------------------------------------------------------
(* The cache.                                                              *)

Value == [id : Nat, key : Keys, time : Ticks, ttl : Ticks]
Get == [key : Keys, time : Ticks, found : SUBSET Value]

Types == loads \in Nat /\ calls \in Seq(Get) /\ refused \subseteq Value

\* What the map holds is what was loaded, may be kept, and was never refused.
EntriesTell == \A e \in values :
    /\ e.value \in Value /\ e.value.id <= loads /\ e.value \notin refused
    /\ e.key = e.value.key /\ e.inserted_at = e.value.time /\ e.ttl = e.value.ttl
    /\ e.ttl >= 0

RefusedAreOld == \A v \in refused : v.id <= loads

GetsHadTo == \A i \in 1 .. Len(calls) : \A v \in calls[i].found : ~Within(v, calls[i].time)

CacheInv == Types /\ EntriesTell /\ RefusedAreOld /\ GetsHadTo /\ CacheContract

-----------------------------------------------------------------------------
\* A remainder is the number itself if it is in range.
LEMMA Remainder == ASSUME NEW M \in Nat \ {0}, NEW x \in 0 .. M - 1 PROVE x % M = x
  BY SMTT(30)

\* And it wraps a negative number around.
LEMMA Wraps == ASSUME NEW M \in Nat \ {0}, NEW x \in 0 .. M - 1 PROVE (x - M) % M = x
  BY SMTT(30)

\* The comparison in unsigned arithmetic is exact for all ticks that int can hold,
\* also across zero and from one end of int to the other.
LEMMA ValidIsWithin ==
  ASSUME NEW i \in Ticks, NEW time \in Ticks, NEW ttl \in 0 .. Half - 1,
         NEW e, e.inserted_at = i, e.ttl = ttl
  PROVE  ValidAt(e, time) <=> i <= time /\ time - i <= ttl
<1> DEFINE M == 2 * Half
           U(x) == x % M
<1>1. Half \in Nat \ {0} /\ M \in Nat \ {0} /\ M = Half + Half
  BY CacheAssumption
<1>2. ASSUME NEW x \in Ticks PROVE U(x) = IF x >= 0 THEN x ELSE x + M
  <2>1. CASE x >= 0
    <3>1. x \in 0 .. M - 1
      BY <1>1, <2>1 DEF Ticks
    <3>2. QED  BY <1>1, <2>1, <3>1, Remainder
  <2>2. CASE x < 0
    <3>1. x + M \in 0 .. M - 1 /\ x = (x + M) - M
      BY <1>1, <2>2 DEF Ticks
    <3> HIDE DEF M
    <3>2. ((x + M) - M) % M = x + M
      BY <1>1, <3>1, Wraps
    <3>3. QED  BY <2>2, <3>1, <3>2 DEF Ticks
  <2>3. QED  BY <2>1, <2>2, <1>1 DEF Ticks
<1>3. ttl \in Ticks /\ U(ttl) = ttl
  BY <1>1, <1>2 DEF Ticks
<1>4. ASSUME i <= time PROVE U(U(time) - U(i)) = time - i
  <2>1. time - i \in 0 .. M - 1
    BY <1>1, <1>4 DEF Ticks
  <2>2. U(time) - U(i) \in {time - i, (time - i) - M}
    <3> HIDE DEF U, M
    <3>1. QED  BY <1>1, <1>2, <1>4 DEF Ticks
  <2> HIDE DEF M
  <2>3. QED  BY <1>1, <2>1, <2>2, Remainder, Wraps
<1>5. ValidAt(e, time) <=> time >= i /\ U(U(time) - U(i)) <= U(ttl)
  BY DEF ValidAt, Unsigned
<1> HIDE DEF U, M
<1>6. QED  BY <1>1, <1>3, <1>4, <1>5 DEF Ticks

\* What is in the map is valid exactly while it is within its TTL.
LEMMA EntryIsExact ==
  ASSUME EntriesTell, NEW e \in values, NEW time \in Ticks
  PROVE  ValidAt(e, time) <=> Within(e.value, time)
<1>1. /\ e.inserted_at \in Ticks /\ e.ttl \in 0 .. Half - 1
      /\ e.inserted_at = e.value.time /\ e.ttl = e.value.ttl
  BY CacheAssumption DEF EntriesTell, Value, Ticks
<1>2. QED  BY <1>1, ValidIsWithin DEF Within

-----------------------------------------------------------------------------
LEMMA InitInv == CacheInit => CacheInv
  BY DEF CacheInit, CacheInv, Types, EntriesTell, RefusedAreOld, GetsHadTo, CacheContract, Get

\* A hit returns an entry, which is valid and was not refused.
LEMMA HitKeeps ==
  ASSUME CacheInv, NEW k \in Keys, NEW time \in Ticks, Hit(k, time)
  PROVE  CacheInv'
<1>1. PICK e \in EntriesOf(k) :
        /\ ValidAt(e, time)
        /\ answer' = {[hit |-> TRUE, key |-> k, time |-> time, value |-> e.value, found |-> {}]}
        /\ UNCHANGED <<values, calls, loads, refused>>
  BY DEF Hit
<1>2. e \in values /\ e.key = k
  BY DEF EntriesOf
<1>3. Within(e.value, time) /\ e.value.key = k /\ e.value \notin refused
  BY <1>1, <1>2, EntryIsExact DEF CacheInv, EntriesTell
<1>4. CacheContract'
  BY <1>1, <1>3 DEF CacheContract, Within
<1>5. QED
  BY <1>1, <1>4 DEF CacheInv, Types, EntriesTell, RefusedAreOld, GetsHadTo, Within

\* A miss erases what it refuses, and refuses nothing that is within its TTL.
LEMMA MissKeeps ==
  ASSUME CacheInv, NEW k \in Keys, NEW time \in Ticks, Miss(k, time)
  PROVE  CacheInv'
<1> DEFINE found == {e.value : e \in EntriesOf(k)}
           get == [key |-> k, time |-> time, found |-> found]
<1>1. /\ \A e \in EntriesOf(k) : ~ValidAt(e, time)
      /\ refused' = refused \cup found
      /\ calls' = <<get>> \o calls
      /\ values' = values \ EntriesOf(k)
      /\ answer' = {} /\ loads' = loads
  BY DEF Miss
<1>2. \A v \in found : v \in Value /\ v.key = k /\ v.id <= loads /\ ~Within(v, time)
  BY <1>1, EntryIsExact DEF CacheInv, EntriesTell, EntriesOf
<1>3. get \in Get
  BY <1>2 DEF Get
<1>4. Types'
  <2>1. <<get>> \in Seq(Get)
    BY <1>3
  <2>2. QED  BY <1>1, <1>2, <2>1 DEF CacheInv, Types
<1>5. EntriesTell'
  BY <1>1, <1>2 DEF CacheInv, EntriesTell, EntriesOf
<1>6. RefusedAreOld'
  BY <1>1, <1>2 DEF CacheInv, RefusedAreOld
<1>7. GetsHadTo'
  <2> HIDE DEF get
  <2>1. Len(calls') = Len(calls) + 1
    BY <1>1 DEF CacheInv, Types
  <2>2. calls'[1] = get /\ \A i \in 2 .. Len(calls') : calls'[i] = calls[i - 1]
    BY <1>1, <2>1 DEF CacheInv, Types
  <2>3. ASSUME NEW i \in 1 .. Len(calls'), NEW v \in calls'[i].found
        PROVE  ~Within(v, calls'[i].time)
    <3>1. CASE i = 1
      BY <1>2, <2>2, <3>1 DEF get
    <3>2. CASE i # 1
      <4>1. i \in 2 .. Len(calls') /\ i - 1 \in 1 .. Len(calls)
        BY <2>1, <3>2 DEF CacheInv, Types
      <4>2. QED  BY <2>2, <2>3, <4>1 DEF CacheInv, GetsHadTo
    <3>3. QED  BY <3>1, <3>2
  <2>4. QED  BY <2>3 DEF GetsHadTo, Within
<1>8. CacheContract'
  BY <1>1 DEF CacheContract
<1>9. QED  BY <1>4, <1>5, <1>6, <1>7, <1>8 DEF CacheInv

\* The call that ends was the innermost, the others stay as they are.
LEMMA TailKeeps ==
  ASSUME CacheInv, calls # <<>>, calls' = Tail(calls)
  PROVE  calls' \in Seq(Get) /\ GetsHadTo' /\ Head(calls) \in Get
         /\ \A v \in Head(calls).found : ~Within(v, Head(calls).time)
<1>1. calls \in Seq(Get) /\ Len(calls) \in Nat \ {0} /\ Head(calls) = calls[1]
  BY DEF CacheInv, Types
<1>2. /\ calls' \in Seq(Get) /\ Len(calls') = Len(calls) - 1
      /\ \A i \in 1 .. Len(calls') : calls'[i] = calls[i + 1]
  BY <1>1
<1>3. \A i \in 1 .. Len(calls') : i + 1 \in 1 .. Len(calls)
  BY <1>1, <1>2
<1>4. GetsHadTo'
  BY <1>2, <1>3 DEF CacheInv, GetsHadTo, Within
<1>5. QED  BY <1>1, <1>2, <1>4 DEF CacheInv, GetsHadTo

\* What is loaded is new, so it was never refused, whether it is kept or not.
LEMMA LoadedKeeps ==
  ASSUME CacheInv, NEW ttl \in Ticks, Loaded(ttl)
  PROVE  CacheInv'
<1> DEFINE c == Head(calls)
           v == [id |-> loads + 1, key |-> c.key, time |-> c.time, ttl |-> ttl]
           new == [key |-> c.key, value |-> v, inserted_at |-> c.time, ttl |-> ttl]
<1>1. /\ calls # <<>> /\ calls' = Tail(calls)
      /\ values' = IF ttl >= 0 THEN Emplace(new) ELSE values
      /\ answer' = {[hit |-> FALSE, key |-> c.key, time |-> c.time, value |-> v, found |-> c.found]}
      /\ loads' = loads + 1 /\ refused' = refused
  BY DEF Loaded
<1>2. /\ calls' \in Seq(Get) /\ GetsHadTo' /\ c \in Get
      /\ \A w \in c.found : ~Within(w, c.time)
  BY <1>1, TailKeeps
<1>3. v \in Value /\ v.id = loads + 1 /\ v.key = c.key
  BY <1>2 DEF CacheInv, Types, Value, Get
<1>4. v \notin refused
  BY <1>3 DEF CacheInv, Types, RefusedAreOld
<1>5. Types'
  BY <1>1, <1>2 DEF CacheInv, Types
<1>6. EntriesTell'
  <2>1. ASSUME NEW e \in values' PROVE e \in values \/ (ttl >= 0 /\ e = new)
    BY <1>1 DEF Emplace
  <2>2. ASSUME NEW e \in values
        PROVE  /\ e.value \in Value /\ e.value.id <= loads + 1 /\ e.value \notin refused
               /\ e.key = e.value.key /\ e.inserted_at = e.value.time /\ e.ttl = e.value.ttl
               /\ e.ttl >= 0
    <3>1. e.value.id <= loads /\ e.value.id \in Nat /\ loads \in Nat
      BY DEF CacheInv, EntriesTell, Types, Value
    <3>2. QED  BY <3>1 DEF CacheInv, EntriesTell
  <2>3. /\ new.value = v /\ new.key = v.key /\ new.inserted_at = v.time /\ new.ttl = v.ttl
        /\ new.ttl = ttl /\ v.id <= loads + 1
    BY <1>3 DEF CacheInv, Types
  <2> HIDE DEF v, new
  <2>4. QED  BY <1>1, <1>3, <1>4, <2>1, <2>2, <2>3 DEF EntriesTell
<1>7. RefusedAreOld'
  BY <1>1 DEF CacheInv, Types, RefusedAreOld, Value
<1>8. CacheContract'
  <2> HIDE DEF v, c
  <2>1. QED  BY <1>1, <1>2, <1>3 DEF CacheContract, Within
<1>9. QED  BY <1>2, <1>5, <1>6, <1>7, <1>8 DEF CacheInv

LEMMA LoadFailsKeeps ==
  ASSUME CacheInv, LoadFails
  PROVE  CacheInv'
<1>1. /\ calls # <<>> /\ calls' = Tail(calls) /\ answer' = {}
      /\ UNCHANGED <<values, loads, refused>>
  BY DEF LoadFails
<1>2. calls' \in Seq(Get) /\ GetsHadTo'
  BY <1>1, TailKeeps
<1>3. QED
  BY <1>1, <1>2 DEF CacheInv, Types, EntriesTell, RefusedAreOld, CacheContract

\* README.md on vcache.h, for every width of int: a hit is of that key, within its TTL
\* and was never refused, and a load had nothing within its TTL to return.
THEOREM ContractHolds == CacheSpec => []CacheContract
<1>1. CacheInit => CacheInv
  BY InitInv
<1>2. CacheInv /\ [CacheNext]_cacheVars => CacheInv'
  <2> SUFFICES ASSUME CacheInv, [CacheNext]_cacheVars PROVE CacheInv'
    OBVIOUS
  <2>1. ASSUME NEW k \in Keys, NEW time \in Ticks, Hit(k, time) \/ Miss(k, time) PROVE CacheInv'
    BY <2>1, HitKeeps, MissKeeps
  <2>2. ASSUME NEW ttl \in Ticks, Loaded(ttl) PROVE CacheInv'
    BY <2>2, LoadedKeeps
  <2>3. CASE LoadFails
    BY <2>3, LoadFailsKeeps
  <2>4. CASE UNCHANGED cacheVars
    BY <2>4 DEF cacheVars, CacheInv, Types, EntriesTell, RefusedAreOld, GetsHadTo, CacheContract, Within
  <2>5. QED  BY <2>1, <2>2, <2>3, <2>4 DEF CacheNext
<1>3. CacheInv => CacheContract
  BY DEF CacheInv
<1>4. QED  BY <1>1, <1>2, <1>3, PTL DEF CacheSpec
=============================================================================
