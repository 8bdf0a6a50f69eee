-------------------------- MODULE SqlResultQueueProofs --------------------------
(***************************************************************************)
(* Proofs about SqlResultQueue, for any number of callbacks and of threads  *)
(* in the pool, with and without a timeout.                                 *)
(*                                                                          *)
(* IInv is inductive.  Callbacks get their numbers as they are added; the   *)
(* queue holds them in this order and behind all those that were taken out  *)
(* (QueuesOrdered, Taken), so that the head of the queue is new to every    *)
(* place it can go to.  TickState says that the pool is busy only between   *)
(* processWorkload and job.wait.                                            *)
(***************************************************************************)
EXTENDS SqlResultQueue, TLAPS

USE DEF poolVars, vars, Pool!pvars

-----------------------------------------------------------------------------
(* Sequences as queues. *)

(* add() puts one element into a LockedQueue. *)
LEMMA Appended ==
    ASSUME NEW q \in Seq(Callback), NEW cb \in Callback
    PROVE  /\ Append(q, cb) \in Seq(Callback)
           /\ DOMAIN q = 1 .. Len(q) /\ Len(q) \in Nat
           /\ DOMAIN Append(q, cb) = 1 .. Len(q) + 1
           /\ \A i \in DOMAIN q : Append(q, cb)[i] = q[i]
           /\ Append(q, cb)[Len(q) + 1] = cb
OBVIOUS

(* Its elements are callbacks. *)
LEMMA ElementType ==
    ASSUME NEW q \in Seq(Callback)
    PROVE  \A i \in DOMAIN q : i \in Nat /\ q[i] \in Callback /\ q[i].id \in Nat
<1>1. \A i \in DOMAIN q : i \in Nat /\ q[i] \in Callback
  OBVIOUS
<1>2. \A cb \in Callback : cb.id \in Nat
  BY DEF Callback, Ids
<1>3. QED BY <1>1, <1>2

(* next() takes the first element out of it. *)
LEMMA HeadTaken ==
    ASSUME NEW q \in Seq(Callback), q # <<>>
    PROVE  /\ Head(q) \in Callback /\ Head(q) = q[1] /\ 1 \in DOMAIN q
           /\ Tail(q) \in Seq(Callback)
           /\ \A i \in DOMAIN Tail(q) :
                 i \in Nat /\ i >= 1 /\ i + 1 \in DOMAIN q /\ 1 < i + 1 /\ Tail(q)[i] = q[i + 1]
<1>1. /\ Len(q) \in Nat /\ Len(q) >= 1 /\ DOMAIN q = 1 .. Len(q)
      /\ DOMAIN Tail(q) = 1 .. Len(q) - 1
  OBVIOUS
<1>2. \A i \in 1 .. Len(q) - 1 : Tail(q)[i] = q[i + 1]
  OBVIOUS
<1>3. Head(q) \in Callback /\ Head(q) = q[1] /\ Tail(q) \in Seq(Callback)
  OBVIOUS
<1>4. QED BY <1>1, <1>2, <1>3

(* The rest of a numbered sequence is numbered, beyond its head. *)
LEMMA TailNumbered ==
    ASSUME NEW q \in Seq(Callback), q # <<>>, Numbered(q), added \in Nat
    PROVE  /\ Numbered(Tail(q))
           /\ \A i \in DOMAIN Tail(q) : Head(q).id < Tail(q)[i].id
           /\ Head(q).id <= added
<1>1. \A i \in DOMAIN q : i \in Nat /\ q[i].id \in Nat
  BY ElementType
<1>2. \A i \in DOMAIN Tail(q) :
         i \in Nat /\ i + 1 \in DOMAIN q /\ 1 < i + 1 /\ Tail(q)[i] = q[i + 1]
  BY HeadTaken
<1>3. Head(q) = q[1] /\ 1 \in DOMAIN q
  BY HeadTaken
<1>4. \A i, j \in DOMAIN Tail(q) : i < j => Tail(q)[i].id < Tail(q)[j].id
  BY <1>2 DEF Numbered
<1>5. \A i \in DOMAIN Tail(q) : Tail(q)[i].id <= added
  BY <1>2 DEF Numbered
<1>6. QED BY <1>2, <1>3, <1>4, <1>5 DEF Numbered

(* A callback with a larger number goes to its end. *)
LEMMA AppendNumbered ==
    ASSUME NEW q \in Seq(Callback), NEW cb \in Callback, Numbered(q), cb.id <= added,
           \A i \in DOMAIN q : q[i].id < cb.id
    PROVE  Numbered(Append(q, cb))
BY Appended DEF Numbered

(* What has run is in no queue and in no thread's hands. *)
LEMMA FinishedElsewhere ==
    ASSUME TypeOK, TickState, FinishedOnce
    PROVE  Elems(finished) \cap
              (Elems(queue) \cup Elems(waitingQueries) \cup tasks \cup active) = {}
<1>1. \A i \in DOMAIN finished, j \in DOMAIN queue : finished[i] # queue[j]
  <2>1. \A i \in DOMAIN finished : finished[i].id \in Nat
    BY ElementType DEF TypeOK
  <2>2. QED BY <2>1 DEF FinishedOnce
<1>2. active \subseteq InPool
  BY DEF TickState, InPool
<1>3. \A i \in DOMAIN finished : finished[i] \notin tasks \cup active
  BY <1>2 DEF FinishedOnce
<1>4. \A i \in DOMAIN finished, j \in DOMAIN waitingQueries : finished[i] # waitingQueries[j]
  BY DEF FinishedOnce
<1>5. QED BY <1>1, <1>3, <1>4 DEF Elems

(* A callback that had not run and, unless it is thread safe, was added     *)
(* after those that have, may be the next one to run.                       *)
LEMMA FinishNext ==
    ASSUME TypeOK, CallbackOnce, UnsafeCallbackOrder, NEW cb \in Callback,
           finished' = Append(finished, cb),
           \A i \in DOMAIN finished : finished[i] # cb,
           ~cb.threadSafe => \A i \in DOMAIN finished :
                                ~finished[i].threadSafe => finished[i].id < cb.id,
           TypeOK', TickState', FinishedOnce'
    PROVE  CallbackOnce' /\ UnsafeCallbackOrder'
<1>1. /\ DOMAIN finished = 1 .. Len(finished) /\ Len(finished) \in Nat
      /\ DOMAIN finished' = 1 .. Len(finished) + 1
      /\ \A i \in DOMAIN finished : finished'[i] = finished[i]
      /\ finished'[Len(finished) + 1] = cb
  BY Appended DEF TypeOK
<1>2. \A i, j \in DOMAIN finished' : finished'[i] = finished'[j] => i = j
  BY <1>1 DEF CallbackOnce
<1>3. (Elems(finished) \cap
          (Elems(queue) \cup Elems(waitingQueries) \cup tasks \cup active) = {})'
  BY FinishedElsewhere, PTL
<1>4. UnsafeCallbackOrder'
  BY <1>1 DEF UnsafeCallbackOrder
<1>5. QED BY <1>2, <1>3, <1>4 DEF CallbackOnce

(* While nothing runs to its end, what has run stays run once and in order. *)
LEMMA NothingFinished ==
    ASSUME CallbackOnce, UnsafeCallbackOrder, finished' = finished,
           TypeOK', TickState', FinishedOnce'
    PROVE  CallbackOnce' /\ UnsafeCallbackOrder'
<1>1. (Elems(finished) \cap
          (Elems(queue) \cup Elems(waitingQueries) \cup tasks \cup active) = {})'
  BY FinishedElsewhere, PTL
<1>2. QED BY <1>1 DEF CallbackOnce, UnsafeCallbackOrder
-----------------------------------------------------------------------------
(* The database is initialized. *)
LEMMA InitInvariant == Init => IInv
<1> SUFFICES ASSUME Init PROVE IInv
  OBVIOUS
<1> USE DEF Init, Pool!PoolInit
<1>1. TypeOK
  <2>1. added \in 0 .. MaxCallbacks
    BY BoundAssumption
  <2>2. queue \in Seq(Callback) /\ waitingQueries \in Seq(Callback) /\ finished \in Seq(Callback)
    OBVIOUS
  <2>3. QED BY <2>1, <2>2 DEF TypeOK
<1>2. TickState
  BY DEF TickState
<1>3. QueuesOrdered /\ Taken /\ FinishedOnce
  BY DEF QueuesOrdered, Taken, FinishedOnce, Numbered, InPool
<1>4. CallbackOnce /\ UnsafeCallbackOrder
  BY DEF CallbackOnce, UnsafeCallbackOrder, Elems
<1>5. QED BY <1>1, <1>2, <1>3, <1>4 DEF IInv

(* No step breaks a type or the state of the tick. *)
LEMMA StepType == TypeOK /\ TickState /\ [Next]_vars => TypeOK' /\ TickState'
<1> SUFFICES ASSUME TypeOK, TickState, [Next]_vars PROVE TypeOK' /\ TickState'
  OBVIOUS
<1> USE DEF TypeOK, TickState
<1>1. ASSUME NEW safe \in BOOLEAN, AddCallback(safe) PROVE TypeOK' /\ TickState'
  <2>1. [id |-> added + 1, threadSafe |-> safe] \in Callback /\ added + 1 \in 0 .. MaxCallbacks
    BY <1>1, BoundAssumption DEF AddCallback, Callback, Ids
  <2>2. queue' \in Seq(Callback)
    BY <1>1, <2>1, Appended DEF AddCallback
  <2>3. QED BY <1>1, <2>1, <2>2 DEF AddCallback
<1>2. CASE Update
  BY <1>2 DEF Update
<1>3. CASE Drain
  <2>1. Head(queue) \in Callback /\ Tail(queue) \in Seq(Callback)
    BY <1>3, HeadTaken DEF Drain
  <2>2. Append(waitingQueries, Head(queue)) \in Seq(Callback)
    BY <2>1, Appended
  <2>3. \/ waitingQueries' = waitingQueries /\ tasks' = tasks \cup {Head(queue)}
        \/ waitingQueries' = Append(waitingQueries, Head(queue)) /\ tasks' = tasks
    BY <1>3 DEF Drain
  <2>4. QED BY <1>3, <2>1, <2>2, <2>3 DEF Drain
<1>4. CASE ProcessWorkload
  BY <1>4 DEF ProcessWorkload, Pool!Process
<1>5. CASE ExecuteUnsafe
  <2>1. Head(waitingQueries) \in Callback /\ Tail(waitingQueries) \in Seq(Callback)
    BY <1>5, HeadTaken DEF ExecuteUnsafe
  <2>2. finished' \in Seq(Callback) /\ pc' \in {"unsafe", "wait"}
    BY <1>5, <2>1, Appended DEF ExecuteUnsafe
  <2>3. QED BY <1>5, <2>1, <2>2 DEF ExecuteUnsafe
<1>6. CASE UnsafeDone
  BY <1>6 DEF UnsafeDone
<1>7. CASE WaitJob
  BY <1>7 DEF WaitJob, Pool!Return
<1>8. ASSUME NEW cb \in Callback, BeginSafe(cb) PROVE TypeOK' /\ TickState'
  BY <1>8 DEF BeginSafe, Pool!Begin
<1>9. ASSUME NEW cb \in Callback, EndSafe(cb) PROVE TypeOK' /\ TickState'
  <2>1. finished' \in Seq(Callback)
    BY <1>9, Appended DEF EndSafe
  <2>2. QED BY <1>9, <2>1 DEF EndSafe, Pool!End
<1>10. CASE StopServer
  BY <1>10 DEF StopServer
<1>11. CASE DelayThreadsHalted
  BY <1>11 DEF DelayThreadsHalted
<1>12. CASE CancelAll
  <2>1. CASE queue = <<>>
    BY <1>12, <2>1 DEF CancelAll
  <2>2. CASE queue # <<>>
    <3>1. Head(queue) \in Callback /\ Tail(queue) \in Seq(Callback)
      BY <2>2, HeadTaken
    <3>2. finished' \in Seq(Callback)
      BY <1>12, <2>2, <3>1, Appended DEF CancelAll
    <3>3. QED BY <1>12, <2>2, <3>1, <3>2 DEF CancelAll
  <2>3. QED BY <2>1, <2>2
<1>13. CASE UNCHANGED vars
  BY <1>13
<1>14. QED
  BY <1>1, <1>2, <1>3, <1>4, <1>5, <1>6, <1>7, <1>8, <1>9, <1>10, <1>11, <1>12, <1>13
  DEF Next, WorldThread, PoolThread, Terminated

-----------------------------------------------------------------------------
(* What each step does to the invariant. *)

(* A new callback has a number above all others. *)
LEMMA AddInvariant ==
    ASSUME IInv, NEW safe \in BOOLEAN, AddCallback(safe)
    PROVE  IInv'
<1> DEFINE cb == [id |-> added + 1, threadSafe |-> safe]
<1>1. TypeOK' /\ TickState'
  BY StepType DEF IInv, Next
<1>2. /\ cb \in Callback /\ cb.id = added + 1 /\ queue \in Seq(Callback) /\ added \in Nat
      /\ queue' = Append(queue, cb) /\ added' = added + 1
      /\ UNCHANGED <<server, waitingQueries, tasks, finished, poolVars>>
  <2>1. added \in Nat /\ added < MaxCallbacks /\ queue \in Seq(Callback)
    BY BoundAssumption DEF IInv, TypeOK, AddCallback
  <2>2. QED BY <2>1, BoundAssumption DEF AddCallback, Callback, Ids
<1>3. /\ DOMAIN queue = 1 .. Len(queue) /\ Len(queue) \in Nat
      /\ DOMAIN queue' = 1 .. Len(queue) + 1
      /\ \A i \in DOMAIN queue : queue'[i] = queue[i]
      /\ queue'[Len(queue) + 1] = cb
  BY <1>2, Appended
<1>4. /\ \A i \in DOMAIN queue : queue[i].id \in Nat
      /\ \A i \in DOMAIN waitingQueries : waitingQueries[i].id \in Nat
      /\ \A i \in DOMAIN finished : finished[i].id \in Nat
      /\ \A c \in tasks \cup InPool : c.id \in Nat
  <2>1. \A c \in Callback : c.id \in Nat
    BY DEF Callback, Ids
  <2>2. QED BY <2>1, ElementType DEF IInv, TypeOK, InPool
<1>5. QueuesOrdered'
  BY <1>2, <1>3, <1>4 DEF IInv, QueuesOrdered, Numbered
<1>6. Taken'
  <2>1. InPool' = InPool
    BY <1>2 DEF InPool
  <2>2. QED BY <1>2, <1>3, <1>4, <2>1 DEF IInv, Taken
<1>7. FinishedOnce'
  <2>1. InPool' = InPool
    BY <1>2 DEF InPool
  <2>2. QED BY <1>2, <1>3, <1>4, <2>1 DEF IInv, FinishedOnce
<1>8. CallbackOnce' /\ UnsafeCallbackOrder'
  BY <1>1, <1>2, <1>7, NothingFinished DEF IInv
<1>9. QED BY <1>1, <1>5, <1>6, <1>7, <1>8 DEF IInv

(* The head of the queue goes behind what waits, or to the tasks. *)
LEMMA DrainInvariant == IInv /\ Drain => IInv'
<1> SUFFICES ASSUME IInv, Drain PROVE IInv'
  OBVIOUS
<1> DEFINE cb == Head(queue)
<1>1. TypeOK' /\ TickState'
  BY StepType DEF IInv, Next, WorldThread
<1>2. /\ queue \in Seq(Callback) /\ queue # <<>> /\ queue' = Tail(queue) /\ pc = "drain"
      /\ waitingQueries \in Seq(Callback) /\ added \in Nat
      /\ UNCHANGED <<server, added, finished, poolVars>>
  BY DEF IInv, TypeOK, Drain
<1>3. /\ cb \in Callback /\ cb = queue[1] /\ 1 \in DOMAIN queue
      /\ \A i \in DOMAIN queue' : i + 1 \in DOMAIN queue /\ queue'[i] = queue[i + 1]
  BY <1>2, HeadTaken
<1>4. /\ Numbered(queue')
      /\ \A i \in DOMAIN queue' : cb.id < queue'[i].id
      /\ cb.id <= added
  BY <1>2, TailNumbered DEF IInv, QueuesOrdered
<1>5. InPool' = InPool /\ InPool = {}
  BY <1>2 DEF InPool, IInv, TickState
<1>6. CASE cb.threadSafe
  <2>1. tasks' = tasks \cup {cb} /\ waitingQueries' = waitingQueries
    BY <1>6 DEF Drain
  <2>2. QueuesOrdered'
    BY <1>2, <1>3, <1>4, <2>1 DEF IInv, QueuesOrdered, Numbered
  <2>3. Taken'
    BY <1>2, <1>3, <1>4, <1>5, <1>6, <2>1 DEF IInv, Taken
  <2>4. FinishedOnce'
    <3>1. \A i \in DOMAIN finished : finished[i] # cb
      <4>1. \A i \in DOMAIN finished : finished[i].id < cb.id /\ finished[i].id \in Nat
        BY <1>2, <1>3, ElementType DEF IInv, FinishedOnce, TypeOK
      <4>2. QED BY <4>1
    <3>2. QED BY <1>2, <1>3, <1>5, <2>1, <3>1 DEF IInv, FinishedOnce
  <2>5. QED BY <1>1, <1>2, <2>2, <2>3, <2>4, NothingFinished DEF IInv
<1>7. CASE ~cb.threadSafe
  <2>1. tasks' = tasks /\ waitingQueries' = Append(waitingQueries, cb)
    BY <1>7 DEF Drain
  <2>2. /\ DOMAIN waitingQueries = 1 .. Len(waitingQueries) /\ Len(waitingQueries) \in Nat
        /\ DOMAIN waitingQueries' = 1 .. Len(waitingQueries) + 1
        /\ \A i \in DOMAIN waitingQueries : waitingQueries'[i] = waitingQueries[i]
        /\ waitingQueries'[Len(waitingQueries) + 1] = cb
    BY <1>2, <1>3, <2>1, Appended
  <2>3. QueuesOrdered'
    <3>1. Numbered(waitingQueries')
      BY <1>2, <1>3, <1>4, <2>1, AppendNumbered DEF IInv, QueuesOrdered
    <3>2. \A i \in DOMAIN waitingQueries' : ~waitingQueries'[i].threadSafe
      BY <1>7, <2>2 DEF IInv, QueuesOrdered
    <3>3. \A i \in DOMAIN waitingQueries', j \in DOMAIN queue' :
             waitingQueries'[i].id < queue'[j].id
      BY <1>3, <1>4, <2>2 DEF IInv, QueuesOrdered
    <3>4. QED BY <1>2, <1>4, <3>1, <3>2, <3>3 DEF QueuesOrdered, Numbered
  <2>4. Taken'
    BY <1>2, <1>3, <1>5, <2>1 DEF IInv, Taken
  <2>5. FinishedOnce'
    <3>1. \A i \in DOMAIN finished : finished[i].id < cb.id /\ finished[i] # cb
      <4>1. \A i \in DOMAIN finished : finished[i].id < cb.id /\ finished[i].id \in Nat
        BY <1>2, <1>3, ElementType DEF IInv, FinishedOnce, TypeOK
      <4>2. QED BY <4>1
    <3>2. QED BY <1>2, <1>3, <1>5, <2>1, <2>2, <3>1 DEF IInv, FinishedOnce
  <2>6. QED BY <1>1, <1>2, <2>3, <2>4, <2>5, NothingFinished DEF IInv
<1>8. QED BY <1>6, <1>7
(* The collected tasks become the workload of the pool. *)
LEMMA ProcessInvariant == IInv /\ ProcessWorkload => IInv'
<1> SUFFICES ASSUME IInv, ProcessWorkload PROVE IInv'
  OBVIOUS
<1>1. TypeOK' /\ TickState'
  BY StepType DEF IInv, Next, WorldThread
<1>2. tasks' \cup InPool' = tasks \cup InPool /\ tasks' = {}
  BY DEF ProcessWorkload, Pool!Process, InPool, IInv, TickState
<1>3. UNCHANGED <<server, added, queue, waitingQueries, finished>>
  BY DEF ProcessWorkload
<1>4. QueuesOrdered' /\ Taken' /\ FinishedOnce'
  BY <1>2, <1>3 DEF IInv, QueuesOrdered, Numbered, Taken, FinishedOnce
<1>5. QED BY <1>1, <1>3, <1>4, NothingFinished DEF IInv

(* The first of those that wait runs on the world thread. *)
LEMMA ExecuteUnsafeInvariant == IInv /\ ExecuteUnsafe => IInv'
<1> SUFFICES ASSUME IInv, ExecuteUnsafe PROVE IInv'
  OBVIOUS
<1> DEFINE cb == Head(waitingQueries)
<1>1. TypeOK' /\ TickState'
  BY StepType DEF IInv, Next, WorldThread
<1>2. /\ waitingQueries \in Seq(Callback) /\ waitingQueries # <<>>
      /\ waitingQueries' = Tail(waitingQueries) /\ finished' = Append(finished, cb)
      /\ finished \in Seq(Callback) /\ server = "up" /\ added \in Nat
      /\ UNCHANGED <<server, added, queue, tasks, poolVars>>
  BY DEF IInv, TypeOK, TickState, ExecuteUnsafe
<1>3. /\ cb \in Callback /\ cb = waitingQueries[1] /\ 1 \in DOMAIN waitingQueries
      /\ \A i \in DOMAIN waitingQueries' :
            i + 1 \in DOMAIN waitingQueries /\ waitingQueries'[i] = waitingQueries[i + 1]
  BY <1>2, HeadTaken
<1>4. /\ Numbered(waitingQueries')
      /\ \A i \in DOMAIN waitingQueries' : cb.id < waitingQueries'[i].id
      /\ cb.id <= added
  BY <1>2, TailNumbered DEF IInv, QueuesOrdered
<1>5. /\ DOMAIN finished = 1 .. Len(finished) /\ Len(finished) \in Nat
      /\ DOMAIN finished' = 1 .. Len(finished) + 1
      /\ \A i \in DOMAIN finished : finished'[i] = finished[i]
      /\ finished'[Len(finished) + 1] = cb
  BY <1>2, <1>3, Appended
<1>6. InPool' = InPool
  BY <1>2 DEF InPool
<1>7. QueuesOrdered' /\ Taken'
  BY <1>2, <1>3, <1>4, <1>6 DEF IInv, QueuesOrdered, Numbered, Taken
<1>8. FinishedOnce'
  <2>1. cb \notin tasks \cup InPool
    BY <1>3 DEF IInv, QueuesOrdered, Taken
  <2>2. \A j \in DOMAIN waitingQueries' : cb # waitingQueries'[j]
    <3>1. cb.id \in Nat
      BY <1>3 DEF Callback, Ids
    <3>2. QED BY <1>4, <3>1
  <2>3. \A i \in DOMAIN finished' : finished'[i] = cb \/ i \in DOMAIN finished
    BY <1>5
  <2>4. \A i \in DOMAIN finished' : finished'[i].id <= added'
    BY <1>2, <1>4, <1>5, <2>3 DEF IInv, FinishedOnce
  <2>5. \A i \in DOMAIN finished' : finished'[i] \notin tasks' \cup InPool'
    BY <1>2, <1>5, <1>6, <2>1, <2>3 DEF IInv, FinishedOnce
  <2>6. \A i \in DOMAIN finished', j \in DOMAIN queue' : finished'[i].id < queue'[j].id
    BY <1>2, <1>3, <1>5, <2>3 DEF IInv, FinishedOnce, QueuesOrdered
  <2>7. ASSUME NEW i \in DOMAIN finished', NEW j \in DOMAIN waitingQueries'
        PROVE  /\ finished'[i] # waitingQueries'[j]
               /\ ~finished'[i].threadSafe => finished'[i].id < waitingQueries'[j].id
    <3>1. CASE finished'[i] = cb
      BY <1>4, <2>2, <3>1
    <3>2. CASE i \in DOMAIN finished
      BY <1>2, <1>3, <1>5, <3>2 DEF IInv, FinishedOnce
    <3>3. QED BY <2>3, <3>1, <3>2
  <2>8. QED BY <2>4, <2>5, <2>6, <2>7 DEF FinishedOnce
<1>9. \A i \in DOMAIN finished :
         finished[i] # cb /\ (~finished[i].threadSafe => finished[i].id < cb.id)
  BY <1>2, <1>3 DEF IInv, FinishedOnce
<1>10. CallbackOnce' /\ UnsafeCallbackOrder'
  BY <1>1, <1>2, <1>3, <1>8, <1>9, FinishNext DEF IInv
<1>11. QED BY <1>1, <1>7, <1>8, <1>10 DEF IInv

(* A task of the pool returns. *)
LEMMA EndSafeInvariant ==
    ASSUME IInv, NEW cb \in Callback, EndSafe(cb)
    PROVE  IInv'
<1>1. TypeOK' /\ TickState'
  BY StepType DEF IInv, Next, PoolThread
<1>2. /\ cb \in active /\ waiting /\ cb \in InPool /\ finished' = Append(finished, cb)
      /\ finished \in Seq(Callback)
      /\ UNCHANGED <<server, added, queue, waitingQueries, tasks>>
  BY DEF IInv, TypeOK, TickState, InPool, EndSafe, Pool!End
<1>3. InPool' = InPool \ {cb}
  BY <1>2 DEF InPool, EndSafe, Pool!End
<1>4. /\ DOMAIN finished = 1 .. Len(finished) /\ Len(finished) \in Nat
      /\ DOMAIN finished' = 1 .. Len(finished) + 1
      /\ \A i \in DOMAIN finished : finished'[i] = finished[i]
      /\ finished'[Len(finished) + 1] = cb
  BY <1>2, Appended
<1>5. /\ cb.threadSafe /\ cb.id <= added /\ cb \notin tasks
      /\ \A j \in DOMAIN queue : cb.id < queue[j].id
  BY <1>2 DEF IInv, Taken
<1>6. QueuesOrdered' /\ Taken'
  BY <1>2, <1>3 DEF IInv, QueuesOrdered, Numbered, Taken
<1>7. FinishedOnce'
  <2>1. \A i \in DOMAIN finished' :
           \/ finished'[i] = cb
           \/ i \in DOMAIN finished /\ finished'[i] = finished[i]
    BY <1>4
  <2>2. \A j \in DOMAIN waitingQueries : cb # waitingQueries[j]
    BY <1>5 DEF IInv, QueuesOrdered
  <2>3. \A i \in DOMAIN finished' : finished'[i].id <= added'
    BY <1>2, <1>5, <2>1 DEF IInv, FinishedOnce
  <2>4. \A i \in DOMAIN finished' : finished'[i] \notin tasks' \cup InPool'
    BY <1>2, <1>3, <1>5, <2>1 DEF IInv, FinishedOnce
  <2>5. \A i \in DOMAIN finished', j \in DOMAIN queue' : finished'[i].id < queue'[j].id
    BY <1>2, <1>5, <2>1 DEF IInv, FinishedOnce
  <2>6. ASSUME NEW i \in DOMAIN finished', NEW j \in DOMAIN waitingQueries'
        PROVE  /\ finished'[i] # waitingQueries'[j]
               /\ server' = "up" /\ ~finished'[i].threadSafe
                  => finished'[i].id < waitingQueries'[j].id
    <3>1. CASE finished'[i] = cb
      BY <1>2, <1>5, <2>2, <3>1
    <3>2. CASE i \in DOMAIN finished /\ finished'[i] = finished[i]
      BY <1>2, <3>2 DEF IInv, FinishedOnce
    <3>3. QED BY <2>1, <3>1, <3>2
  <2>7. QED BY <2>3, <2>4, <2>5, <2>6 DEF FinishedOnce
<1>8. \A i \in DOMAIN finished : finished[i] # cb
  BY <1>2 DEF IInv, FinishedOnce
<1>9. CallbackOnce' /\ UnsafeCallbackOrder'
  BY <1>1, <1>2, <1>5, <1>7, <1>8, FinishNext DEF IInv
<1>10. QED BY <1>1, <1>6, <1>7, <1>9 DEF IInv

(* At the end the head of the queue runs with a null result. *)
LEMMA CancelInvariant == IInv /\ CancelAll /\ queue # <<>> => IInv'
<1> SUFFICES ASSUME IInv, CancelAll, queue # <<>> PROVE IInv'
  OBVIOUS
<1> DEFINE cb == Head(queue)
<1>1. TypeOK' /\ TickState'
  BY StepType DEF IInv, Next
<1>2. /\ queue \in Seq(Callback) /\ queue' = Tail(queue) /\ finished' = Append(finished, cb)
      /\ finished \in Seq(Callback) /\ server = "cancel" /\ added \in Nat
      /\ waitingQueries \in Seq(Callback)
      /\ UNCHANGED <<server, added, waitingQueries, tasks, poolVars>>
  BY DEF IInv, TypeOK, CancelAll
<1>3. /\ cb \in Callback /\ cb = queue[1] /\ 1 \in DOMAIN queue
      /\ \A i \in DOMAIN queue' : i + 1 \in DOMAIN queue /\ queue'[i] = queue[i + 1]
  BY <1>2, HeadTaken
<1>4. /\ Numbered(queue')
      /\ \A i \in DOMAIN queue' : cb.id < queue'[i].id
      /\ cb.id <= added
  BY <1>2, TailNumbered DEF IInv, QueuesOrdered
<1>5. /\ DOMAIN finished = 1 .. Len(finished) /\ Len(finished) \in Nat
      /\ DOMAIN finished' = 1 .. Len(finished) + 1
      /\ \A i \in DOMAIN finished : finished'[i] = finished[i]
      /\ finished'[Len(finished) + 1] = cb
  BY <1>2, <1>3, Appended
<1>6. InPool' = InPool
  BY <1>2 DEF InPool
<1>7. QueuesOrdered' /\ Taken'
  BY <1>2, <1>3, <1>4, <1>6 DEF IInv, QueuesOrdered, Numbered, Taken
<1>8. /\ \A i \in DOMAIN finished : finished[i].id < cb.id /\ finished[i].id \in Nat
      /\ \A j \in DOMAIN waitingQueries :
            waitingQueries[j].id < cb.id /\ waitingQueries[j].id \in Nat
      /\ \A c \in tasks \cup InPool : c.id < cb.id /\ c.id \in Nat
      /\ cb.id \in Nat
  <2>1. \A c \in Callback : c.id \in Nat
    BY DEF Callback, Ids
  <2>2. tasks \cup InPool \subseteq Callback
    BY DEF IInv, TypeOK, InPool
  <2>3. QED BY <1>2, <1>3, <2>1, <2>2, ElementType DEF IInv, FinishedOnce, QueuesOrdered, Taken
<1>9. FinishedOnce'
  <2>1. \A i \in DOMAIN finished' :
           \/ finished'[i] = cb
           \/ i \in DOMAIN finished /\ finished'[i] = finished[i]
    BY <1>5
  <2>2. \A j \in DOMAIN waitingQueries : cb # waitingQueries[j]
    BY <1>8
  <2>3. cb \notin tasks \cup InPool
    BY <1>8
  <2>4. \A i \in DOMAIN finished' : finished'[i].id <= added'
    BY <1>2, <1>4, <2>1 DEF IInv, FinishedOnce
  <2>5. \A i \in DOMAIN finished' : finished'[i] \notin tasks' \cup InPool'
    BY <1>2, <1>6, <2>1, <2>3 DEF IInv, FinishedOnce
  <2>6. \A i \in DOMAIN finished', j \in DOMAIN queue' : finished'[i].id < queue'[j].id
    BY <1>2, <1>3, <1>4, <2>1 DEF IInv, FinishedOnce
  <2>7. \A i \in DOMAIN finished', j \in DOMAIN waitingQueries' :
           finished'[i] # waitingQueries'[j] /\ server' # "up"
    BY <1>2, <2>1, <2>2 DEF IInv, FinishedOnce
  <2>8. QED BY <2>4, <2>5, <2>6, <2>7 DEF FinishedOnce
<1>10. \A i \in DOMAIN finished : finished[i] # cb /\ finished[i].id < cb.id
  <2>1. \A i \in DOMAIN finished : finished[i].id < cb.id
    BY <1>8
  <2>2. QED BY <1>8, <2>1
<1>11. CallbackOnce' /\ UnsafeCallbackOrder'
  BY <1>1, <1>2, <1>3, <1>9, <1>10, FinishNext DEF IInv
<1>12. QED BY <1>1, <1>7, <1>9, <1>11 DEF IInv

(* The other steps move no callback. *)
LEMMA QuietInvariant ==
    ASSUME IInv, TypeOK', TickState',
           UNCHANGED <<added, queue, waitingQueries, tasks, finished>>,
           InPool' = InPool, server' = "up" => server = "up"
    PROVE  IInv'
<1>1. QueuesOrdered' /\ Taken' /\ FinishedOnce'
  BY DEF IInv, QueuesOrdered, Numbered, Taken, FinishedOnce
<1>2. QED BY <1>1, NothingFinished DEF IInv

(* No step breaks the invariant. *)
LEMMA StepInvariant == IInv /\ [Next]_vars => IInv'
<1> SUFFICES ASSUME IInv, [Next]_vars PROVE IInv'
  OBVIOUS
<1>1. TypeOK' /\ TickState'
  BY StepType DEF IInv
<1>2. CASE \E safe \in BOOLEAN : AddCallback(safe)
  BY <1>2, AddInvariant
<1>3. CASE WorldThread
  <2>1. CASE Update
    BY <1>1, <2>1, QuietInvariant DEF Update, InPool
  <2>2. CASE UnsafeDone
    BY <1>1, <2>2, QuietInvariant DEF UnsafeDone, InPool
  <2>3. CASE WaitJob
    <3>1. InPool' = InPool
      BY <2>3 DEF WaitJob, Pool!Return, InPool
    <3>2. QED BY <1>1, <2>3, <3>1, QuietInvariant DEF WaitJob
  <2>4. QED
    BY <1>3, <2>1, <2>2, <2>3, DrainInvariant, ProcessInvariant, ExecuteUnsafeInvariant
    DEF WorldThread
<1>4. ASSUME NEW cb \in Callback, BeginSafe(cb) PROVE IInv'
  <2>1. InPool' = InPool
    BY <1>4 DEF BeginSafe, Pool!Begin, InPool
  <2>2. QED BY <1>1, <1>4, <2>1, QuietInvariant DEF BeginSafe
<1>5. ASSUME NEW cb \in Callback, EndSafe(cb) PROVE IInv'
  BY <1>5, EndSafeInvariant
<1>6. CASE StopServer \/ DelayThreadsHalted
  BY <1>1, <1>6, QuietInvariant DEF StopServer, DelayThreadsHalted, InPool
<1>7. CASE CancelAll
  <2>1. CASE queue = <<>>
    BY <1>1, <1>7, <2>1, QuietInvariant DEF CancelAll, InPool
  <2>2. QED BY <1>7, <2>1, CancelInvariant
<1>8. CASE UNCHANGED vars
  BY <1>1, <1>8, QuietInvariant DEF InPool
<1>9. QED
  BY <1>2, <1>3, <1>4, <1>5, <1>6, <1>7, <1>8 DEF Next, PoolThread, Terminated

-----------------------------------------------------------------------------
(* The inductive invariant of the result queue, the tick of the world       *)
(* thread and the callback pool (SqlResultQueue::Update, CancelAll).        *)
THEOREM Invariant == Spec => []IInv
BY InitInvariant, StepInvariant, PTL DEF Spec

(* Each callback runs once and is then in no queue and in no thread's       *)
(* hands, cancellation included (Update, CancelAll).                        *)
THEOREM RunOnceEach == Spec => []CallbackOnce
<1>1. IInv => CallbackOnce
  BY DEF IInv
<1>2. QED BY <1>1, Invariant, PTL

(* Callbacks that are not thread safe run in the order of their results     *)
(* (_threadUnsafeWaitingQueries).                                           *)
THEOREM UnsafeInOrder == Spec => []UnsafeCallbackOrder
<1>1. IInv => UnsafeCallbackOrder
  BY DEF IInv
<1>2. QED BY <1>1, Invariant, PTL

(* The pool runs callbacks only while the world thread is in Update         *)
(* (job.wait).                                                              *)
THEOREM SafeInsideUpdate == Spec => []SafeOnlyInsideUpdate
<1>1. IInv => SafeOnlyInsideUpdate
  BY DEF IInv, TypeOK, TickState, SafeOnlyInsideUpdate
<1>2. QED BY <1>1, Invariant, PTL
=================================================================================
