---------------------------- MODULE SqlDelayProofs ----------------------------
(***************************************************************************)
(* Proofs about SqlDelay, for any number of threads, workers, serial ids    *)
(* and operations: the types, the inductive invariant IInv, the order of    *)
(* the operations of one serial id, and that SqlDelay implements            *)
(* AsyncDatabase.                                                           *)
(***************************************************************************)
EXTENDS SqlDelay, TLAPS

-----------------------------------------------------------------------------
(* Sequences as queues. *)

(* add() puts one element into a LockedQueue. *)
LEMMA AppendElems ==
    ASSUME NEW S, NEW q \in Seq(S), NEW x \in S
    PROVE  /\ Append(q, x) \in Seq(S)
           /\ Elems(Append(q, x)) = Elems(q) \cup {x}
           /\ DOMAIN Append(q, x) = 1 .. Len(q) + 1
           /\ \A i \in DOMAIN q : Append(q, x)[i] = q[i]
           /\ Append(q, x)[Len(q) + 1] = x
           /\ DOMAIN q = 1 .. Len(q)
           /\ Len(q) \in Nat
BY DEF Elems

(* next() takes the first element out of a LockedQueue. *)
LEMMA TailElems ==
    ASSUME NEW S, NEW q \in Seq(S), q # <<>>
    PROVE  /\ Head(q) \in S
           /\ Head(q) = q[1]
           /\ Tail(q) \in Seq(S)
           /\ Elems(q) = {Head(q)} \cup Elems(Tail(q))
           /\ 1 \in DOMAIN q
           /\ \A i \in DOMAIN Tail(q) :
                 i \in Nat /\ i >= 1 /\ i + 1 \in DOMAIN q /\ Tail(q)[i] = q[i + 1]
<1>1. /\ Head(q) \in S /\ Head(q) = q[1] /\ Tail(q) \in Seq(S) /\ 1 \in DOMAIN q
      /\ Len(q) \in Nat /\ Len(q) >= 1 /\ DOMAIN q = 1 .. Len(q)
      /\ DOMAIN Tail(q) = 1 .. Len(q) - 1
  OBVIOUS
<1>2. \A i \in DOMAIN Tail(q) :
         i \in Nat /\ i >= 1 /\ i + 1 \in DOMAIN q /\ Tail(q)[i] = q[i + 1]
  BY <1>1
<1>3. ASSUME NEW x \in Elems(q) PROVE x \in {Head(q)} \cup Elems(Tail(q))
  <2>1. PICK i \in DOMAIN q : x = q[i]
    BY <1>3 DEF Elems
  <2>2. CASE i = 1
    BY <2>1, <2>2, <1>1
  <2>3. CASE i # 1
    <3>1. i - 1 \in DOMAIN Tail(q) /\ Tail(q)[i - 1] = q[i]
      BY <2>3, <1>1, <1>2
    <3>2. QED BY <3>1, <2>1 DEF Elems
  <2>4. QED BY <2>2, <2>3
<1>4. ASSUME NEW x \in Elems(Tail(q)) PROVE x \in Elems(q)
  BY <1>2, <1>4 DEF Elems
<1>5. Head(q) \in Elems(q)
  BY <1>1 DEF Elems
<1>6. QED BY <1>1, <1>2, <1>3, <1>4, <1>5

(* serialId % m_numAsyncWorkers names a worker. *)
LEMMA RouteIsWorker ==
    ASSUME NEW s \in Nat
    PROVE  s % NumWorkers \in Workers
BY NumWorkersAssumption DEF Workers

-----------------------------------------------------------------------------
(* Types. *)

USE SerialsAssumption DEF Kinds, dbVars, queueVars, workerVars, stopVars, vars

(* An operation made for the next id is one of Op. *)
LEMMA NewOpType ==
    ASSUME TypeOK, NEW kind \in Kinds, NEW serial \in Serials, NEW cb \in Callbacks
    PROVE  /\ NewOp(kind, serial, cb) \in Op
           /\ NewOp(kind, serial, cb).id = issued + 1
           /\ NewOp(kind, serial, cb).kind = kind
           /\ NewOp(kind, serial, cb).serial = serial
BY DEF TypeOK, NewOp, Op

(* The initial state of Database::Initialize is well typed. *)
LEMMA InitType == Init => TypeOK
<1> SUFFICES ASSUME Init PROVE TypeOK
  OBVIOUS
<1>1. 0 \in Workers
  BY NumWorkersAssumption DEF Workers
<1>2. <<>> \in Seq(Op)
  OBVIOUS
<1>3. serialDelayQueue \in [Workers -> Seq(Op)]
  BY <1>2 DEF Init
<1>4. QED BY <1>1, <1>2, <1>3 DEF Init, TypeOK

(* AddToDelayQueue keeps the queues well typed. *)
LEMMA AddToDelayQueueType ==
    ASSUME TypeOK, NEW op \in Op, AddToDelayQueue(op)
    PROVE  delayQueue' \in Seq(Op) /\ serialDelayQueue' \in [Workers -> Seq(Op)]
BY AppendElems DEF TypeOK, AddToDelayQueue

(* AddToSerialDelayQueue keeps the queues well typed. *)
LEMMA AddToSerialDelayQueueType ==
    ASSUME TypeOK, NEW op \in Op, AddToSerialDelayQueue(op)
    PROVE  delayQueue' \in Seq(Op) /\ serialDelayQueue' \in [Workers -> Seq(Op)]
<1>1. CASE op.serial = 0 \/ numAsyncWorkers = 0
  BY <1>1, AddToDelayQueueType DEF AddToSerialDelayQueue
<1>2. CASE ~(op.serial = 0 \/ numAsyncWorkers = 0)
  <2>1. numAsyncWorkers = NumWorkers
    BY <1>2 DEF TypeOK
  <2>2. op.serial % NumWorkers \in Workers
    BY RouteIsWorker DEF Op
  <2>3. Append(serialDelayQueue[op.serial % NumWorkers], op) \in Seq(Op)
    BY <2>2, AppendElems DEF TypeOK
  <2>4. QED BY <1>2, <2>1, <2>2, <2>3 DEF TypeOK, AddToSerialDelayQueue
<1>3. QED BY <1>1, <1>2

(* A direct execution keeps queues and history well typed. *)
LEMMA RunDirectType ==
    ASSUME TypeOK, NEW op \in Op, RunDirect(op)
    PROVE  /\ delayQueue' \in Seq(Op) /\ serialDelayQueue' \in [Workers -> Seq(Op)]
           /\ issued' \in Nat /\ executed' \in Seq(Op)
BY AppendElems DEF TypeOK, RunDirect, Op

(* Every call of the Database API keeps the types. *)
LEMMA ApiType == TypeOK /\ Api => TypeOK'
<1> SUFFICES ASSUME TypeOK, Api PROVE TypeOK'
  OBVIOUS
<1> USE CallbacksAssumption DEF TypeOK, WriteCallbacks, QueryCallbacks
<1>1. CASE AllowAsyncTransactions
  BY <1>1 DEF AllowAsyncTransactions
<1>2. ASSUME NEW t \in Threads, NEW s \in Serials, BeginTransaction(t, s) PROVE TypeOK'
  BY <1>2, BoundsAssumption DEF BeginTransaction, Trans
<1>3. ASSUME NEW t \in Threads, ExecuteInTransaction(t) PROVE TypeOK'
  <2>1. transStorage[t] \in Trans
    BY <1>3 DEF ExecuteInTransaction
  <2>2. [transStorage[t] EXCEPT !.stmts = @ + 1] \in Trans
    <3>1. transStorage[t].stmts + 1 \in 0 .. MaxStmts
      BY <2>1, <1>3, BoundsAssumption DEF Trans, ExecuteInTransaction
    <3>2. QED BY <2>1, <3>1 DEF Trans
  <2>3. transStorage' = [transStorage EXCEPT ![t] = [transStorage[t] EXCEPT !.stmts = @ + 1]]
    BY <1>3 DEF ExecuteInTransaction
  <2>4. transStorage' \in [Threads -> Trans \cup {NoTrans}]
    BY <2>2, <2>3
  <2>5. QED BY <1>3, <2>4 DEF ExecuteInTransaction
<1>4. ASSUME NEW t \in Threads, NEW cb \in WriteCallbacks, Execute(t, cb) PROVE TypeOK'
  <2>1. NewOp("plain", 0, cb) \in Op /\ NewOp("direct", 0, "none") \in Op
    BY NewOpType
  <2>2. CASE allowAsync
    <3>1. delayQueue' \in Seq(Op) /\ serialDelayQueue' \in [Workers -> Seq(Op)]
      BY <1>4, <2>1, <2>2, AddToDelayQueueType DEF Execute
    <3>2. QED BY <1>4, <2>1, <2>2, <3>1 DEF Execute, Enqueue, Op
  <2>3. CASE ~allowAsync
    <3>1. RunDirect(NewOp("direct", 0, "none"))
      BY <1>4, <2>3 DEF Execute
    <3>2. QED BY <1>4, <2>1, <3>1, RunDirectType DEF Execute
  <2>4. QED BY <2>2, <2>3
<1>5. ASSUME NEW t \in Threads, CommitTransaction(t) PROVE TypeOK'
  <2>1. transStorage[t] \in Trans
    BY <1>5 DEF CommitTransaction
  <2>2. NewOp("trans", transStorage[t].serial, "none") \in Op
    BY <2>1, NewOpType DEF Trans
  <2>3. delayQueue' \in Seq(Op) /\ serialDelayQueue' \in [Workers -> Seq(Op)]
    BY <1>5, <2>2, AddToSerialDelayQueueType DEF CommitTransaction
  <2>4. QED BY <1>5, <2>2, <2>3 DEF CommitTransaction, Enqueue, Op
<1>6. ASSUME NEW t \in Threads, CommitTransactionDirect(t) PROVE TypeOK'
  <2>1. transStorage[t] \in Trans
    BY <1>6 DEF CommitTransactionDirect
  <2>2. NewOp("direct", transStorage[t].serial, "none") \in Op
    BY <2>1, NewOpType DEF Trans
  <2>3. RunDirect(NewOp("direct", transStorage[t].serial, "none"))
    BY <1>6 DEF CommitTransactionDirect
  <2>4. QED BY <1>6, <2>2, <2>3, RunDirectType DEF CommitTransactionDirect
<1>7. ASSUME NEW t \in Threads, RollbackTransaction(t) PROVE TypeOK'
  BY <1>7 DEF RollbackTransaction
<1>8. ASSUME NEW cb \in QueryCallbacks, AsyncQuery(cb) PROVE TypeOK'
  <2>1. NewOp("query", 0, cb) \in Op
    BY NewOpType
  <2>2. delayQueue' \in Seq(Op) /\ serialDelayQueue' \in [Workers -> Seq(Op)]
    BY <1>8, <2>1, AddToDelayQueueType DEF AsyncQuery
  <2>3. QED BY <1>8, <2>1, <2>2 DEF AsyncQuery, Enqueue, Op
<1>9. ASSUME NEW s \in Serials, NEW cb \in QueryCallbacks, DelayQueryHolder(s, cb)
      PROVE  TypeOK'
  <2>1. NewOp("holder", s, cb) \in Op
    BY NewOpType
  <2>2. delayQueue' \in Seq(Op) /\ serialDelayQueue' \in [Workers -> Seq(Op)]
    BY <1>9, <2>1, AddToSerialDelayQueueType DEF DelayQueryHolder
  <2>3. QED BY <1>9, <2>1, <2>2 DEF DelayQueryHolder, Enqueue, Op
<1>10. QED
  BY <1>1, <1>2, <1>3, <1>4, <1>5, <1>6, <1>7, <1>8, <1>9 DEF Api

(* Every step of a delay thread keeps the types. *)
LEMMA WorkerType == TypeOK /\ (\E w \in Workers : Worker(w)) => TypeOK'
<1> SUFFICES ASSUME TypeOK, NEW w \in Workers, Worker(w) PROVE TypeOK'
  OBVIOUS
<1> USE DEF TypeOK
<1>1. CASE Loop(w)
  BY <1>1 DEF Loop
<1>2. CASE NextDelayedOperation(w)
  <2>1. delayQueue # <<>> => Head(delayQueue) \in Op /\ Tail(delayQueue) \in Seq(Op)
    BY TailElems
  <2>2. QED BY <1>2, <2>1 DEF NextDelayedOperation
<1>3. CASE NextSerialOperation(w)
  <2>1. serialDelayQueue[w] # <<>> =>
            Head(serialDelayQueue[w]) \in Op /\ Tail(serialDelayQueue[w]) \in Seq(Op)
    BY TailElems
  <2>2. QED BY <1>3, <2>1 DEF NextSerialOperation
<1>4. CASE ExecuteOperation(w)
  <2>1. cur[w] \in Op => Append(executed, cur[w]) \in Seq(Op)
    BY AppendElems
  <2>2. QED BY <1>4, <2>1 DEF ExecuteOperation
<1>5. CASE RunCallback(w)
  <2>1. NewOp("plain", 0, "none") \in Op
    BY NewOpType, CallbacksAssumption
  <2>2. /\ delayQueue' \in Seq(Op) /\ serialDelayQueue' \in [Workers -> Seq(Op)]
        /\ issued' \in Nat /\ executed' \in Seq(Op)
    <3>1. CASE cur[w].cb = "follow" /\ issued < MaxOps
      <4>1. AddToDelayQueue(NewOp("plain", 0, "none"))
        BY <1>5, <3>1 DEF RunCallback
      <4>2. delayQueue' \in Seq(Op) /\ serialDelayQueue' \in [Workers -> Seq(Op)]
        BY <2>1, <4>1, AddToDelayQueueType
      <4>3. QED BY <1>5, <2>1, <3>1, <4>2 DEF RunCallback, Enqueue, Op
    <3>2. CASE ~(cur[w].cb = "follow" /\ issued < MaxOps)
      BY <1>5, <3>2 DEF RunCallback
    <3>3. QED BY <3>1, <3>2
  <2>3. QED BY <1>5, <2>2 DEF RunCallback
<1>6. QED BY <1>1, <1>2, <1>3, <1>4, <1>5 DEF Worker

(* Every step of StopServer keeps the types. *)
LEMMA HaltType == TypeOK /\ Halt => TypeOK'
<1> SUFFICES ASSUME TypeOK, Halt PROVE TypeOK'
  OBVIOUS
<1> USE DEF TypeOK
<1>1. CASE StopServer
  BY <1>1 DEF StopServer, Serving
<1>2. ASSUME stopIdx + 1 # NumWorkers PROVE stopIdx + 1 \in Workers
  BY <1>2, NumWorkersAssumption DEF Workers
<1>3. 0 \in Workers
  BY NumWorkersAssumption DEF Workers
<1>4. CASE Stop
  BY <1>4, <1>2, <1>3 DEF Stop
<1>5. CASE Join
  BY <1>5, <1>2, <1>3 DEF Join
<1>6. CASE DestroyWorker
  BY <1>6 DEF DestroyWorker
<1>7. CASE WorkerDestroyed
  BY <1>7, <1>2 DEF WorkerDestroyed
<1>8. CASE CloseConnections
  BY <1>8 DEF CloseConnections
<1>9. QED BY <1>1, <1>4, <1>5, <1>6, <1>7, <1>8 DEF Halt

(* The types hold initially and every step keeps them. *)
LEMMA TypeStep == TypeOK /\ [Next]_vars => TypeOK'
<1> SUFFICES ASSUME TypeOK, [Next]_vars PROVE TypeOK'
  OBVIOUS
<1>1. CASE Api
  BY <1>1, ApiType
<1>2. CASE \E w \in Workers : Worker(w)
  BY <1>2, WorkerType
<1>3. CASE Halt
  BY <1>3, HaltType
<1>4. CASE Terminated \/ UNCHANGED vars
  BY <1>4 DEF TypeOK, Terminated
<1>5. QED BY <1>1, <1>2, <1>3, <1>4 DEF Next

(* Every variable of the database layer keeps its type. *)
THEOREM TypeCorrect == Spec => []TypeOK
<1>1. QED BY InitType, TypeStep, PTL DEF Spec

-----------------------------------------------------------------------------
(* The inductive invariant.  The order in which operations of one serial id *)
(* are executed rests on where an operation can be: it is routed to one     *)
(* worker, its queue is in the order of the ids, and the operation in the   *)
(* worker's hands is older than all of the queue.                           *)

(* Ids are given out in order. *)
Bounded ==
    /\ \A p \in Pending : p.id <= issued
    /\ \A i \in DOMAIN executed : executed[i].id <= issued

(* The order of a LockedQueue is the order of the ids. *)
Sorted(q) == \A i, j \in DOMAIN q : i < j => q[i].id < q[j].id

(* An operation with a serial id is in the hands of one worker only. *)
Routed(op, w) == op.serial # 0 /\ op.serial % NumWorkers = w

SharedQueue == Sorted(delayQueue) /\ \A i \in DOMAIN delayQueue : delayQueue[i].serial = 0

SerialQueues ==
    \A w \in Workers :
        /\ Sorted(serialDelayQueue[w])
        /\ \A i \in DOMAIN serialDelayQueue[w] : Routed(serialDelayQueue[w][i], w)

SharedInHand ==
    \A w \in Workers : wpc[w] = "execShared" =>
        /\ cur[w].serial = 0
        /\ \A i \in DOMAIN delayQueue : cur[w].id < delayQueue[i].id
        /\ \A v \in Workers : v # w /\ wpc[v] = "execShared" => cur[v].id # cur[w].id

SerialInHand ==
    \A w \in Workers : wpc[w] = "execSerial" =>
        /\ Routed(cur[w], w)
        /\ \A i \in DOMAIN serialDelayQueue[w] : cur[w].id < serialDelayQueue[w][i].id

OneId == \A p, q \in Pending : p.id = q.id => p = q

IInv ==
    /\ TypeOK
    /\ Bounded
    /\ SharedQueue
    /\ SerialQueues
    /\ SharedInHand
    /\ SerialInHand
    /\ OneId
    /\ ExecutedOnce
    /\ SerialOrder

(* Where a pending operation is. *)
LEMMA PendingMember ==
    /\ \A p : p \in Pending <=>
           \/ \E i \in DOMAIN delayQueue : p = delayQueue[i]
           \/ \E w \in Workers : \E i \in DOMAIN serialDelayQueue[w] : p = serialDelayQueue[w][i]
           \/ \E w \in Workers : wpc[w] \in {"execShared", "execSerial"} /\ p = cur[w]
    /\ \A p : p \in Pending' <=>
           \/ \E i \in DOMAIN delayQueue' : p = delayQueue'[i]
           \/ \E w \in Workers : \E i \in DOMAIN (serialDelayQueue'[w]) : p = serialDelayQueue'[w][i]
           \/ \E w \in Workers : wpc'[w] \in {"execShared", "execSerial"} /\ p = cur'[w]
BY DEF Pending, Elems, InFlight

(* A pending operation is one of Op. *)
LEMMA PendingType == TypeOK => \A p \in Pending : p \in Op
<1> SUFFICES ASSUME TypeOK PROVE \A p \in Pending : p \in Op
  OBVIOUS
<1>1. \A i \in DOMAIN delayQueue : delayQueue[i] \in Op
  BY DEF TypeOK
<1>2. ASSUME NEW w \in Workers PROVE \A i \in DOMAIN serialDelayQueue[w] :
                                         serialDelayQueue[w][i] \in Op
  <2>1. serialDelayQueue[w] \in Seq(Op)
    BY DEF TypeOK
  <2>2. QED BY <2>1
<1>3. \A w \in Workers : wpc[w] \in {"execShared", "execSerial"} => cur[w] \in Op
  BY DEF TypeOK
<1>4. QED BY <1>1, <1>2, <1>3, PendingMember

(* The ids in use are numbers up to issued. *)
LEMMA IdsInUse ==
    ASSUME TypeOK, Bounded
    PROVE  /\ issued \in Nat
           /\ \A p \in Pending : p \in Op /\ p.id \in Nat /\ p.id <= issued
           /\ \A i \in DOMAIN executed : executed[i].id \in Nat /\ executed[i].id <= issued
<1>1. \A op \in Op : op.id \in Nat
  BY DEF Op
<1>2. \A i \in DOMAIN executed : executed[i] \in Op
  BY DEF TypeOK
<1>3. \A p \in Pending : p \in Op
  BY PendingType
<1>4. QED BY <1>1, <1>2, <1>3 DEF TypeOK, Bounded

(* The initial state: nothing was handed over. *)
LEMMA InitInvariant == Init => IInv
<1> SUFFICES ASSUME Init PROVE IInv
  OBVIOUS
<1>1. TypeOK
  BY InitType
<1>2. \A p : p \notin Pending
  BY PendingMember DEF Init
<1>3. executed = <<>> /\ delayQueue = <<>> /\ \A w \in Workers : serialDelayQueue[w] = <<>>
  BY DEF Init
<1>4. Bounded /\ OneId /\ ExecutedOnce /\ SerialOrder
  BY <1>2, <1>3 DEF Bounded, OneId, ExecutedOnce, SerialOrder
<1>5. SharedQueue /\ SerialQueues /\ SharedInHand /\ SerialInHand
  BY <1>3 DEF Init, SharedQueue, SerialQueues, SharedInHand, SerialInHand, Sorted
<1>6. QED BY <1>1, <1>4, <1>5 DEF IInv

-----------------------------------------------------------------------------
(* What a step does to the pending operations and the history. *)

(* The parts of IInv about the queues and the hands of the workers. *)
Places == SharedQueue /\ SerialQueues /\ SharedInHand /\ SerialInHand

(* The parts of IInv about the ids and the history. *)
History == Bounded /\ OneId /\ ExecutedOnce /\ SerialOrder

(* No worker takes an operation or executes one. *)
KeepsHands ==
    \A w \in Workers :
        /\ wpc'[w] = "execShared" <=> wpc[w] = "execShared"
        /\ wpc'[w] = "execSerial" <=> wpc[w] = "execSerial"
        /\ InFlight(w) => cur'[w] = cur[w]

(* An operation moves from a queue into the hands of a worker, or nothing   *)
(* moves at all.                                                            *)
LEMMA HistorySame ==
    ASSUME History, Pending' = Pending, issued' = issued, executed' = executed
    PROVE  History'
BY DEF History, Bounded, OneId, ExecutedOnce, SerialOrder

(* An operation is handed over with the next id. *)
LEMMA HistorySubmit ==
    ASSUME TypeOK, History, NEW op \in Op, op.id = issued + 1,
           Pending' = Pending \cup {op}, issued' = op.id, executed' = executed
    PROVE  History'
<1>1. /\ issued \in Nat /\ issued' = issued + 1
      /\ \A p \in Pending : p.id \in Nat /\ p.id <= issued
      /\ \A i \in DOMAIN executed : executed[i].id \in Nat /\ executed[i].id <= issued
  BY IdsInUse DEF History
<1>2. Bounded'
  BY <1>1 DEF Bounded
<1>3. OneId'
  BY <1>1 DEF History, OneId
<1>4. ExecutedOnce'
  BY <1>1 DEF History, ExecutedOnce
<1>5. SerialOrder'
  BY <1>1 DEF History, SerialOrder
<1>6. QED BY <1>2, <1>3, <1>4, <1>5 DEF History

(* A caller executes an operation itself. *)
LEMMA HistoryDirect ==
    ASSUME TypeOK, History, NEW op \in Op, op.id = issued + 1, op.kind = "direct",
           Pending' = Pending, issued' = op.id, executed' = Append(executed, op)
    PROVE  History'
<1>1. /\ issued \in Nat /\ issued' = issued + 1
      /\ \A p \in Pending : p.id \in Nat /\ p.id <= issued
      /\ \A i \in DOMAIN executed : executed[i].id \in Nat /\ executed[i].id <= issued
  BY IdsInUse DEF History
<1>2. /\ Len(executed) \in Nat /\ DOMAIN executed = 1 .. Len(executed)
      /\ DOMAIN executed' = 1 .. Len(executed) + 1
      /\ \A i \in DOMAIN executed : executed'[i] = executed[i]
      /\ executed'[Len(executed) + 1] = op
  BY AppendElems DEF TypeOK
<1>3. \A i \in DOMAIN executed' :
         \/ i \in DOMAIN executed /\ executed'[i] = executed[i]
         \/ i = Len(executed) + 1 /\ executed'[i] = op
  BY <1>2
<1>4. Bounded'
  BY <1>1, <1>3 DEF Bounded
<1>5. OneId'
  BY DEF History, OneId
<1>6. ExecutedOnce'
  BY <1>1, <1>3 DEF History, ExecutedOnce
<1>7. SerialOrder'
  BY <1>1, <1>2, <1>3 DEF History, SerialOrder
<1>8. QED BY <1>4, <1>5, <1>6, <1>7 DEF History

(* A worker executes a pending operation that no pending operation of its   *)
(* serial id precedes.                                                      *)
LEMMA HistoryExecute ==
    ASSUME TypeOK, History, NEW op \in Pending,
           \A p \in Pending : p # op /\ op.serial # 0 /\ p.serial = op.serial
                                 => op.id < p.id,
           Pending' = Pending \ {op}, issued' = issued, executed' = Append(executed, op)
    PROVE  History'
<1>1. /\ issued \in Nat
      /\ \A p \in Pending : p \in Op /\ p.id \in Nat /\ p.id <= issued
      /\ \A i \in DOMAIN executed : executed[i].id \in Nat /\ executed[i].id <= issued
  BY IdsInUse DEF History
<1>2. /\ Len(executed) \in Nat /\ DOMAIN executed = 1 .. Len(executed)
      /\ DOMAIN executed' = 1 .. Len(executed) + 1
      /\ \A i \in DOMAIN executed : executed'[i] = executed[i]
      /\ executed'[Len(executed) + 1] = op
  BY <1>1, AppendElems DEF TypeOK
<1>3. \A i \in DOMAIN executed' :
         \/ i \in DOMAIN executed /\ executed'[i] = executed[i]
         \/ i = Len(executed) + 1 /\ executed'[i] = op
  BY <1>2
<1>4. Bounded'
  BY <1>1, <1>3 DEF Bounded
<1>5. OneId'
  BY DEF History, OneId
<1>6. ExecutedOnce'
  <2>1. \A i \in DOMAIN executed : executed[i].id # op.id
    BY DEF History, ExecutedOnce
  <2>2. \A p \in Pending' : p.id # op.id
    BY DEF History, OneId
  <2>3. QED BY <1>3, <2>1, <2>2 DEF History, ExecutedOnce
<1>7. SerialOrder'
  <2> SUFFICES ASSUME NEW i \in DOMAIN executed',
                      executed'[i].serial # 0, executed'[i].kind # "direct"
               PROVE  /\ \A j \in 1 .. i - 1 :
                            executed'[j].serial = executed'[i].serial
                            /\ executed'[j].kind # "direct"
                                => executed'[j].id < executed'[i].id
                      /\ \A p \in Pending' :
                            p.serial = executed'[i].serial => executed'[i].id < p.id
    BY DEF SerialOrder
  <2>1. CASE i \in DOMAIN executed /\ executed'[i] = executed[i]
    <3>1. \A j \in 1 .. i - 1 : j \in DOMAIN executed /\ executed'[j] = executed[j]
      BY <1>2, <2>1
    <3>2. QED BY <2>1, <3>1 DEF History, SerialOrder
  <2>2. CASE i = Len(executed) + 1 /\ executed'[i] = op
    <3>1. \A j \in 1 .. i - 1 : j \in DOMAIN executed /\ executed'[j] = executed[j]
      BY <1>2, <2>2
    <3>2. \A j \in DOMAIN executed :
             executed[j].serial # 0 /\ executed[j].kind # "direct"
             /\ executed[j].serial = op.serial => executed[j].id < op.id
      BY DEF History, SerialOrder
    <3>3. QED BY <2>2, <3>1, <3>2
  <2>3. QED BY <1>3, <2>1, <2>2
<1>8. QED BY <1>4, <1>5, <1>6, <1>7 DEF History

-----------------------------------------------------------------------------
(* What a step does to the queues and the hands of the workers. *)

(* Steps that touch neither. *)
LEMMA PlacesSame ==
    ASSUME Places, KeepsHands, UNCHANGED queueVars
    PROVE  Places' /\ Pending' = Pending
<1>1. Places'
  BY DEF Places, KeepsHands, InFlight, SharedQueue, SerialQueues, SharedInHand,
         SerialInHand, Sorted, Routed
<1>2. Pending' = Pending
  BY PendingMember DEF KeepsHands, InFlight
<1>3. QED BY <1>1, <1>2

(* AddToDelayQueue: the new operation is the last of the shared queue. *)
LEMMA PlacesShared ==
    ASSUME TypeOK, Bounded, Places, KeepsHands, NEW op \in Op,
           op.id = issued + 1, op.serial = 0, AddToDelayQueue(op)
    PROVE  Places' /\ Pending' = Pending \cup {op}
<1>1. /\ issued \in Nat
      /\ \A p \in Pending : p.id \in Nat /\ p.id <= issued
  BY IdsInUse
<1>2. /\ Len(delayQueue) \in Nat /\ DOMAIN delayQueue = 1 .. Len(delayQueue)
      /\ DOMAIN delayQueue' = 1 .. Len(delayQueue) + 1
      /\ \A i \in DOMAIN delayQueue : delayQueue'[i] = delayQueue[i]
      /\ delayQueue'[Len(delayQueue) + 1] = op
      /\ serialDelayQueue' = serialDelayQueue
  BY AppendElems DEF TypeOK, AddToDelayQueue
<1>3. \A i \in DOMAIN delayQueue' :
         \/ i \in DOMAIN delayQueue /\ delayQueue'[i] = delayQueue[i]
         \/ i = Len(delayQueue) + 1 /\ delayQueue'[i] = op
  BY <1>2
<1>4. \A i \in DOMAIN delayQueue : delayQueue[i] \in Pending
  BY PendingMember
<1>5. \A w \in Workers : InFlight(w) => cur[w] \in Pending
  BY PendingMember DEF InFlight
<1>6. SharedQueue'
  <2>1. ASSUME NEW i \in DOMAIN delayQueue', NEW j \in DOMAIN delayQueue', i < j
        PROVE  delayQueue'[i].id < delayQueue'[j].id
    <3>1. i \in DOMAIN delayQueue /\ delayQueue'[i] = delayQueue[i]
      BY <1>2, <2>1
    <3>2. CASE j \in DOMAIN delayQueue /\ delayQueue'[j] = delayQueue[j]
      BY <2>1, <3>1, <3>2 DEF Places, SharedQueue, Sorted
    <3>3. CASE delayQueue'[j] = op
      BY <1>1, <1>4, <3>1, <3>3
    <3>4. QED BY <1>3, <3>2, <3>3
  <2>2. QED BY <1>3, <2>1 DEF Places, SharedQueue, Sorted
<1>7. SerialQueues' /\ SerialInHand'
  BY <1>2 DEF Places, KeepsHands, InFlight, SerialQueues, SerialInHand, Sorted, Routed
<1>8. SharedInHand'
  <2> SUFFICES ASSUME NEW w \in Workers, wpc'[w] = "execShared"
               PROVE  /\ cur'[w].serial = 0
                      /\ \A i \in DOMAIN delayQueue' : cur'[w].id < delayQueue'[i].id
                      /\ \A v \in Workers :
                            v # w /\ wpc'[v] = "execShared" => cur'[v].id # cur'[w].id
    BY DEF SharedInHand
  <2>1. /\ wpc[w] = "execShared" /\ cur'[w] = cur[w]
        /\ \A v \in Workers : wpc'[v] = "execShared"
              => wpc[v] = "execShared" /\ cur'[v] = cur[v]
    BY DEF KeepsHands, InFlight
  <2>2. cur[w].id < op.id
    BY <1>1, <1>5, <2>1 DEF InFlight
  <2>3. QED BY <1>3, <2>1, <2>2 DEF Places, SharedInHand
<1>9. Pending' = Pending \cup {op}
  <2>1. \A p : p \in Pending' => p \in Pending \cup {op}
    BY <1>2, <1>3, PendingMember DEF KeepsHands, InFlight
  <2>2. Len(delayQueue) + 1 \in DOMAIN delayQueue'
    BY <1>2
  <2>3. op \in Pending'
    BY <1>2, <2>2, PendingMember
  <2>4. \A i \in DOMAIN delayQueue : i \in DOMAIN delayQueue'
    BY <1>2
  <2>5. \A p : p \in Pending => p \in Pending'
    BY <1>2, <2>4, PendingMember DEF KeepsHands, InFlight
  <2>6. QED BY <2>1, <2>3, <2>5
<1>10. QED BY <1>6, <1>7, <1>8, <1>9 DEF Places

(* AddToSerialDelayQueue: the new operation is the last of the queue its    *)
(* serial id leads to.                                                      *)
LEMMA PlacesSerial ==
    ASSUME TypeOK, Bounded, Places, KeepsHands, NEW op \in Op, op.id = issued + 1,
           numAsyncWorkers = NumWorkers, AddToSerialDelayQueue(op)
    PROVE  Places' /\ Pending' = Pending \cup {op}
<1>1. CASE op.serial = 0
  <2>1. AddToDelayQueue(op)
    BY <1>1 DEF AddToSerialDelayQueue
  <2>2. QED BY <1>1, <2>1, PlacesShared
<1>2. CASE op.serial # 0
  <2> DEFINE u == op.serial % NumWorkers
             q == serialDelayQueue[u]
  <2>0. NumWorkers # 0
    BY NumWorkersAssumption
  <2>1. u \in Workers /\ q \in Seq(Op)
    BY RouteIsWorker DEF Op, TypeOK
  <2>2. /\ delayQueue' = delayQueue
        /\ serialDelayQueue' = [serialDelayQueue EXCEPT ![u] = Append(@, op)]
    BY <1>2, <2>0 DEF AddToSerialDelayQueue
  <2>3. /\ serialDelayQueue'[u] = Append(q, op)
        /\ \A w \in Workers : w # u => serialDelayQueue'[w] = serialDelayQueue[w]
    BY <2>1, <2>2 DEF TypeOK
  <2>4. /\ Len(q) \in Nat /\ DOMAIN q = 1 .. Len(q)
        /\ DOMAIN Append(q, op) = 1 .. Len(q) + 1
        /\ \A i \in DOMAIN q : Append(q, op)[i] = q[i]
        /\ Append(q, op)[Len(q) + 1] = op
    BY <2>1, AppendElems
  <2>5. \A i \in DOMAIN Append(q, op) :
           \/ i \in DOMAIN q /\ Append(q, op)[i] = q[i]
           \/ i = Len(q) + 1 /\ Append(q, op)[i] = op
    BY <2>4
  <2>6. /\ issued \in Nat
        /\ \A p \in Pending : p.id \in Nat /\ p.id <= issued
    BY IdsInUse
  <2>7. \A i \in DOMAIN q : q[i] \in Pending
    BY <2>1, PendingMember
  <2>8. InFlight(u) => cur[u] \in Pending
    BY <2>1, PendingMember DEF InFlight
  <2>9. Sorted(Append(q, op))
    <3> SUFFICES ASSUME NEW i \in DOMAIN Append(q, op), NEW j \in DOMAIN Append(q, op), i < j
                 PROVE  Append(q, op)[i].id < Append(q, op)[j].id
      BY DEF Sorted
    <3>1. i \in DOMAIN q /\ Append(q, op)[i] = q[i]
      BY <2>4
    <3>2. CASE j \in DOMAIN q /\ Append(q, op)[j] = q[j]
      BY <2>1, <3>1, <3>2 DEF Places, SerialQueues, Sorted
    <3>3. CASE Append(q, op)[j] = op
      BY <2>6, <2>7, <3>1, <3>3
    <3>4. QED BY <2>5, <3>2, <3>3
  <2>10. \A i \in DOMAIN Append(q, op) : Routed(Append(q, op)[i], u)
    BY <1>2, <2>1, <2>5 DEF Places, SerialQueues, Routed
  <2>11. SerialQueues'
    BY <2>3, <2>9, <2>10 DEF Places, SerialQueues, Sorted, Routed
  <2>12. SharedQueue' /\ SharedInHand'
    BY <2>2 DEF Places, KeepsHands, InFlight, SharedQueue, SharedInHand, Sorted
  <2>13. SerialInHand'
    <3> SUFFICES ASSUME NEW w \in Workers, wpc'[w] = "execSerial"
                 PROVE  /\ Routed(cur'[w], w)
                        /\ \A i \in DOMAIN (serialDelayQueue'[w]) :
                              cur'[w].id < serialDelayQueue'[w][i].id
      BY DEF SerialInHand, Routed
    <3>1. wpc[w] = "execSerial" /\ cur'[w] = cur[w]
      BY DEF KeepsHands, InFlight
    <3>2. CASE w # u
      BY <2>3, <3>1, <3>2 DEF Places, SerialInHand
    <3>3. CASE w = u
      <4>1. cur[u].id < op.id
        BY <2>6, <2>8, <3>1, <3>3 DEF InFlight
      <4>2. QED BY <2>3, <2>5, <3>1, <3>3, <4>1 DEF Places, SerialInHand
    <3>4. QED BY <3>2, <3>3
  <2>14. Pending' = Pending \cup {op}
    <3>1. \A w \in Workers : \A i \in DOMAIN (serialDelayQueue'[w]) :
             \/ i \in DOMAIN serialDelayQueue[w]
                /\ serialDelayQueue'[w][i] = serialDelayQueue[w][i]
             \/ serialDelayQueue'[w][i] = op
      BY <2>3, <2>5
    <3>2. \A p : p \in Pending' => p \in Pending \cup {op}
      BY <2>2, <3>1, PendingMember DEF KeepsHands, InFlight
    <3>3. Len(q) + 1 \in DOMAIN (serialDelayQueue'[u])
      BY <2>3, <2>4
    <3>4. op \in Pending'
      BY <2>1, <2>3, <2>4, <3>3, PendingMember
    <3>5. \A w \in Workers : \A i \in DOMAIN serialDelayQueue[w] :
             i \in DOMAIN (serialDelayQueue'[w])
             /\ serialDelayQueue'[w][i] = serialDelayQueue[w][i]
      BY <2>3, <2>4
    <3>6. \A p : p \in Pending => p \in Pending'
      BY <2>2, <3>5, PendingMember DEF KeepsHands, InFlight
    <3>7. QED BY <3>2, <3>4, <3>6
  <2>15. QED BY <2>11, <2>12, <2>13, <2>14 DEF Places
<1>3. QED BY <1>1, <1>2

(* NextDelayedOperation takes the oldest operation of the shared queue.     *)
LEMMA PlacesTakeShared ==
    ASSUME TypeOK, Places, OneId, NEW w \in Workers, NextDelayedOperation(w)
    PROVE  Places' /\ Pending' = Pending
<1>1. CASE delayQueue = <<>>
  <2>1. KeepsHands /\ UNCHANGED queueVars
    BY <1>1 DEF NextDelayedOperation, KeepsHands, InFlight, TypeOK
  <2>2. QED BY <2>1, PlacesSame
<1>2. CASE delayQueue # <<>>
  <2>1. /\ wpc[w] = "shared" /\ wpc'[w] = "execShared" /\ cur'[w] = Head(delayQueue)
        /\ \A v \in Workers : v # w => wpc'[v] = wpc[v] /\ cur'[v] = cur[v]
        /\ delayQueue' = Tail(delayQueue) /\ serialDelayQueue' = serialDelayQueue
    BY <1>2 DEF NextDelayedOperation, TypeOK
  <2>2. /\ Head(delayQueue) = delayQueue[1] /\ 1 \in DOMAIN delayQueue
        /\ \A i \in DOMAIN delayQueue' :
              /\ i \in Nat /\ i >= 1 /\ i + 1 \in DOMAIN delayQueue
              /\ delayQueue'[i] = delayQueue[i + 1]
    BY <1>2, <2>1, TailElems DEF TypeOK
  <2>3. \A i \in DOMAIN delayQueue' : delayQueue[1].id < delayQueue'[i].id
    <3>1. \A i \in DOMAIN delayQueue' : 1 < i + 1
      BY <2>2
    <3>2. QED BY <2>2, <3>1 DEF Places, SharedQueue, Sorted
  <2>4. SharedQueue'
    <3>1. \A i, j \in DOMAIN delayQueue' : i < j => i + 1 < j + 1
      BY <2>2
    <3>2. QED BY <2>2, <3>1 DEF Places, SharedQueue, Sorted
  <2>5. SerialQueues' /\ SerialInHand'
    BY <2>1 DEF Places, SerialQueues, SerialInHand, Sorted, Routed
  <2>6. SharedInHand'
    <3> SUFFICES ASSUME NEW x \in Workers, wpc'[x] = "execShared"
                 PROVE  /\ cur'[x].serial = 0
                        /\ \A i \in DOMAIN delayQueue' : cur'[x].id < delayQueue'[i].id
                        /\ \A v \in Workers :
                              v # x /\ wpc'[v] = "execShared" => cur'[v].id # cur'[x].id
      BY DEF SharedInHand
    <3>1. \A v \in Workers : v # w /\ wpc[v] = "execShared" => cur[v].id < delayQueue[1].id
      BY <2>2 DEF Places, SharedInHand
    <3>2. \A v \in Workers : v # w /\ wpc[v] = "execShared" => cur[v].id \in Nat
      BY DEF TypeOK, Op
    <3>3. delayQueue[1].id \in Nat
      <4>1. delayQueue[1] \in Op
        BY <2>2, <1>2, TailElems DEF TypeOK
      <4>2. QED BY <4>1 DEF Op
    <3>4. CASE x = w
      BY <2>1, <2>2, <2>3, <3>1, <3>2, <3>3, <3>4 DEF Places, SharedQueue
    <3>5. CASE x # w
      BY <2>1, <2>2, <3>1, <3>2, <3>3, <3>5 DEF Places, SharedInHand
    <3>6. QED BY <3>4, <3>5
  <2>7. Pending' = Pending
    <3>1. \A p : p \in Pending' => p \in Pending
      BY <2>1, <2>2, PendingMember
    <3>2. Elems(delayQueue) = {Head(delayQueue)} \cup Elems(delayQueue')
      BY <1>2, <2>1, TailElems DEF TypeOK
    <3>3. \A i \in DOMAIN delayQueue :
             delayQueue[i] = Head(delayQueue)
             \/ \E j \in DOMAIN delayQueue' : delayQueue[i] = delayQueue'[j]
      BY <3>2 DEF Elems
    <3>4. \A i \in DOMAIN delayQueue : delayQueue[i] \in Pending'
      BY <2>1, <3>3, PendingMember
    <3>5. \A p : p \in Pending => p \in Pending'
      BY <2>1, <3>4, PendingMember
    <3>6. QED BY <3>1, <3>5
  <2>8. QED BY <2>4, <2>5, <2>6, <2>7 DEF Places
<1>3. QED BY <1>1, <1>2

(* NextSerialOperation takes the oldest operation of the worker's queue.    *)
LEMMA PlacesTakeSerial ==
    ASSUME TypeOK, Places, NEW w \in Workers, NextSerialOperation(w)
    PROVE  Places' /\ Pending' = Pending
<1> DEFINE q == serialDelayQueue[w]
<1>1. CASE q = <<>>
  <2>1. KeepsHands /\ UNCHANGED queueVars
    BY <1>1 DEF NextSerialOperation, KeepsHands, InFlight, TypeOK
  <2>2. QED BY <2>1, PlacesSame
<1>2. CASE q # <<>>
  <2>1. /\ wpc[w] = "serial" /\ wpc'[w] = "execSerial" /\ cur'[w] = Head(q)
        /\ \A v \in Workers : v # w => wpc'[v] = wpc[v] /\ cur'[v] = cur[v]
                                      /\ serialDelayQueue'[v] = serialDelayQueue[v]
        /\ delayQueue' = delayQueue /\ serialDelayQueue'[w] = Tail(q)
    BY <1>2 DEF NextSerialOperation, TypeOK
  <2>2. /\ Head(q) = q[1] /\ 1 \in DOMAIN q
        /\ \A i \in DOMAIN Tail(q) :
              i \in Nat /\ i >= 1 /\ i + 1 \in DOMAIN q /\ Tail(q)[i] = q[i + 1]
        /\ Elems(q) = {Head(q)} \cup Elems(Tail(q))
    BY <1>2, TailElems DEF TypeOK
  <2>3. Sorted(q) /\ \A i \in DOMAIN q : Routed(q[i], w)
    BY DEF Places, SerialQueues
  <2>4. \A i \in DOMAIN Tail(q) : q[1].id < Tail(q)[i].id
    <3>1. \A i \in DOMAIN Tail(q) : 1 < i + 1
      BY <2>2
    <3>2. QED BY <2>2, <2>3, <3>1 DEF Sorted
  <2>5. Sorted(Tail(q)) /\ \A i \in DOMAIN Tail(q) : Routed(Tail(q)[i], w)
    <3>1. \A i, j \in DOMAIN Tail(q) : i < j => i + 1 < j + 1
      BY <2>2
    <3>2. QED BY <2>2, <2>3, <3>1 DEF Sorted
  <2>6. SerialQueues'
    BY <2>1, <2>5 DEF Places, SerialQueues, Sorted, Routed
  <2>7. SharedQueue' /\ SharedInHand'
    BY <2>1 DEF Places, SharedQueue, SharedInHand, Sorted
  <2>8. SerialInHand'
    <3> SUFFICES ASSUME NEW x \in Workers, wpc'[x] = "execSerial"
                 PROVE  /\ Routed(cur'[x], x)
                        /\ \A i \in DOMAIN (serialDelayQueue'[x]) :
                              cur'[x].id < serialDelayQueue'[x][i].id
      BY DEF SerialInHand, Routed
    <3>1. CASE x = w
      BY <2>1, <2>2, <2>3, <2>4, <3>1
    <3>2. CASE x # w
      BY <2>1, <3>2 DEF Places, SerialInHand
    <3>3. QED BY <3>1, <3>2
  <2>9. Pending' = Pending
    <3>1. \A i \in DOMAIN q : q[i] = cur'[w]
                             \/ \E j \in DOMAIN (serialDelayQueue'[w]) :
                                    q[i] = serialDelayQueue'[w][j]
      <4>1. \A x \in Elems(q) : x = Head(q) \/ x \in Elems(Tail(q))
        BY <2>2
      <4>2. \A i \in DOMAIN q : q[i] = Head(q)
                              \/ \E j \in DOMAIN Tail(q) : q[i] = Tail(q)[j]
        BY <4>1 DEF Elems
      <4>3. QED BY <2>1, <4>2
    <3>2. \A i \in DOMAIN q : q[i] \in Pending'
      BY <2>1, <3>1, PendingMember
    <3>3. \A p : p \in Pending => p \in Pending'
      BY <2>1, <3>2, PendingMember
    <3>4. \A i \in DOMAIN (serialDelayQueue'[w]) : serialDelayQueue'[w][i] \in Pending
      BY <2>1, <2>2, PendingMember
    <3>5. cur'[w] \in Pending
      BY <2>1, <2>2, PendingMember
    <3>6. \A p : p \in Pending' => p \in Pending
      <4> SUFFICES ASSUME NEW p \in Pending' PROVE p \in Pending
        OBVIOUS
      <4>1. CASE \E i \in DOMAIN delayQueue' : p = delayQueue'[i]
        BY <2>1, <4>1, PendingMember
      <4>2. ASSUME NEW v \in Workers, NEW i \in DOMAIN (serialDelayQueue'[v]),
                   p = serialDelayQueue'[v][i]
            PROVE  p \in Pending
        <5>1. CASE v = w
          BY <3>4, <4>2, <5>1
        <5>2. CASE v # w
          BY <2>1, <4>2, <5>2, PendingMember
        <5>3. QED BY <5>1, <5>2
      <4>3. ASSUME NEW v \in Workers, wpc'[v] \in {"execShared", "execSerial"}, p = cur'[v]
            PROVE  p \in Pending
        BY <2>1, <3>5, <4>3, PendingMember
      <4>4. QED BY <4>1, <4>2, <4>3, PendingMember
    <3>7. QED BY <3>3, <3>6
  <2>10. QED BY <2>6, <2>7, <2>8, <2>9 DEF Places
<1>3. QED BY <1>1, <1>2

-----------------------------------------------------------------------------
(* Every step of SqlDelay rests, hands an operation over, executes one      *)
(* directly or executes a pending one.                                      *)

Rests == Pending' = Pending /\ issued' = issued /\ executed' = executed

HandsOver(op) ==
    /\ op.id = issued + 1 /\ issued' = op.id
    /\ Pending' = Pending \cup {op} /\ executed' = executed

ExecutesDirectly(op) ==
    /\ op.id = issued + 1 /\ op.kind = "direct" /\ issued' = op.id
    /\ Pending' = Pending /\ executed' = Append(executed, op)

Executes(op) ==
    /\ \A p \in Pending :
          p # op /\ op.serial # 0 /\ p.serial = op.serial => op.id < p.id
    /\ Pending' = Pending \ {op} /\ issued' = issued /\ executed' = Append(executed, op)

Effect ==
    \/ Rests
    \/ \E op \in Op : HandsOver(op) \/ ExecutesDirectly(op)
    \/ \E op \in Pending : Executes(op)

(* Every effect keeps the history in order. *)
LEMMA EffectHistory == TypeOK /\ History /\ Effect => History'
<1> SUFFICES ASSUME TypeOK, History, Effect PROVE History'
  OBVIOUS
<1>1. CASE Rests
  BY <1>1, HistorySame DEF Rests
<1>2. ASSUME NEW op \in Op, HandsOver(op) PROVE History'
  BY <1>2, HistorySubmit DEF HandsOver
<1>3. ASSUME NEW op \in Op, ExecutesDirectly(op) PROVE History'
  BY <1>3, HistoryDirect DEF ExecutesDirectly
<1>4. ASSUME NEW op \in Pending, Executes(op) PROVE History'
  BY <1>4, HistoryExecute DEF Executes
<1>5. QED BY <1>1, <1>2, <1>3, <1>4 DEF Effect

(* Calls of the Database API. *)
LEMMA ApiEffect == TypeOK /\ Places /\ History /\ Api => Places' /\ Effect
<1> SUFFICES ASSUME TypeOK, Places, History, Api PROVE Places' /\ Effect
  OBVIOUS
<1> USE CallbacksAssumption DEF WriteCallbacks, QueryCallbacks
<1>1. ASSUME UNCHANGED workerVars PROVE KeepsHands
  BY <1>1 DEF KeepsHands, InFlight
<1>2. Bounded
  BY DEF History
<1>3. Serving => numAsyncWorkers = NumWorkers
  BY DEF Serving, TypeOK
<1>4. ASSUME UNCHANGED <<queueVars, workerVars, issued, executed>> PROVE Places' /\ Effect
  BY <1>1, <1>4, PlacesSame DEF Effect, Rests
<1>5. ASSUME NEW op \in Op, op.id = issued + 1, op.serial = 0, UNCHANGED workerVars,
             Enqueue(op), AddToDelayQueue(op)
      PROVE  Places' /\ Effect
  BY <1>1, <1>2, <1>5, PlacesShared DEF Effect, HandsOver, Enqueue
<1>6. ASSUME NEW op \in Op, op.id = issued + 1, Serving, UNCHANGED workerVars,
             Enqueue(op), AddToSerialDelayQueue(op)
      PROVE  Places' /\ Effect
  BY <1>1, <1>2, <1>3, <1>6, PlacesSerial DEF Effect, HandsOver, Enqueue
<1>7. ASSUME NEW op \in Op, op.id = issued + 1, op.kind = "direct", UNCHANGED workerVars,
             RunDirect(op)
      PROVE  Places' /\ Effect
  BY <1>1, <1>7, PlacesSame DEF Effect, ExecutesDirectly, RunDirect
<1>8. CASE AllowAsyncTransactions
  BY <1>4, <1>8 DEF AllowAsyncTransactions
<1>9. ASSUME NEW t \in Threads, NEW s \in Serials, BeginTransaction(t, s)
      PROVE  Places' /\ Effect
  BY <1>4, <1>9 DEF BeginTransaction
<1>10. ASSUME NEW t \in Threads, ExecuteInTransaction(t) PROVE Places' /\ Effect
  BY <1>4, <1>10 DEF ExecuteInTransaction
<1>11. ASSUME NEW t \in Threads, NEW cb \in WriteCallbacks, Execute(t, cb)
       PROVE  Places' /\ Effect
  <2>1. CASE allowAsync
    <3> DEFINE op == NewOp("plain", 0, cb)
    <3>1. op \in Op /\ op.id = issued + 1 /\ op.serial = 0
      BY NewOpType
    <3>2. Enqueue(op) /\ AddToDelayQueue(op) /\ UNCHANGED workerVars
      BY <1>11, <2>1 DEF Execute
    <3> HIDE DEF op
    <3>3. QED BY <1>5, <3>1, <3>2
  <2>2. CASE ~allowAsync
    <3> DEFINE op == NewOp("direct", 0, "none")
    <3>1. op \in Op /\ op.id = issued + 1 /\ op.kind = "direct"
      BY NewOpType
    <3>2. RunDirect(op) /\ UNCHANGED workerVars
      BY <1>11, <2>2 DEF Execute
    <3> HIDE DEF op
    <3>3. QED BY <1>7, <3>1, <3>2
  <2>3. QED BY <2>1, <2>2
<1>12. ASSUME NEW t \in Threads, CommitTransaction(t) PROVE Places' /\ Effect
  <2> DEFINE op == NewOp("trans", transStorage[t].serial, "none")
  <2>1. transStorage[t].serial \in Serials
    BY <1>12 DEF CommitTransaction, TypeOK, Trans
  <2>2. op \in Op /\ op.id = issued + 1
    <3>1. "trans" \in Kinds /\ "none" \in Callbacks
      OBVIOUS
    <3> HIDE DEF Kinds
    <3>2. \A s \in Serials : LET o == NewOp("trans", s, "none")
                           IN  o \in Op /\ o.id = issued + 1 /\ o.kind = "trans"
      BY <3>1, NewOpType
    <3>3. QED BY <2>1, <3>2
  <2>3. Enqueue(op) /\ AddToSerialDelayQueue(op) /\ Serving /\ UNCHANGED workerVars
    BY <1>12 DEF CommitTransaction
  <2> HIDE DEF op
  <2>4. QED BY <1>6, <2>2, <2>3
<1>13. ASSUME NEW t \in Threads, CommitTransactionDirect(t) PROVE Places' /\ Effect
  <2> DEFINE op == NewOp("direct", transStorage[t].serial, "none")
  <2>1. transStorage[t].serial \in Serials
    BY <1>13 DEF CommitTransactionDirect, TypeOK, Trans
  <2>2. op \in Op /\ op.id = issued + 1 /\ op.kind = "direct"
    <3>1. "direct" \in Kinds /\ "none" \in Callbacks
      OBVIOUS
    <3> HIDE DEF Kinds
    <3>2. \A s \in Serials : LET o == NewOp("direct", s, "none")
                           IN  o \in Op /\ o.id = issued + 1 /\ o.kind = "direct"
      BY <3>1, NewOpType
    <3>3. QED BY <2>1, <3>2
  <2>3. RunDirect(op) /\ UNCHANGED workerVars
    BY <1>13 DEF CommitTransactionDirect
  <2> HIDE DEF op
  <2>4. QED BY <1>7, <2>2, <2>3
<1>14. ASSUME NEW t \in Threads, RollbackTransaction(t) PROVE Places' /\ Effect
  BY <1>4, <1>14 DEF RollbackTransaction
<1>15. ASSUME NEW cb \in QueryCallbacks, AsyncQuery(cb) PROVE Places' /\ Effect
  <2> DEFINE op == NewOp("query", 0, cb)
  <2>1. op \in Op /\ op.id = issued + 1 /\ op.serial = 0
    BY NewOpType
  <2>2. Enqueue(op) /\ AddToDelayQueue(op) /\ UNCHANGED workerVars
    BY <1>15 DEF AsyncQuery
  <2> HIDE DEF op
  <2>3. QED BY <1>5, <2>1, <2>2
<1>16. ASSUME NEW s \in Serials, NEW cb \in QueryCallbacks, DelayQueryHolder(s, cb)
       PROVE  Places' /\ Effect
  <2> DEFINE op == NewOp("holder", s, cb)
  <2>1. op \in Op /\ op.id = issued + 1
    BY NewOpType
  <2>2. Enqueue(op) /\ AddToSerialDelayQueue(op) /\ Serving /\ UNCHANGED workerVars
    BY <1>16 DEF DelayQueryHolder
  <2> HIDE DEF op
  <2>3. QED BY <1>6, <2>1, <2>2
<1>17. QED
  BY <1>8, <1>9, <1>10, <1>11, <1>12, <1>13, <1>14, <1>15, <1>16 DEF Api

(* ExecuteOperation: the operation in the hands of the worker leaves        *)
(* Pending, and no pending operation of its serial id is older.             *)
LEMMA ExecuteEffect ==
    ASSUME TypeOK, Places, OneId, NEW w \in Workers, ExecuteOperation(w)
    PROVE  Places' /\ \E op \in Pending : Executes(op)
<1> DEFINE op == cur[w]
<1>1. /\ wpc[w] \in {"execShared", "execSerial"}
      /\ wpc'[w] \in {"cbShared", "cbSerial"}
      /\ \A v \in Workers : v # w => wpc'[v] = wpc[v]
      /\ cur' = cur /\ UNCHANGED queueVars
      /\ issued' = issued /\ executed' = Append(executed, op)
  BY DEF ExecuteOperation, TypeOK
<1>2. op \in Pending
  BY <1>1, PendingMember
<1>3. Places'
  BY <1>1 DEF Places, SharedQueue, SerialQueues, SharedInHand, SerialInHand, Sorted, Routed
<1>4. NumWorkers \in Nat /\ \A p \in Pending : p.id \in Nat /\ p.serial \in Nat
  BY NumWorkersAssumption, PendingType DEF Op
(* Where the other pending operations are. *)
<1>5. \A i \in DOMAIN delayQueue :
         /\ delayQueue[i].id # op.id
         /\ delayQueue[i].serial = 0
  <2>1. \A i \in DOMAIN delayQueue : delayQueue[i] \in Pending /\ delayQueue[i].serial = 0
    BY PendingMember DEF Places, SharedQueue
  <2>2. CASE wpc[w] = "execShared"
    <3>1. \A i \in DOMAIN delayQueue : op.id < delayQueue[i].id
      BY <2>2 DEF Places, SharedInHand
    <3>2. QED BY <1>2, <1>4, <2>1, <3>1
  <2>3. CASE wpc[w] = "execSerial"
    <3>1. op.serial # 0
      BY <2>3 DEF Places, SerialInHand, Routed
    <3>2. QED BY <1>2, <2>1, <3>1 DEF OneId
  <2>4. QED BY <1>1, <2>2, <2>3
<1>6. ASSUME NEW v \in Workers, NEW i \in DOMAIN serialDelayQueue[v]
      PROVE  LET p == serialDelayQueue[v][i]
             IN  p.id # op.id /\ (p.serial = op.serial => op.id < p.id)
  <2> DEFINE p == serialDelayQueue[v][i]
  <2>1. p \in Pending /\ p.serial # 0 /\ p.serial % NumWorkers = v
    BY PendingMember DEF Places, SerialQueues, Routed
  <2>2. CASE wpc[w] = "execShared"
    <3>1. op.serial = 0
      BY <2>2 DEF Places, SharedInHand
    <3>2. QED BY <1>2, <2>1, <3>1 DEF OneId
  <2>3. CASE wpc[w] = "execSerial" /\ v = w
    <3>1. op.id < p.id
      BY <2>3 DEF Places, SerialInHand
    <3>2. QED BY <1>2, <1>4, <2>1, <3>1
  <2>4. CASE wpc[w] = "execSerial" /\ v # w
    <3>1. op.serial % NumWorkers = w
      BY <2>4 DEF Places, SerialInHand, Routed
    <3>2. p.serial # op.serial
      BY <2>1, <2>4, <3>1
    <3>3. QED BY <1>2, <2>1, <3>2 DEF OneId
  <2>5. QED BY <1>1, <2>2, <2>3, <2>4
<1>7. ASSUME NEW v \in Workers, v # w, wpc[v] \in {"execShared", "execSerial"}
      PROVE  cur[v].id # op.id /\ (op.serial # 0 => cur[v].serial # op.serial)
  <2>1. cur[v] \in Pending
    BY <1>7, PendingMember
  <2>2. CASE wpc[v] = "execShared" /\ wpc[w] = "execShared"
    BY <1>7, <2>2 DEF Places, SharedInHand
  <2>3. CASE wpc[v] = "execSerial" /\ wpc[w] = "execSerial"
    <3>1. op.serial % NumWorkers = w /\ cur[v].serial % NumWorkers = v
      BY <2>3 DEF Places, SerialInHand, Routed
    <3>2. cur[v].serial # op.serial
      BY <1>7, <3>1
    <3>3. QED BY <1>2, <2>1, <3>2 DEF OneId
  <2>4. CASE wpc[v] = "execShared" /\ wpc[w] = "execSerial"
    <3>1. cur[v].serial = 0 /\ op.serial # 0
      BY <2>4 DEF Places, SharedInHand, SerialInHand, Routed
    <3>2. QED BY <1>2, <2>1, <3>1 DEF OneId
  <2>5. CASE wpc[v] = "execSerial" /\ wpc[w] = "execShared"
    <3>1. cur[v].serial # 0 /\ op.serial = 0
      BY <2>5 DEF Places, SharedInHand, SerialInHand, Routed
    <3>2. QED BY <1>2, <2>1, <3>1 DEF OneId
  <2>6. QED BY <1>1, <1>7, <2>2, <2>3, <2>4, <2>5
<1>8. \A p \in Pending : p # op /\ op.serial # 0 /\ p.serial = op.serial => op.id < p.id
  BY <1>5, <1>6, <1>7, PendingMember
<1>9. Pending' = Pending \ {op}
  <2>1. op \notin Pending'
    BY <1>1, <1>5, <1>6, <1>7, PendingMember
  <2>2. \A p : p \in Pending' => p \in Pending
    BY <1>1, PendingMember
  <2>3. \A p : p \in Pending /\ p # op => p \in Pending'
    BY <1>1, PendingMember
  <2>4. QED BY <1>2, <2>1, <2>2, <2>3
<1>10. Executes(op)
  BY <1>1, <1>8, <1>9 DEF Executes
<1>11. QED BY <1>2, <1>3, <1>10

(* Steps of a delay thread. *)
LEMMA WorkerEffect ==
    TypeOK /\ Places /\ History /\ (\E w \in Workers : Worker(w)) => Places' /\ Effect
<1> SUFFICES ASSUME TypeOK, Places, History, NEW w \in Workers, Worker(w)
             PROVE  Places' /\ Effect
  OBVIOUS
<1>1. CASE Loop(w)
  <2>1. KeepsHands /\ UNCHANGED queueVars
    BY <1>1 DEF Loop, KeepsHands, InFlight, TypeOK
  <2>2. QED BY <1>1, <2>1, PlacesSame DEF Loop, Effect, Rests
<1>2. CASE NextDelayedOperation(w)
  BY <1>2, PlacesTakeShared DEF NextDelayedOperation, History, Effect, Rests
<1>3. CASE NextSerialOperation(w)
  BY <1>3, PlacesTakeSerial DEF NextSerialOperation, Effect, Rests
<1>4. CASE ExecuteOperation(w)
  BY <1>4, ExecuteEffect DEF History, Effect
<1>5. CASE RunCallback(w)
  <2>1. KeepsHands
    BY <1>5 DEF RunCallback, KeepsHands, InFlight, TypeOK
  <2>2. CASE cur[w].cb = "follow" /\ issued < MaxOps
    <3> DEFINE op == NewOp("plain", 0, "none")
    <3>1. op \in Op /\ op.id = issued + 1 /\ op.serial = 0
      BY NewOpType, CallbacksAssumption
    <3>2. Enqueue(op) /\ AddToDelayQueue(op)
      BY <1>5, <2>2 DEF RunCallback
    <3> HIDE DEF op
    <3>3. QED BY <2>1, <3>1, <3>2, PlacesShared DEF History, Effect, HandsOver, Enqueue
  <2>3. CASE ~(cur[w].cb = "follow" /\ issued < MaxOps)
    BY <1>5, <2>1, <2>3, PlacesSame DEF RunCallback, Effect, Rests
  <2>4. QED BY <2>2, <2>3
<1>6. QED BY <1>1, <1>2, <1>3, <1>4, <1>5 DEF Worker

(* Steps of StopServer. *)
LEMMA HaltEffect == TypeOK /\ Places /\ Halt => Places' /\ Effect
<1> SUFFICES ASSUME TypeOK, Places, Halt PROVE Places' /\ Effect
  OBVIOUS
<1>1. KeepsHands
  BY DEF KeepsHands, InFlight, TypeOK, Halt, StopServer, Stop, Join, DestroyWorker,
         WorkerDestroyed, CloseConnections
<1>2. UNCHANGED <<queueVars, issued, executed>>
  BY DEF Halt, StopServer, Stop, Join, DestroyWorker, WorkerDestroyed, CloseConnections
<1>3. QED BY <1>1, <1>2, PlacesSame DEF Effect, Rests

(* Every step keeps the invariant and has one of the four effects. *)
LEMMA InvariantStep == IInv /\ [Next]_vars => IInv' /\ Effect
<1> SUFFICES ASSUME IInv, [Next]_vars PROVE IInv' /\ Effect
  OBVIOUS
<1>1. TypeOK /\ Places /\ History
  BY DEF IInv, Places, History
<1>2. TypeOK'
  BY <1>1, TypeStep
<1>3. CASE Api
  BY <1>1, <1>2, <1>3, ApiEffect, EffectHistory DEF IInv, Places, History
<1>4. CASE \E w \in Workers : Worker(w)
  BY <1>1, <1>2, <1>4, WorkerEffect, EffectHistory DEF IInv, Places, History
<1>5. CASE Halt
  BY <1>1, <1>2, <1>5, HaltEffect, EffectHistory DEF IInv, Places, History
<1>6. CASE Terminated \/ UNCHANGED vars
  <2>1. KeepsHands /\ UNCHANGED queueVars /\ UNCHANGED <<issued, executed>>
    BY <1>6 DEF Terminated, KeepsHands
  <2>2. Places' /\ Effect
    BY <1>1, <2>1, PlacesSame DEF Effect, Rests
  <2>3. QED BY <1>1, <1>2, <2>2, EffectHistory DEF IInv, Places, History
<1>7. QED BY <1>3, <1>4, <1>5, <1>6 DEF Next

-----------------------------------------------------------------------------
(* HaltDelayThread and the destructors of the workers lose nothing. *)

(* Every operation handed over was executed or is in a queue or a hand.     *)
HandedOver ==
    \A id \in 1 .. issued :
        \/ \E i \in DOMAIN executed : executed[i].id = id
        \/ \E p \in Pending : p.id = id

(* Statements are added by callbacks of the shared queue only: a worker     *)
(* that has left it behind adds none to it.                                 *)
SerialCallbacks ==
    /\ \A w \in Workers : \A i \in DOMAIN serialDelayQueue[w] :
          serialDelayQueue[w][i].cb # "follow"
    /\ \A w \in Workers : wpc[w] \in {"execSerial", "cbSerial"} => cur[w].cb # "follow"

Drained(w) == wpc[w] = "destroyed" /\ serialDelayQueue[w] = <<>>

(* The workers are joined one by one, then destroyed one by one: each       *)
(* destructor leaves an empty queue of its own behind, and an empty shared  *)
(* queue, as the workers after it do nothing yet.                           *)
StopOrder ==
    /\ stopPc = "join" => \A w \in Workers : w < stopIdx => wpc[w] = "exited"
    /\ stopPc = "clear" =>
          /\ \A w \in Workers : w > stopIdx => wpc[w] = "exited"
          /\ \A w \in Workers : w < stopIdx => Drained(w)
          /\ wpc[stopIdx] # "loop"
          /\ wpc[stopIdx] \in {"serial", "execSerial", "cbSerial", "destroyed"} => delayQueue = <<>>
          /\ wpc[stopIdx] = "destroyed" => serialDelayQueue[stopIdx] = <<>>
    /\ stopPc \in {"halted", "stopped"} =>
          delayQueue = <<>> /\ \A w \in Workers : Drained(w)

StopInv == SerialCallbacks /\ StopOrder

(* Nothing was handed over when the workers start. *)
LEMMA InitStop == Init => HandedOver /\ StopInv
<1> SUFFICES ASSUME Init PROVE HandedOver /\ StopInv
  OBVIOUS
<1>1. issued = 0 /\ stopPc = "no"
  BY DEF Init
<1>2. HandedOver
  BY <1>1 DEF HandedOver
<1>3. \A w \in Workers : serialDelayQueue[w] = <<>> /\ wpc[w] = "loop"
  BY DEF Init
<1>4. QED BY <1>1, <1>2, <1>3 DEF StopInv, SerialCallbacks, StopOrder

(* An operation moves from Pending to the history and leaves neither.       *)
LEMMA HandedOverStep == TypeOK /\ HandedOver /\ Effect => HandedOver'
<1> SUFFICES ASSUME TypeOK, HandedOver, Effect, NEW id \in 1 .. issued'
             PROVE  \/ \E i \in DOMAIN executed' : executed'[i].id = id
                    \/ \E p \in Pending' : p.id = id
  BY DEF HandedOver
<1>1. issued \in Nat /\ executed \in Seq(Op) /\ \A p \in Pending : p \in Op
  BY PendingType DEF TypeOK
<1>2. CASE Rests
  BY <1>2 DEF Rests, HandedOver
<1>3. ASSUME NEW op \in Op, HandsOver(op)
      PROVE  \/ \E i \in DOMAIN executed' : executed'[i].id = id
             \/ \E p \in Pending' : p.id = id
  <2>1. CASE id = issued + 1
    BY <1>3, <2>1 DEF HandsOver
  <2>2. CASE id # issued + 1
    <3>1. id \in 1 .. issued
      BY <1>1, <1>3, <2>2 DEF HandsOver
    <3>2. QED BY <1>3, <3>1 DEF HandsOver, HandedOver
  <2>3. QED BY <2>1, <2>2
<1>4. ASSUME NEW op \in Op, executed' = Append(executed, op)
      PROVE  /\ \A i \in DOMAIN executed : i \in DOMAIN executed' /\ executed'[i] = executed[i]
             /\ \E i \in DOMAIN executed' : executed'[i].id = op.id
  <2>1. /\ DOMAIN Append(executed, op) = 1 .. Len(executed) + 1
        /\ \A i \in DOMAIN executed : Append(executed, op)[i] = executed[i]
        /\ Append(executed, op)[Len(executed) + 1] = op
        /\ DOMAIN executed = 1 .. Len(executed)
        /\ Len(executed) \in Nat
    BY <1>1, AppendElems
  <2>2. QED BY <1>4, <2>1
<1>5. ASSUME NEW op \in Op, ExecutesDirectly(op)
      PROVE  \/ \E i \in DOMAIN executed' : executed'[i].id = id
             \/ \E p \in Pending' : p.id = id
  <2>1. CASE id = issued + 1
    BY <1>4, <1>5, <2>1 DEF ExecutesDirectly
  <2>2. CASE id # issued + 1
    <3>1. id \in 1 .. issued
      BY <1>1, <1>5, <2>2 DEF ExecutesDirectly
    <3>2. QED BY <1>4, <1>5, <3>1 DEF ExecutesDirectly, HandedOver
  <2>3. QED BY <2>1, <2>2
<1>6. ASSUME NEW op \in Pending, Executes(op)
      PROVE  \/ \E i \in DOMAIN executed' : executed'[i].id = id
             \/ \E p \in Pending' : p.id = id
  <2>1. op \in Op /\ executed' = Append(executed, op) /\ id \in 1 .. issued
    BY <1>1, <1>6 DEF Executes
  <2>2. CASE \E i \in DOMAIN executed : executed[i].id = id
    BY <1>4, <2>1, <2>2
  <2>3. CASE \E p \in Pending : p.id = id
    <3>1. PICK p \in Pending : p.id = id
      BY <2>3
    <3>2. CASE p = op
      BY <1>4, <2>1, <3>1, <3>2
    <3>3. CASE p # op
      BY <1>6, <3>1, <3>3 DEF Executes
    <3>4. QED BY <3>2, <3>3
  <2>4. QED BY <2>1, <2>2, <2>3 DEF HandedOver
<1>7. QED BY <1>2, <1>3, <1>5, <1>6 DEF Effect

(* A serial queue gets operations without a "follow" callback only. *)
LEMMA SerialAddCallbacks ==
    ASSUME TypeOK, StopInv, NEW op \in Op, op.cb # "follow", AddToSerialDelayQueue(op),
           UNCHANGED workerVars
    PROVE  SerialCallbacks'
<1> SUFFICES \A w \in Workers : \A i \in DOMAIN (serialDelayQueue'[w]) :
                 serialDelayQueue'[w][i].cb # "follow"
  BY DEF StopInv, SerialCallbacks
<1>1. CASE op.serial = 0 \/ numAsyncWorkers = 0
  BY <1>1 DEF AddToSerialDelayQueue, AddToDelayQueue, StopInv, SerialCallbacks
<1>2. CASE ~(op.serial = 0 \/ numAsyncWorkers = 0)
  <2>1. /\ serialDelayQueue \in [Workers -> Seq(Op)]
        /\ serialDelayQueue' = [serialDelayQueue EXCEPT ![op.serial % numAsyncWorkers] =
                                    Append(@, op)]
    BY <1>2 DEF TypeOK, AddToSerialDelayQueue
  <2>2. ASSUME NEW w \in Workers, NEW i \in DOMAIN (serialDelayQueue'[w])
        PROVE  serialDelayQueue'[w][i].cb # "follow"
    <3>1. CASE w # op.serial % numAsyncWorkers
      <4>1. serialDelayQueue'[w] = serialDelayQueue[w]
        BY <2>1, <3>1
      <4>2. QED BY <2>2, <4>1 DEF StopInv, SerialCallbacks
    <3>2. CASE w = op.serial % numAsyncWorkers
      <4>1. serialDelayQueue[w] \in Seq(Op) /\ serialDelayQueue'[w] = Append(serialDelayQueue[w], op)
        BY <2>1, <3>2
      <4> DEFINE q == serialDelayQueue[w]
      <4>2. /\ DOMAIN Append(q, op) = 1 .. Len(q) + 1
            /\ \A j \in DOMAIN q : Append(q, op)[j] = q[j]
            /\ Append(q, op)[Len(q) + 1] = op
            /\ DOMAIN q = 1 .. Len(q)
            /\ Len(q) \in Nat
        BY <4>1, AppendElems
      <4>3. CASE i = Len(q) + 1
        BY <4>1, <4>2, <4>3
      <4>4. CASE i # Len(q) + 1
        <5>1. i \in DOMAIN q
          BY <2>2, <4>1, <4>2, <4>4
        <5>2. serialDelayQueue'[w][i] = q[i]
          BY <4>1, <4>2, <5>1
        <5>3. QED BY <5>1, <5>2 DEF StopInv, SerialCallbacks
      <4>5. QED BY <4>3, <4>4
    <3>3. QED BY <3>1, <3>2
  <2>3. QED BY <2>2
<1>3. QED BY <1>1, <1>2

(* The API is called before StopServer only. *)
LEMMA ApiStop == TypeOK /\ StopInv /\ Api => StopInv'
<1> SUFFICES ASSUME TypeOK, StopInv, Api PROVE StopInv'
  OBVIOUS
<1> USE CallbacksAssumption DEF WriteCallbacks, QueryCallbacks
<1>1. stopPc = "no" /\ stopPc' = "no"
  BY DEF Api, Serving, AllowAsyncTransactions, BeginTransaction, ExecuteInTransaction, Execute,
         CommitTransaction, CommitTransactionDirect, RollbackTransaction, AsyncQuery,
         DelayQueryHolder
<1>2. StopOrder'
  BY <1>1 DEF StopOrder
<1>3. ASSUME UNCHANGED <<serialDelayQueue, workerVars>> PROVE SerialCallbacks'
  BY <1>3 DEF StopInv, SerialCallbacks
<1>4. ASSUME AllowAsyncTransactions PROVE SerialCallbacks'
  BY <1>3, <1>4 DEF AllowAsyncTransactions
<1>5. ASSUME NEW t \in Threads, NEW s \in Serials, BeginTransaction(t, s) PROVE SerialCallbacks'
  BY <1>3, <1>5 DEF BeginTransaction
<1>6. ASSUME NEW t \in Threads, ExecuteInTransaction(t) PROVE SerialCallbacks'
  BY <1>3, <1>6 DEF ExecuteInTransaction
<1>7. ASSUME NEW t \in Threads, NEW cb \in WriteCallbacks, Execute(t, cb) PROVE SerialCallbacks'
  BY <1>3, <1>7 DEF Execute, AddToDelayQueue, RunDirect
<1>8. ASSUME NEW t \in Threads, CommitTransaction(t) PROVE SerialCallbacks'
  <2> DEFINE op == NewOp("trans", transStorage[t].serial, "none")
  <2>1. transStorage[t].serial \in Serials
    BY <1>8 DEF CommitTransaction, TypeOK, Trans
  <2>2. "trans" \in Kinds /\ "none" \in Callbacks
    OBVIOUS
  <2>3. op \in Op
    BY <2>1, <2>2, NewOpType
  <2>4. op.cb # "follow"
    BY DEF NewOp
  <2>5. AddToSerialDelayQueue(op) /\ UNCHANGED workerVars
    BY <1>8 DEF CommitTransaction
  <2> HIDE DEF op
  <2>6. QED BY <2>3, <2>4, <2>5, SerialAddCallbacks
<1>9. ASSUME NEW t \in Threads, CommitTransactionDirect(t) PROVE SerialCallbacks'
  BY <1>3, <1>9 DEF CommitTransactionDirect, RunDirect
<1>10. ASSUME NEW t \in Threads, RollbackTransaction(t) PROVE SerialCallbacks'
  BY <1>3, <1>10 DEF RollbackTransaction
<1>11. ASSUME NEW cb \in QueryCallbacks, AsyncQuery(cb) PROVE SerialCallbacks'
  BY <1>3, <1>11 DEF AsyncQuery, AddToDelayQueue
<1>12. ASSUME NEW s \in Serials, NEW cb \in QueryCallbacks, DelayQueryHolder(s, cb)
       PROVE  SerialCallbacks'
  <2> DEFINE op == NewOp("holder", s, cb)
  <2>1. op \in Op
    BY NewOpType
  <2>2. op.cb # "follow"
    BY DEF NewOp
  <2>3. AddToSerialDelayQueue(op) /\ UNCHANGED workerVars
    BY <1>12 DEF DelayQueryHolder
  <2> HIDE DEF op
  <2>4. QED BY <2>1, <2>2, <2>3, SerialAddCallbacks
<1>13. SerialCallbacks'
  BY <1>4, <1>5, <1>6, <1>7, <1>8, <1>9, <1>10, <1>11, <1>12 DEF Api
<1>14. QED BY <1>2, <1>13 DEF StopInv

(* While the workers are destroyed only the one whose destructor runs       *)
(* takes steps, and it leaves an empty queue only for the next one.         *)
LEMMA WorkerStop == TypeOK /\ StopInv /\ (\E w \in Workers : Worker(w)) => StopInv'
<1> SUFFICES ASSUME TypeOK, StopInv, NEW w \in Workers, Worker(w) PROVE StopInv'
  OBVIOUS
<1> USE DEF TypeOK
<1>1. stopPc' = stopPc /\ stopIdx' = stopIdx /\ stopIdx \in Workers
  BY DEF Worker, Loop, NextDelayedOperation, NextSerialOperation, ExecuteOperation, RunCallback
<1>2. wpc[w] \notin {"exited", "destroyed"} /\ \A v \in Workers : v # w => wpc'[v] = wpc[v]
  BY DEF Worker, Loop, NextDelayedOperation, NextSerialOperation, ExecuteOperation, RunCallback
<1>3. stopPc = "clear" => w = stopIdx
  <2>1. \A v \in Workers : v < stopIdx \/ v = stopIdx \/ v > stopIdx
    BY <1>1, NumWorkersAssumption DEF Workers
  <2>2. QED BY <1>2, <2>1 DEF StopInv, StopOrder, Drained
<1>4. stopPc \notin {"halted", "stopped"}
  BY <1>2 DEF StopInv, StopOrder, Drained
<1>5. \A v \in Workers : v # w => serialDelayQueue'[v] = serialDelayQueue[v]
  BY DEF Worker, Loop, NextDelayedOperation, NextSerialOperation, ExecuteOperation, RunCallback,
         AddToDelayQueue
<1>6. stopPc = "clear" => wpc[w] # "loop"
  BY <1>3 DEF StopInv, StopOrder
<1>7. SerialCallbacks'
  <2>1. ASSUME UNCHANGED serialDelayQueue, UNCHANGED cur, wpc'[w] \in {"execSerial", "cbSerial"} =>
                   wpc[w] \in {"execSerial", "cbSerial"}
        PROVE  SerialCallbacks'
    BY <1>2, <2>1 DEF StopInv, SerialCallbacks
  <2>2. ASSUME UNCHANGED serialDelayQueue, \A v \in Workers : v # w => cur'[v] = cur[v],
               wpc'[w] \notin {"execSerial", "cbSerial"}
        PROVE  SerialCallbacks'
    BY <1>2, <2>2 DEF StopInv, SerialCallbacks
  <2>3. CASE Loop(w)
    BY <2>1, <2>3 DEF Loop
  <2>4. CASE NextDelayedOperation(w)
    BY <2>2, <2>4 DEF NextDelayedOperation
  <2>5. CASE NextSerialOperation(w)
    <3>1. CASE serialDelayQueue[w] = <<>>
      BY <2>1, <2>5, <3>1 DEF NextSerialOperation
    <3>2. CASE serialDelayQueue[w] # <<>>
      <4>1. /\ cur' = [cur EXCEPT ![w] = Head(serialDelayQueue[w])]
            /\ serialDelayQueue' = [serialDelayQueue EXCEPT ![w] = Tail(@)]
        BY <2>5, <3>2 DEF NextSerialOperation
      <4> DEFINE q == serialDelayQueue[w]
      <4>2. q \in Seq(Op)
        OBVIOUS
      <4>3. /\ Head(q) = q[1] /\ 1 \in DOMAIN q
            /\ \A i \in DOMAIN Tail(q) : i + 1 \in DOMAIN q /\ Tail(q)[i] = q[i + 1]
        BY <3>2, <4>2, TailElems
      <4>4. \A i \in DOMAIN q : q[i].cb # "follow"
        BY DEF StopInv, SerialCallbacks
      <4>5. cur'[w] = q[1] /\ serialDelayQueue'[w] = Tail(q)
        BY <4>1, <4>3
      <4>6. cur'[w].cb # "follow" /\ \A i \in DOMAIN (serialDelayQueue'[w]) :
                serialDelayQueue'[w][i].cb # "follow"
        BY <4>3, <4>4, <4>5
      <4>7. \A v \in Workers : v # w => cur'[v] = cur[v]
        BY <4>1
      <4>8. ASSUME NEW v \in Workers
            PROVE  /\ \A i \in DOMAIN (serialDelayQueue'[v]) : serialDelayQueue'[v][i].cb # "follow"
                   /\ wpc'[v] \in {"execSerial", "cbSerial"} => cur'[v].cb # "follow"
        <5>1. CASE v = w
          BY <4>6, <5>1
        <5>2. CASE v # w
          <6>1. /\ serialDelayQueue'[v] = serialDelayQueue[v] /\ wpc'[v] = wpc[v]
                /\ cur'[v] = cur[v]
            BY <1>2, <1>5, <4>7, <5>2
          <6>2. QED BY <6>1 DEF StopInv, SerialCallbacks
        <5>3. QED BY <5>1, <5>2
      <4>9. QED BY <4>8 DEF SerialCallbacks
    <3>3. QED BY <3>1, <3>2
  <2>6. CASE ExecuteOperation(w)
    BY <2>1, <2>6 DEF ExecuteOperation
  <2>7. CASE RunCallback(w)
    BY <2>2, <2>7 DEF RunCallback, AddToDelayQueue
  <2>8. QED BY <2>3, <2>4, <2>5, <2>6, <2>7 DEF Worker
<1>8. CASE stopPc = "clear"
  <2>1. w = stopIdx
    BY <1>3, <1>8
  <2>2. /\ \A v \in Workers : v > stopIdx => wpc'[v] = "exited"
        /\ \A v \in Workers : v < stopIdx => wpc'[v] = "destroyed" /\ serialDelayQueue'[v] = <<>>
    BY <1>1, <1>2, <1>5, <1>8, <2>1, NumWorkersAssumption DEF StopInv, StopOrder, Drained, Workers
  <2>3. /\ wpc'[w] # "loop"
        /\ wpc'[w] \in {"serial", "execSerial", "cbSerial", "destroyed"} => delayQueue' = <<>>
        /\ wpc'[w] = "destroyed" => serialDelayQueue'[w] = <<>>
    <3>1. wpc[w] \in {"serial", "execSerial", "cbSerial"} => delayQueue = <<>>
      BY <1>8, <2>1 DEF StopInv, StopOrder
    <3>2. CASE NextDelayedOperation(w)
      BY <3>2 DEF NextDelayedOperation
    <3>3. CASE NextSerialOperation(w)
      BY <1>8, <3>1, <3>3 DEF NextSerialOperation
    <3>4. CASE ExecuteOperation(w)
      BY <3>1, <3>4 DEF ExecuteOperation
    <3>5. CASE RunCallback(w)
      <4>1. CASE wpc[w] = "cbShared"
        BY <3>5, <4>1 DEF RunCallback
      <4>2. CASE wpc[w] = "cbSerial"
        <5>1. cur[w].cb # "follow"
          BY <4>2 DEF StopInv, SerialCallbacks
        <5>2. delayQueue' = delayQueue /\ wpc'[w] = "serial"
          BY <3>5, <4>2, <5>1 DEF RunCallback
        <5>3. QED BY <1>8, <2>1, <4>2, <5>2 DEF StopInv, StopOrder
      <4>3. QED BY <3>5, <4>1, <4>2 DEF RunCallback
    <3>6. QED BY <1>6, <1>8, <3>2, <3>3, <3>4, <3>5 DEF Worker, Loop
  <2>4. StopOrder'
    BY <1>1, <1>8, <2>1, <2>2, <2>3 DEF StopOrder, Drained
  <2>5. QED BY <1>7, <2>4 DEF StopInv
<1>9. CASE stopPc # "clear"
  <2>1. stopPc = "join" => \A v \in Workers : v < stopIdx => wpc'[v] = "exited"
    BY <1>2 DEF StopInv, StopOrder
  <2>2. StopOrder'
    BY <1>1, <1>4, <1>9, <2>1 DEF StopOrder
  <2>3. QED BY <1>7, <2>2 DEF StopInv
<1>10. QED BY <1>8, <1>9

(* Stop, join and the destructors. *)
LEMMA HaltStop == TypeOK /\ StopInv /\ Halt => StopInv'
<1> SUFFICES ASSUME TypeOK, StopInv, Halt PROVE StopInv'
  OBVIOUS
<1> USE NumWorkersAssumption DEF TypeOK, Workers
<1>1. CASE StopServer
  BY <1>1 DEF StopServer, Serving, StopInv, SerialCallbacks, StopOrder
<1>2. CASE Stop
  BY <1>2 DEF Stop, StopInv, SerialCallbacks, StopOrder
<1>3. CASE Join
  <2>1. SerialCallbacks'
    BY <1>3 DEF Join, StopInv, SerialCallbacks
  <2>2. \A v \in Workers : v < stopIdx + 1 => wpc[v] = "exited"
    BY <1>3 DEF Join, StopInv, StopOrder
  <2>3. CASE stopIdx + 1 = numAsyncWorkers
    BY <1>3, <2>1, <2>2, <2>3 DEF Join, StopInv, StopOrder
  <2>4. CASE stopIdx + 1 # numAsyncWorkers
    BY <1>3, <2>1, <2>2, <2>4 DEF Join, StopInv, StopOrder
  <2>5. QED BY <2>3, <2>4
<1>4. CASE DestroyWorker
  BY <1>4 DEF DestroyWorker, StopInv, SerialCallbacks, StopOrder, Drained
<1>5. CASE WorkerDestroyed
  <2>1. SerialCallbacks'
    BY <1>5 DEF WorkerDestroyed, StopInv, SerialCallbacks
  <2>2. ASSUME NEW v \in Workers, v < stopIdx + 1 PROVE Drained(v)
    <3>1. v < stopIdx \/ v = stopIdx
      BY <2>2
    <3>2. QED BY <1>5, <3>1 DEF WorkerDestroyed, StopInv, StopOrder, Drained
  <2>3. delayQueue = <<>> /\ \A v \in Workers : v > stopIdx => wpc[v] = "exited"
    BY <1>5 DEF WorkerDestroyed, StopInv, StopOrder
  <2>4. UNCHANGED <<wpc, queueVars>>
    BY <1>5 DEF WorkerDestroyed
  <2>5. CASE stopIdx + 1 = NumWorkers
    <3>1. stopPc' = "halted"
      BY <1>5, <2>5 DEF WorkerDestroyed
    <3>2. \A v \in Workers : Drained(v)
      BY <2>2, <2>5
    <3>3. QED BY <2>1, <2>3, <2>4, <3>1, <3>2 DEF StopInv, StopOrder, Drained
  <2>6. CASE stopIdx + 1 # NumWorkers
    <3>1. stopPc' = "clear" /\ stopIdx' = stopIdx + 1 /\ stopIdx + 1 \in Workers
      BY <1>5, <2>6 DEF WorkerDestroyed
    <3>2. \A v \in Workers : v < stopIdx + 1 => Drained(v)'
      BY <2>2, <2>4 DEF Drained
    <3>3. wpc'[stopIdx + 1] = "exited" /\ \A v \in Workers : v > stopIdx + 1 => wpc'[v] = "exited"
      BY <2>3, <2>4, <3>1
    <3>4. QED BY <2>1, <3>1, <3>2, <3>3 DEF StopInv, StopOrder, Drained
  <2>7. QED BY <2>5, <2>6
<1>6. CASE CloseConnections
  BY <1>6 DEF CloseConnections, StopInv, SerialCallbacks, StopOrder, Drained
<1>7. QED BY <1>1, <1>2, <1>3, <1>4, <1>5, <1>6 DEF Halt

(* Every step keeps what StopServer relies on. *)
LEMMA StopStep == TypeOK /\ StopInv /\ [Next]_vars => StopInv'
<1> SUFFICES ASSUME TypeOK, StopInv, [Next]_vars PROVE StopInv'
  OBVIOUS
<1>1. CASE Terminated \/ UNCHANGED vars
  BY <1>1 DEF Terminated, StopInv, SerialCallbacks, StopOrder, Drained
<1>2. QED BY <1>1, ApiStop, WorkerStop, HaltStop DEF Next

-----------------------------------------------------------------------------
(* The theorems. *)

(* The places and the order of the operations hold in every reachable state. *)
THEOREM Invariant == Spec => []IInv
<1>1. QED BY InitInvariant, InvariantStep, PTL DEF Spec

(* Operations of one serial id (the saves of a character and the holder     *)
(* that loads it) are executed in the order they were handed over, for any  *)
(* number of workers.                                                       *)
THEOREM SerialOrderHolds == Spec => []SerialOrder
<1>1. IInv => SerialOrder
  BY DEF IInv
<1>2. QED BY <1>1, Invariant, PTL

(* No operation is executed twice, none is both executed and pending. *)
THEOREM ExecutedOnceHolds == Spec => []ExecutedOnce
<1>1. IInv => ExecutedOnce
  BY DEF IInv
<1>2. QED BY <1>1, Invariant, PTL

(* Two workers never execute operations of one character at the same time. *)
THEOREM SerialExclusiveHolds == Spec => []SerialExclusive
<1>1. IInv => SerialExclusive
  <2> SUFFICES ASSUME IInv, NEW v \in Workers, NEW w \in Workers,
                      InFlight(v), InFlight(w), v # w
               PROVE  cur[v].serial = 0 \/ cur[v].serial # cur[w].serial
    BY DEF SerialExclusive
  <2>1. CASE wpc[v] = "execShared"
    BY <2>1 DEF IInv, SharedInHand
  <2>2. CASE wpc[v] = "execSerial" /\ wpc[w] = "execShared"
    BY <2>2 DEF IInv, SharedInHand, SerialInHand, Routed
  <2>3. CASE wpc[v] = "execSerial" /\ wpc[w] = "execSerial"
    BY <2>3 DEF IInv, SerialInHand, Routed
  <2>4. QED BY <2>1, <2>2, <2>3 DEF InFlight
<1>2. QED BY <1>1, Invariant, PTL

(* Whatever was handed over is executed when HaltDelayThread has returned:  *)
(* at that point no queue holds anything and no worker is at work, and an   *)
(* operation is never anywhere else.                                        *)
THEOREM NothingLost == Spec => []NothingLostAtStop
<1>1. IInv /\ HandedOver /\ StopInv /\ [Next]_vars => (HandedOver /\ StopInv)'
  <2>1. IInv /\ [Next]_vars => TypeOK /\ Effect
    BY InvariantStep DEF IInv
  <2>2. QED BY <2>1, HandedOverStep, StopStep
<1>2. HandedOver /\ StopInv => NothingLostAtStop
  <2> SUFFICES ASSUME HandedOver, StopInv, stopPc \in {"halted", "stopped"}
               PROVE  \A id \in 1 .. issued : \E i \in DOMAIN executed : executed[i].id = id
    BY DEF NothingLostAtStop
  <2>1. \A p : p \notin Pending
    BY PendingMember DEF StopInv, StopOrder, Drained
  <2>2. QED BY <2>1 DEF HandedOver
<1>3. QED BY InitStop, Invariant, <1>1, <1>2, PTL DEF Spec

(* The queues and workers implement AsyncDatabase: an operation handed over *)
(* is pending until it is executed once, and never before an older one of   *)
(* its serial id.                                                           *)
THEOREM Refinement == Spec => ImplementsAsyncDatabase
<1>1. Init => Abstract!Init
  <2> SUFFICES ASSUME Init PROVE Abstract!Init
    OBVIOUS
  <2>1. \A p : p \notin Pending
    BY PendingMember DEF Init
  <2>2. QED BY <2>1 DEF Init, Abstract!Init
<1>2. IInv /\ [Next]_vars => [Abstract!Next]_Abstract!avars
  <2> SUFFICES ASSUME IInv, [Next]_vars PROVE [Abstract!Next]_Abstract!avars
    OBVIOUS
  <2>1. TypeOK /\ Bounded /\ OneId /\ Effect
    BY InvariantStep DEF IInv
  <2>2. issued \in Nat /\ \A p \in Pending : p.id \in Nat
    BY <2>1, IdsInUse
  <2>3. \A op \in Op : op.id = issued + 1 => op \in Abstract!OpsWithId(issued + 1)
    BY DEF Op, Abstract!OpsWithId
  <2>4. CASE Rests
    BY <2>4 DEF Rests, Abstract!avars
  <2>5. ASSUME NEW op \in Op, HandsOver(op) PROVE Abstract!Next
    <3>1. Abstract!Submit(op) /\ op \in Abstract!OpsWithId(issued + 1)
      BY <2>3, <2>5 DEF HandsOver, Abstract!Submit
    <3>2. QED BY <3>1 DEF Abstract!Next
  <2>6. ASSUME NEW op \in Op, ExecutesDirectly(op) PROVE Abstract!Next
    <3>1. Abstract!RunDirect(op) /\ op \in Abstract!OpsWithId(issued + 1)
      BY <2>3, <2>6 DEF ExecutesDirectly, Abstract!RunDirect
    <3>2. QED BY <3>1 DEF Abstract!Next
  <2>7. ASSUME NEW op \in Pending, Executes(op) PROVE Abstract!Next
    <3>1. Abstract!Eligible(op)
      BY <2>2, <2>7 DEF Executes, Abstract!Eligible
    <3>2. Abstract!Run(op)
      BY <2>7, <3>1 DEF Executes, Abstract!Run
    <3>3. QED BY <3>2 DEF Abstract!Next
  <2>8. QED BY <2>1, <2>4, <2>5, <2>6, <2>7 DEF Effect
<1>3. QED
  BY <1>1, <1>2, Invariant, PTL DEF Spec, ImplementsAsyncDatabase, Abstract!Spec

===============================================================================
