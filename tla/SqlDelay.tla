-------------------------------- MODULE SqlDelay --------------------------------
(***************************************************************************)
(* The asynchronous half of the database layer (shared/Database): threads   *)
(* of the server hand operations to a Database, SqlDelayThread workers      *)
(* execute them, and the results of queries come back to the world thread   *)
(* through SqlResultQueue.                                                  *)
(*                                                                          *)
(* Two kinds of queues feed the workers.  m_delayQueue is shared by all of  *)
(* them.  An operation with a serial id (the low guid of a character) goes  *)
(* to the queue of worker serialId % m_numAsyncWorkers instead, so that the *)
(* saves of a character and the query holder that loads it stay in order.   *)
(*                                                                          *)
(* One Execute() of an operation is one step here; what happens inside a    *)
(* transaction (retries, rollback, lost connections) is SqlTransaction.tla. *)
(***************************************************************************)
EXTENDS Integers, Sequences, FiniteSets

CONSTANTS
    Threads,      \* the threads that call the Database API
    NumWorkers,   \* nWorkers of Database::Initialize, <Name>Database.WorkerThreads
    Serials,      \* the serial ids in use; 0 is "no serial id"
    Callbacks,    \* the callbacks in use, see AllCallbacks
    MaxStmts,     \* bound: statements collected in one open transaction
    MaxOps,       \* bound: operations handed to the database
    NoOp,         \* a null SqlOperation*
    NoTrans       \* a null SqlTransaction*

ASSUME NumWorkersAssumption == NumWorkers \in Nat \ {0}
ASSUME SerialsAssumption == Serials \subseteq Nat /\ 0 \in Serials
ASSUME BoundsAssumption == MaxStmts \in Nat /\ MaxOps \in Nat

Workers == 0 .. NumWorkers - 1

(* The kinds of SqlOperation.  A "direct" operation is executed by its      *)
(* caller on m_pAsyncConn and never enters a queue.                         *)
Kinds == {"plain", "trans", "query", "holder", "direct"}

(* The callback of an operation.  "follow" is a std::function run by the    *)
(* worker that hands over another statement (WhisperTargetLimits does);     *)
(* "safe" and "unsafe" are query callbacks with IQueryCallback::threadSafe. *)
AllCallbacks == {"none", "follow", "safe", "unsafe"}
WriteCallbacks == Callbacks \cap {"none", "follow"}
QueryCallbacks == Callbacks \cap {"safe", "unsafe"}

ASSUME CallbacksAssumption == Callbacks \subseteq AllCallbacks /\ "none" \in Callbacks

Op == [id : Nat \ {0}, kind : Kinds, serial : Serials, cb : Callbacks]

(* The SqlTransaction under construction of one thread. *)
Trans == [serial : Serials, stmts : 0 .. MaxStmts]

ASSUME NullAssumption == NoOp \notin Op /\ NoTrans \notin Trans

VARIABLES
    allowAsync,        \* Database::m_bAllowAsyncTransactions
    asyncConn,         \* m_pAsyncConn and m_pResultQueue are not null
    transStorage,      \* m_TransStorage, one SqlTransaction* per thread
    delayQueue,        \* m_delayQueue
    serialDelayQueue,  \* SqlDelayThread::m_serialDelayQueue of every worker
    numAsyncWorkers,   \* m_numAsyncWorkers
    running,           \* SqlDelayThread::m_running of every worker
    wpc,               \* where every worker is in run() and ProcessRequests()
    cur,               \* the operation a worker took and has not deleted
    stopPc,            \* progress of the thread inside StopServer()
    stopIdx,           \* the worker HaltDelayThread is at
    issued,            \* operations handed over so far; the last id given out
    executed           \* history: operations executed, in order

dbVars     == <<allowAsync, asyncConn, numAsyncWorkers>>
queueVars  == <<delayQueue, serialDelayQueue>>
workerVars == <<running, wpc, cur>>
stopVars   == <<stopPc, stopIdx>>
vars == <<dbVars, transStorage, queueVars, workerVars, stopVars, issued, executed>>

Init ==
    /\ allowAsync = FALSE
    /\ asyncConn = TRUE
    /\ transStorage = [t \in Threads |-> NoTrans]
    /\ delayQueue = <<>>
    /\ serialDelayQueue = [w \in Workers |-> <<>>]
    /\ numAsyncWorkers = NumWorkers
    /\ running = [w \in Workers |-> TRUE]
    /\ wpc = [w \in Workers |-> "loop"]
    /\ cur = [w \in Workers |-> NoOp]
    /\ stopPc = "no"
    /\ stopIdx = 0
    /\ issued = 0
    /\ executed = <<>>

-----------------------------------------------------------------------------
(* The Database API.  Its callers are gone when StopServer begins: Master   *)
(* joins the world thread, which has stopped the network, before that.      *)

Serving == asyncConn /\ stopPc = "no"

NewOp(kind, serial, cb) ==
    [id |-> issued + 1, kind |-> kind, serial |-> serial, cb |-> cb]

AddToDelayQueue(op) ==
    /\ delayQueue' = Append(delayQueue, op)
    /\ UNCHANGED serialDelayQueue

(* Mutant: the load balancing the TODO at Database.cpp:594 warns about. *)
AddToSerialDelayQueueBalanced(op) ==
    /\ serialDelayQueue' =
           [serialDelayQueue EXCEPT ![op.id % NumWorkers] = Append(@, op)]
    /\ UNCHANGED delayQueue

(* Mutant: the serial id is forgotten. *)
AddToSerialDelayQueueShared(op) == AddToDelayQueue(op)

AddToSerialDelayQueue(op) ==
    IF op.serial = 0 \/ numAsyncWorkers = 0
    THEN AddToDelayQueue(op)
    ELSE /\ LET w == op.serial % numAsyncWorkers
            IN  serialDelayQueue' =
                    [serialDelayQueue EXCEPT ![w] = Append(@, op)]
         /\ UNCHANGED delayQueue

Enqueue(op) ==
    /\ issued < MaxOps
    /\ issued' = op.id
    /\ UNCHANGED executed

(* The caller executes op itself, holding the lock of m_pAsyncConn. *)
RunDirect(op) ==
    /\ issued < MaxOps
    /\ issued' = op.id
    /\ executed' = Append(executed, op)
    /\ UNCHANGED queueVars

(* Database::AllowAsyncTransactions, once the server has loaded. *)
AllowAsyncTransactions ==
    /\ Serving
    /\ ~allowAsync
    /\ allowAsync' = TRUE
    /\ UNCHANGED <<asyncConn, numAsyncWorkers, transStorage, queueVars, workerVars,
                   stopVars, issued, executed>>

(* Database::BeginTransaction.  It refuses a second transaction. *)
BeginTransaction(t, serial) ==
    /\ Serving
    /\ transStorage[t] = NoTrans
    /\ transStorage' = [transStorage EXCEPT
           ![t] = [serial |-> serial, stmts |-> 0]]
    /\ UNCHANGED <<dbVars, queueVars, workerVars, stopVars,
                   issued, executed>>

(* Database::Execute and ExecuteStmt with a transaction open: the statement *)
(* joins it.                                                                *)
ExecuteInTransaction(t) ==
    /\ Serving
    /\ transStorage[t] # NoTrans
    /\ transStorage[t].stmts < MaxStmts
    /\ transStorage' = [transStorage EXCEPT ![t].stmts = @ + 1]
    /\ UNCHANGED <<dbVars, queueVars, workerVars, stopVars, issued, executed>>

(* Database::Execute and ExecuteStmt without a transaction.  While the      *)
(* server loads, the statement is executed at once and a callback dropped.  *)
Execute(t, cb) ==
    /\ Serving
    /\ transStorage[t] = NoTrans
    /\ IF allowAsync
       THEN LET op == NewOp("plain", 0, cb)
            IN  Enqueue(op) /\ AddToDelayQueue(op)
       ELSE RunDirect(NewOp("direct", 0, "none"))
    /\ UNCHANGED <<dbVars, transStorage, workerVars, stopVars>>

(* Database::CommitTransactionDirect: pTrans->Execute(m_pAsyncConn), then   *)
(* the transaction is deleted with its callback.                            *)
CommitTransactionDirect(t) ==
    /\ Serving
    /\ transStorage[t] # NoTrans
    /\ RunDirect(NewOp("direct", transStorage[t].serial, "none"))
    /\ transStorage' = [transStorage EXCEPT ![t] = NoTrans]
    /\ UNCHANGED <<dbVars, workerVars, stopVars>>

(* Database::CommitTransaction once async transactions are allowed; before  *)
(* that it is CommitTransactionDirect.                                      *)
CommitTransaction(t) ==
    /\ Serving
    /\ transStorage[t] # NoTrans
    /\ allowAsync
    /\ LET op == NewOp("trans", transStorage[t].serial, "none")
       IN  Enqueue(op) /\ AddToSerialDelayQueue(op)
    /\ transStorage' = [transStorage EXCEPT ![t] = NoTrans]
    /\ UNCHANGED <<dbVars, workerVars, stopVars>>

(* Database::RollbackTransaction deletes the statements collected so far. *)
RollbackTransaction(t) ==
    /\ Serving
    /\ transStorage[t] # NoTrans
    /\ transStorage' = [transStorage EXCEPT ![t] = NoTrans]
    /\ UNCHANGED <<dbVars, queueVars, workerVars, stopVars,
                   issued, executed>>

(* Database::AsyncQuery and AsyncQueryUnsafe. *)
AsyncQuery(cb) ==
    /\ Serving
    /\ LET op == NewOp("query", 0, cb)
       IN  Enqueue(op) /\ AddToDelayQueue(op)
    /\ UNCHANGED <<dbVars, transStorage, workerVars, stopVars>>

(* Database::DelayQueryHolder and DelayQueryHolderUnsafe. *)
DelayQueryHolder(serial, cb) ==
    /\ Serving
    /\ LET op == NewOp("holder", serial, cb)
       IN  Enqueue(op) /\ AddToSerialDelayQueue(op)
    /\ UNCHANGED <<dbVars, transStorage, workerVars, stopVars>>

-----------------------------------------------------------------------------
(* SqlDelayThread.  A worker drains the shared queue, then its own, and     *)
(* looks at m_running in between.  The destructor of a worker drains both   *)
(* queues once more, in the thread that runs HaltDelayThread.               *)

(* Mutant: run() never looks at m_running again. *)
LoopForever(w) ==
    /\ wpc[w] = "loop"
    /\ wpc' = [wpc EXCEPT ![w] = "shared"]
    /\ UNCHANGED <<dbVars, transStorage, queueVars, running, cur, stopVars,
                   issued, executed>>

(* The head of the while loop of run(). *)
Loop(w) ==
    /\ wpc[w] = "loop"
    /\ wpc' = [wpc EXCEPT ![w] = IF running[w] THEN "shared" ELSE "exited"]
    /\ UNCHANGED <<dbVars, transStorage, queueVars, running, cur,
                   stopVars, issued, executed>>

(* Mutant: the operation is read but not popped under the lock. *)
NextDelayedOperationNoPop(w) ==
    /\ wpc[w] = "shared"
    /\ IF delayQueue = <<>>
       THEN wpc' = [wpc EXCEPT ![w] = "serial"] /\ UNCHANGED cur
       ELSE /\ wpc' = [wpc EXCEPT ![w] = "execShared"]
            /\ cur' = [cur EXCEPT ![w] = Head(delayQueue)]
    /\ UNCHANGED <<dbVars, transStorage, queueVars, running, stopVars,
                   issued, executed>>

(* Mutant: an empty shared queue ends ProcessRequests. *)
NextDelayedOperationReturns(w) ==
    /\ wpc[w] = "shared"
    /\ IF delayQueue = <<>>
       THEN /\ wpc' = [wpc EXCEPT ![w] = IF stopPc = "clear" THEN "serial" ELSE "loop"]
            /\ UNCHANGED <<delayQueue, cur>>
       ELSE /\ wpc' = [wpc EXCEPT ![w] = "execShared"]
            /\ cur' = [cur EXCEPT ![w] = Head(delayQueue)]
            /\ delayQueue' = Tail(delayQueue)
    /\ UNCHANGED <<dbVars, transStorage, serialDelayQueue, running, stopVars,
                   issued, executed>>

(* m_dbEngine->NextDelayedOperation(s). *)
NextDelayedOperation(w) ==
    /\ wpc[w] = "shared"
    /\ IF delayQueue = <<>>
       THEN /\ wpc' = [wpc EXCEPT ![w] = "serial"]
            /\ UNCHANGED <<delayQueue, cur>>
       ELSE /\ wpc' = [wpc EXCEPT ![w] = "execShared"]
            /\ cur' = [cur EXCEPT ![w] = Head(delayQueue)]
            /\ delayQueue' = Tail(delayQueue)
    /\ UNCHANGED <<dbVars, transStorage, serialDelayQueue, running,
                   stopVars, issued, executed>>

(* m_serialDelayQueue.next(s).  When it is empty, ProcessRequests returns   *)
(* to run() or to the destructor.                                           *)
NextSerialOperation(w) ==
    /\ wpc[w] = "serial"
    /\ IF serialDelayQueue[w] = <<>>
       THEN /\ wpc' = [wpc EXCEPT ![w] = IF stopPc = "clear" THEN "destroyed"
                                                             ELSE "loop"]
            /\ UNCHANGED <<serialDelayQueue, cur>>
       ELSE /\ wpc' = [wpc EXCEPT ![w] = "execSerial"]
            /\ cur' = [cur EXCEPT ![w] = Head(serialDelayQueue[w])]
            /\ serialDelayQueue' = [serialDelayQueue EXCEPT ![w] = Tail(@)]
    /\ UNCHANGED <<dbVars, transStorage, delayQueue, running,
                   stopVars, issued, executed>>

(* s->Execute(m_dbConnection).  A query leaves its callback in the result   *)
(* queue.                                                                   *)
ExecuteOperation(w) ==
    /\ wpc[w] \in {"execShared", "execSerial"}
    /\ wpc' = [wpc EXCEPT ![w] = IF @ = "execShared" THEN "cbShared"
                                                     ELSE "cbSerial"]
    /\ executed' = Append(executed, cur[w])
    /\ UNCHANGED <<dbVars, transStorage, queueVars, running,
                   cur, stopVars, issued>>

(* The callback of the operation runs, then the operation is deleted.  A    *)
(* "follow" callback calls Execute from the thread of the worker, which has *)
(* no transaction open.                                                     *)
RunCallback(w) ==
    /\ wpc[w] \in {"cbShared", "cbSerial"}
    /\ wpc' = [wpc EXCEPT ![w] = IF @ = "cbShared" THEN "shared" ELSE "serial"]
    /\ cur' = [cur EXCEPT ![w] = NoOp]
    /\ IF cur[w].cb = "follow" /\ issued < MaxOps
       THEN LET op == NewOp("plain", 0, "none")
            IN  Enqueue(op) /\ AddToDelayQueue(op)
       ELSE UNCHANGED <<queueVars, issued, executed>>
    /\ UNCHANGED <<dbVars, transStorage, running, stopVars>>

-----------------------------------------------------------------------------
(* Database::StopServer, called by Master when the world thread has ended.  *)
(* A transaction left open went with the TransHelper of its thread.         *)

StopServer ==
    /\ Serving
    /\ stopPc' = "stop"
    /\ transStorage' = [t \in Threads |-> NoTrans]
    /\ UNCHANGED <<dbVars, queueVars, workerVars, stopIdx, issued, executed>>

(* Mutant: the loop over the workers goes one too far. *)
StopOffByOne ==
    /\ stopPc = "stop"
    /\ running' = [running EXCEPT ![stopIdx] = FALSE]
    /\ IF stopIdx = numAsyncWorkers
       THEN stopPc' = "join" /\ stopIdx' = 0
       ELSE stopIdx' = stopIdx + 1 /\ UNCHANGED stopPc
    /\ UNCHANGED <<dbVars, transStorage, queueVars, wpc, cur, issued, executed>>

(* m_threadsBodies[i]->Stop() *)
Stop ==
    /\ stopPc = "stop"
    /\ running' = [running EXCEPT ![stopIdx] = FALSE]
    /\ IF stopIdx + 1 = numAsyncWorkers
       THEN stopPc' = "join" /\ stopIdx' = 0
       ELSE stopIdx' = stopIdx + 1 /\ UNCHANGED stopPc
    /\ UNCHANGED <<dbVars, transStorage, queueVars, wpc,
                   cur, issued, executed>>

(* m_delayThreads[i].join() *)
Join ==
    /\ stopPc = "join"
    /\ wpc[stopIdx] = "exited"
    /\ IF stopIdx + 1 = numAsyncWorkers
       THEN stopPc' = "clear" /\ stopIdx' = 0
       ELSE stopIdx' = stopIdx + 1 /\ UNCHANGED stopPc
    /\ UNCHANGED <<dbVars, transStorage, queueVars, workerVars,
                   issued, executed>>

(* Mutant: ~SqlDelayThread does not call ProcessRequests. *)
DestroyWorkerNoDrain ==
    /\ stopPc = "clear"
    /\ wpc[stopIdx] = "exited"
    /\ wpc' = [wpc EXCEPT ![stopIdx] = "destroyed"]
    /\ UNCHANGED <<dbVars, transStorage, queueVars, running, cur, stopVars,
                   issued, executed>>

(* m_threadsBodies.clear(): ~SqlDelayThread of the next worker enters       *)
(* ProcessRequests.                                                         *)
DestroyWorker ==
    /\ stopPc = "clear"
    /\ wpc[stopIdx] = "exited"
    /\ wpc' = [wpc EXCEPT ![stopIdx] = "shared"]
    /\ UNCHANGED <<dbVars, transStorage, queueVars, running, cur,
                   stopVars, issued, executed>>

(* The destructor is done; after the last one m_numAsyncWorkers = 0. *)
WorkerDestroyed ==
    /\ stopPc = "clear"
    /\ wpc[stopIdx] = "destroyed"
    /\ IF stopIdx + 1 = NumWorkers
       THEN stopPc' = "halted" /\ numAsyncWorkers' = 0 /\ UNCHANGED stopIdx
       ELSE stopIdx' = stopIdx + 1 /\ UNCHANGED <<stopPc, numAsyncWorkers>>
    /\ UNCHANGED <<allowAsync, asyncConn, transStorage, queueVars,
                   workerVars, issued, executed>>

(* The rest of StopServer: CancelAll on the result queue, then the          *)
(* connections are deleted and every later call is refused.                 *)
CloseConnections ==
    /\ stopPc = "halted"
    /\ stopPc' = "stopped"
    /\ asyncConn' = FALSE
    /\ UNCHANGED <<allowAsync, numAsyncWorkers, transStorage, queueVars, workerVars,
                   stopIdx, issued, executed>>

(* The database is closed; the process ends. *)
Terminated == stopPc = "stopped" /\ UNCHANGED vars

-----------------------------------------------------------------------------
Api ==
    \/ AllowAsyncTransactions
    \/ \E t \in Threads :
          \/ \E s \in Serials : BeginTransaction(t, s)
          \/ ExecuteInTransaction(t)
          \/ \E cb \in WriteCallbacks : Execute(t, cb)
          \/ CommitTransaction(t)
          \/ CommitTransactionDirect(t)
          \/ RollbackTransaction(t)
    \/ \E cb \in QueryCallbacks : AsyncQuery(cb)
    \/ \E s \in Serials, cb \in QueryCallbacks : DelayQueryHolder(s, cb)

Worker(w) ==
    \/ Loop(w)
    \/ NextDelayedOperation(w)
    \/ NextSerialOperation(w)
    \/ ExecuteOperation(w)
    \/ RunCallback(w)

Halt ==
    \/ StopServer \/ Stop \/ Join \/ DestroyWorker \/ WorkerDestroyed \/ CloseConnections

Next == Api \/ (\E w \in Workers : Worker(w)) \/ Halt \/ Terminated

Spec == Init /\ [][Next]_vars

(* The threads of the workers, the world thread inside Update and the       *)
(* thread inside StopServer are scheduled; nobody has to call the API.      *)
Fairness ==
    /\ \A w \in Workers : WF_vars(Worker(w))
    /\ WF_vars(Stop \/ Join \/ DestroyWorker \/ WorkerDestroyed \/ CloseConnections)

FairSpec == Spec /\ Fairness
-----------------------------------------------------------------------------
(* Properties. *)

(* The elements of a sequence. *)
Elems(q) == {q[i] : i \in DOMAIN q}

(* A worker holds an operation it has not executed yet. *)
InFlight(w) == wpc[w] \in {"execShared", "execSerial"}

(* The operations handed over and not yet executed. *)
Pending == Elems(delayQueue)
           \cup (UNION {Elems(serialDelayQueue[w]) : w \in Workers})
           \cup {cur[w] : w \in {v \in Workers : InFlight(v)}}

(* Every variable has the type the code gives it. *)
TypeOK ==
    /\ allowAsync \in BOOLEAN
    /\ asyncConn \in BOOLEAN
    /\ transStorage \in [Threads -> Trans \cup {NoTrans}]
    /\ delayQueue \in Seq(Op)
    /\ serialDelayQueue \in [Workers -> Seq(Op)]
    /\ numAsyncWorkers = IF stopPc \in {"halted", "stopped"} THEN 0 ELSE NumWorkers
    /\ running \in [Workers -> BOOLEAN]
    /\ wpc \in [Workers -> {"loop", "shared", "execShared", "cbShared", "serial",
                            "execSerial", "cbSerial", "exited", "destroyed"}]
    /\ cur \in [Workers -> Op \cup {NoOp}]
    /\ \A w \in Workers :
          wpc[w] \in {"execShared", "cbShared", "execSerial", "cbSerial"} => cur[w] \in Op
    /\ stopPc \in {"no", "stop", "join", "clear", "halted", "stopped"}
    /\ stopIdx \in Workers
    /\ issued \in Nat
    /\ executed \in Seq(Op)

(* Operations with the same serial id are executed in the order in which    *)
(* they were handed over, and none is executed while an earlier one waits:  *)
(* a login holder sees every save of its character committed before it      *)
(* (AddToSerialDelayQueue, SqlDelayThread::ProcessRequests).                *)
SerialOrder ==
    \A i \in DOMAIN executed :
        executed[i].serial # 0 /\ executed[i].kind # "direct" =>
            /\ \A j \in 1 .. i - 1 :
                  executed[j].serial = executed[i].serial /\ executed[j].kind # "direct"
                      => executed[j].id < executed[i].id
            /\ \A p \in Pending :
                  p.serial = executed[i].serial => executed[i].id < p.id

(* No operation is executed twice, and none that was executed is still in   *)
(* a queue or in the hands of another worker.                               *)
ExecutedOnce ==
    /\ \A i, j \in DOMAIN executed : executed[i].id = executed[j].id => i = j
    /\ \A i \in DOMAIN executed : \A p \in Pending : executed[i].id # p.id

(* Two workers never execute operations of one character at the same time. *)
SerialExclusive ==
    \A v, w \in Workers :
        /\ InFlight(v) /\ InFlight(w) /\ v # w
        => cur[v].serial = 0 \/ cur[v].serial # cur[w].serial

(* When HaltDelayThread has returned, every operation handed over has been  *)
(* executed, the statements that callbacks added meanwhile included: the    *)
(* destructor of SqlDelayThread drains what was queued during the stop.     *)
NothingLostAtStop ==
    stopPc \in {"halted", "stopped"} =>
        \A id \in 1 .. issued : \E i \in DOMAIN executed : executed[i].id = id

(* Every operation handed over is executed in the end. *)
EventuallyExecuted ==
    \A id \in 1 .. MaxOps :
        issued >= id ~> \E i \in DOMAIN executed : executed[i].id = id

(* StopServer returns: no worker keeps the stopping thread in join(). *)
StopServerReturns == stopPc = "stop" ~> stopPc = "stopped"

(* SqlDelay implements AsyncDatabase. *)
Abstract == INSTANCE AsyncDatabase WITH pending <- Pending
ImplementsAsyncDatabase == Abstract!Spec
=================================================================================
