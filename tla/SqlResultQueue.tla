----------------------------- MODULE SqlResultQueue -----------------------------
(***************************************************************************)
(* The way back of a query: delay threads put the callback of a query that  *)
(* has its result into SqlResultQueue, and the world thread runs it in      *)
(* Update, once per tick.  Thread safe callbacks are a workload of the pool *)
(* m_callbackThreads, which WorkPool specifies; the others run one after    *)
(* the other on the world thread, until AsyncQueriesTickTimeout ends the    *)
(* tick's share.  StopServer cancels what is left.                          *)
(***************************************************************************)
EXTENDS Integers, Sequences, FiniteSets

CONSTANTS
    MaxCallbacks,   \* bound: callbacks added
    PoolThreads,    \* the size of m_callbackThreads
    HasTimeout      \* whether AsyncQueriesTickTimeout is not 0

ASSUME BoundAssumption == MaxCallbacks \in Nat
ASSUME PoolAssumption == PoolThreads \in Nat \ {0}
ASSUME TimeoutAssumption == HasTimeout \in BOOLEAN

Ids == 1 .. MaxCallbacks
Callback == [id : Ids, threadSafe : BOOLEAN]

VARIABLES
    server,      \* "up", "stopping" (HaltDelayThread), "cancel", "stopped"
    added,       \* the number of callbacks added so far
    queue,       \* the LockedQueue the delay threads add to
    waitingQueries,   \* _threadUnsafeWaitingQueries
    tasks,       \* the tasks collected in m_callbackThreads
    pc,          \* the world thread in Update: "idle", "drain", "unsafe", "wait"
    finished,    \* history: the callbacks that have run, in order of their end
    batch, active, ended, waiting   \* the pool, see WorkPool

Pool == INSTANCE WorkPool WITH Tasks <- Callback

poolVars == <<batch, active, ended, waiting>>
vars == <<server, added, queue, waitingQueries, tasks, pc, finished, poolVars>>

Init ==
    /\ server = "up"
    /\ added = 0
    /\ queue = <<>>
    /\ waitingQueries = <<>>
    /\ tasks = {}
    /\ pc = "idle"
    /\ finished = <<>>
    /\ Pool!PoolInit

-----------------------------------------------------------------------------
(* SqlQuery::Execute and SqlQueryHolderEx::Execute on a delay thread; the   *)
(* destructors of the delay threads execute operations while stopping.      *)
AddCallback(safe) ==
    /\ server \in {"up", "stopping"}
    /\ added < MaxCallbacks
    /\ added' = added + 1
    /\ queue' = Append(queue, [id |-> added + 1, threadSafe |-> safe])
    /\ UNCHANGED <<server, waitingQueries, tasks, pc, finished, poolVars>>

(* World::UpdateResultQueue calls ProcessResultQueue. *)
Update ==
    /\ server = "up"
    /\ pc = "idle"
    /\ queue # <<>> \/ waitingQueries # <<>>
    /\ pc' = "drain"
    /\ UNCHANGED <<server, added, queue, waitingQueries, tasks, finished, poolVars>>

(* Mutant: what waits since an earlier tick is overtaken. *)
DrainInFront ==
    /\ pc = "drain"
    /\ queue # <<>>
    /\ queue' = Tail(queue)
    /\ IF Head(queue).threadSafe
       THEN tasks' = tasks \cup {Head(queue)} /\ UNCHANGED waitingQueries
       ELSE waitingQueries' = <<Head(queue)>> \o waitingQueries /\ UNCHANGED tasks
    /\ UNCHANGED <<server, added, pc, finished, poolVars>>

(* next(callback) *)
Drain ==
    /\ pc = "drain"
    /\ queue # <<>>
    /\ queue' = Tail(queue)
    /\ IF Head(queue).threadSafe
       THEN tasks' = tasks \cup {Head(queue)} /\ UNCHANGED waitingQueries
       ELSE waitingQueries' = Append(waitingQueries, Head(queue)) /\ UNCHANGED tasks
    /\ UNCHANGED <<server, added, pc, finished, poolVars>>

(* The queue is empty: processWorkload.  Without tasks its future is not    *)
(* valid.                                                                   *)
ProcessWorkload ==
    /\ pc = "drain"
    /\ queue = <<>>
    /\ pc' = "unsafe"
    /\ tasks' = {}
    /\ IF tasks = {} THEN UNCHANGED poolVars ELSE Pool!Process(tasks)
    /\ UNCHANGED <<server, added, queue, waitingQueries, finished>>

(* A pool thread calls Execute of a callback. *)
BeginSafe(cb) ==
    /\ Cardinality(active) < PoolThreads
    /\ Pool!Begin(cb)
    /\ UNCHANGED <<server, added, queue, waitingQueries, tasks, pc, finished>>

(* It returns; the task deletes the callback. *)
EndSafe(cb) ==
    /\ Pool!End(cb)
    /\ finished' = Append(finished, cb)
    /\ UNCHANGED <<server, added, queue, waitingQueries, tasks, pc>>

(* Mutant: the callback is read and not taken out of the queue. *)
ExecuteUnsafeNoPop ==
    /\ pc = "unsafe"
    /\ waitingQueries # <<>>
    /\ finished' = Append(finished, Head(waitingQueries))
    /\ pc' \in IF HasTimeout THEN {"unsafe", "wait"} ELSE {"unsafe"}
    /\ UNCHANGED <<server, added, queue, waitingQueries, tasks, poolVars>>

(* The next callback that is not thread safe runs on the world thread; the  *)
(* timeout may end the loop after it.                                       *)
ExecuteUnsafe ==
    /\ pc = "unsafe"
    /\ waitingQueries # <<>>
    /\ finished' = Append(finished, Head(waitingQueries))
    /\ waitingQueries' = Tail(waitingQueries)
    /\ pc' \in IF HasTimeout THEN {"unsafe", "wait"} ELSE {"unsafe"}
    /\ UNCHANGED <<server, added, queue, tasks, poolVars>>

UnsafeDone ==
    /\ pc = "unsafe"
    /\ waitingQueries = <<>>
    /\ pc' = "wait"
    /\ UNCHANGED <<server, added, queue, waitingQueries, tasks, finished, poolVars>>

(* Mutant: Update does not wait for the pool. *)
WaitJobNot ==
    /\ pc = "wait"
    /\ pc' = "idle"
    /\ UNCHANGED <<server, added, queue, waitingQueries, tasks, finished, poolVars>>

(* Mutant: after a timeout Update starts over instead of returning. *)
WaitJobAgain ==
    /\ pc = "wait"
    /\ pc' = IF waitingQueries # <<>> THEN "wait" ELSE "idle"
    /\ IF waiting THEN Pool!Return ELSE UNCHANGED poolVars
    /\ UNCHANGED <<server, added, queue, waitingQueries, tasks, finished>>

(* job.wait(), and Update returns. *)
WaitJob ==
    /\ pc = "wait"
    /\ pc' = "idle"
    /\ IF waiting THEN Pool!Return ELSE UNCHANGED poolVars
    /\ UNCHANGED <<server, added, queue, waitingQueries, tasks, finished>>

-----------------------------------------------------------------------------
(* Database::StopServer, after the last tick of the world thread. *)

StopServer ==
    /\ server = "up"
    /\ pc = "idle"
    /\ server' = "stopping"
    /\ UNCHANGED <<added, queue, waitingQueries, tasks, pc, finished, poolVars>>

(* HaltDelayThread has returned: no delay thread is left. *)
DelayThreadsHalted ==
    /\ server = "stopping"
    /\ server' = "cancel"
    /\ UNCHANGED <<added, queue, waitingQueries, tasks, pc, finished, poolVars>>

(* SqlResultQueue::CancelAll: the callback runs with a null result. *)
CancelAll ==
    /\ server = "cancel"
    /\ IF queue = <<>>
       THEN server' = "stopped" /\ UNCHANGED <<queue, finished>>
       ELSE /\ finished' = Append(finished, Head(queue))
            /\ queue' = Tail(queue)
            /\ UNCHANGED server
    /\ UNCHANGED <<added, waitingQueries, tasks, pc, poolVars>>

(* The result queue is deleted. *)
Terminated == server = "stopped" /\ UNCHANGED vars

-----------------------------------------------------------------------------
WorldThread ==
    Update \/ Drain \/ ProcessWorkload \/ ExecuteUnsafe \/ UnsafeDone \/ WaitJob

PoolThread == \E cb \in Callback : BeginSafe(cb) \/ EndSafe(cb)

Next ==
    \/ \E safe \in BOOLEAN : AddCallback(safe)
    \/ WorldThread
    \/ PoolThread
    \/ StopServer
    \/ DelayThreadsHalted
    \/ CancelAll
    \/ Terminated

Spec == Init /\ [][Next]_vars

(* The world thread ticks, callbacks end, the pool has a thread for them.   *)
(* Nobody has to stop the server or to send a query.                        *)
FairSpec == Spec /\ WF_vars(WorldThread) /\ WF_vars(PoolThread)

-----------------------------------------------------------------------------
(* Properties. *)

Elems(q) == {q[i] : i \in DOMAIN q}

(* Every variable has the type the code gives it. *)
TypeOK ==
    /\ server \in {"up", "stopping", "cancel", "stopped"}
    /\ added \in 0 .. MaxCallbacks
    /\ queue \in Seq(Callback)
    /\ waitingQueries \in Seq(Callback)
    /\ tasks \subseteq Callback
    /\ pc \in {"idle", "drain", "unsafe", "wait"}
    /\ finished \in Seq(Callback)
    /\ batch \subseteq Callback
    /\ active \subseteq batch
    /\ ended \subseteq batch
    /\ waiting \in BOOLEAN

(* A callback is executed and deleted once: one that has run is in no       *)
(* queue, in no workload to come and in no thread's hands (Update,          *)
(* CancelAll).                                                              *)
CallbackOnce ==
    /\ \A i, j \in DOMAIN finished : finished[i] = finished[j] => i = j
    /\ Elems(finished) \cap
          (Elems(queue) \cup Elems(waitingQueries) \cup tasks \cup active) = {}

(* Callbacks that are not thread safe run in the order in which their       *)
(* results arrived, a tick that ran into its timeout in between included    *)
(* (_threadUnsafeWaitingQueries).                                           *)
UnsafeCallbackOrder ==
    \A i, j \in DOMAIN finished :
        /\ i < j /\ ~finished[i].threadSafe /\ ~finished[j].threadSafe
        => finished[i].id < finished[j].id

(* Callbacks of the pool run only inside Update, which keeps every other    *)
(* part of the world tick away from them; none is left when the server      *)
(* stops (job.wait at the end of Update).                                   *)
SafeOnlyInsideUpdate == active # {} => pc \in {"unsafe", "wait"} /\ server = "up"

(* While the server is up every callback runs in the end, however often the *)
(* timeout ends the tick before its turn.                                   *)
EventuallyRun ==
    \A id \in Ids :
        added >= id ~> \/ \E i \in DOMAIN finished : finished[i].id = id
                      \/ server # "up"

-----------------------------------------------------------------------------
(* The invariant the proofs use. *)

(* The callbacks of a sequence have increasing numbers, up to the last one  *)
(* added.                                                                   *)
Numbered(q) ==
    /\ \A i \in DOMAIN q : q[i].id <= added
    /\ \A i, j \in DOMAIN q : i < j => q[i].id < q[j].id

(* Where Update is says what is collected and whether the pool is busy.     *)
TickState ==
    /\ pc # "idle" => server = "up"
    /\ pc # "drain" => tasks = {}
    /\ pc \in {"idle", "drain"} => ~waiting
    /\ active \cup ended \subseteq batch /\ active \cap ended = {}
    /\ ~waiting => active = {}

(* The callbacks in the pool that have not returned. *)
InPool == IF waiting THEN batch \ ended ELSE {}

(* Everything in the queues was added, in their order; what waits on the    *)
(* world thread arrived before what is in the queue.                        *)
QueuesOrdered ==
    /\ Numbered(queue) /\ Numbered(waitingQueries)
    /\ \A i \in DOMAIN waitingQueries : ~waitingQueries[i].threadSafe
    /\ \A i \in DOMAIN waitingQueries, j \in DOMAIN queue : waitingQueries[i].id < queue[j].id

(* Thread safe callbacks that were taken out of the queue. *)
Taken ==
    /\ \A cb \in tasks \cup InPool : cb.threadSafe /\ cb.id <= added
    /\ \A cb \in tasks \cup InPool : \A j \in DOMAIN queue : cb.id < queue[j].id
    /\ tasks \cap InPool = {}

(* Whatever has run was added, is nowhere else, and no callback of the      *)
(* world thread that still waits was added before one that has run.         *)
FinishedOnce ==
    /\ \A i \in DOMAIN finished : finished[i].id <= added
    /\ \A i \in DOMAIN finished : finished[i] \notin tasks \cup InPool
    /\ \A i \in DOMAIN finished, j \in DOMAIN queue : finished[i].id < queue[j].id
    /\ \A i \in DOMAIN finished, j \in DOMAIN waitingQueries :
          /\ finished[i] # waitingQueries[j]
          /\ server = "up" /\ ~finished[i].threadSafe => finished[i].id < waitingQueries[j].id

IInv ==
    /\ TypeOK
    /\ TickState
    /\ QueuesOrdered
    /\ Taken
    /\ FinishedOnce
    /\ CallbackOnce
    /\ UnsafeCallbackOrder
=================================================================================
