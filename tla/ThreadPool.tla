------------------------------- MODULE ThreadPool -------------------------------
(***************************************************************************)
(* shared/ThreadPool: the pools of threads that update the maps, run the    *)
(* asynchronous tasks of the world and the thread safe query callbacks.     *)
(* One thread, the owner, collects tasks, starts them with processWorkload, *)
(* goes on with its own share and waits for the future, as every user of    *)
(* the class does.                                                          *)
(*                                                                          *)
(* The workers of a pool share an index into the workload (worker_sq) or    *)
(* take every m_size-th task (worker_mq).  An exception of a task ends the  *)
(* process with ErrorHandling::NONE, which the program uses throughout, so  *)
(* tasks throw only with IGNORE and LOG here.                               *)
(***************************************************************************)
EXTENDS Integers, Sequences, FiniteSets

CONSTANTS
    Size,          \* m_size, the number of threads
    Kinds,         \* of {"sq", "mq"}: the classes of worker the pool may have
    ClearModes,    \* of {"NEVER", "UPPON_COMPLETION", "AT_NEXT_WORKLOAD"}
    ErrorModes,    \* of {"NONE", "IGNORE", "LOG"}
    MaxTasks,      \* bound: tasks handed to the pool
    MaxErrors      \* bound: exceptions logged

ASSUME SizeAssumption == Size \in Nat \ {0}
ASSUME KindsAssumption == Kinds \subseteq {"sq", "mq"}
ASSUME ClearModesAssumption ==
    ClearModes \subseteq {"NEVER", "UPPON_COMPLETION", "AT_NEXT_WORKLOAD"}
ASSUME ErrorModesAssumption == ErrorModes \subseteq {"NONE", "IGNORE", "LOG"}
ASSUME BoundsAssumption == MaxTasks \in Nat /\ MaxErrors \in Nat

Workers == 0 .. Size - 1
Tasks == 1 .. MaxTasks

VARIABLES
    kind, clearMode, errorHandling,   \* the configuration of the pool
    status,      \* m_status
    workload,    \* m_workload
    dirty,       \* m_dirty
    active,      \* m_active
    index,       \* m_index
    errors,      \* m_errors, the tasks whose exceptions it holds
    promise,     \* m_result: "none", "pending", "fulfilled"
    owner,       \* the owner: "idle", "waiting", "destroying", "destroyed"
    wpc,         \* where every worker is in loop() and doWork()
    busy,        \* worker::busy
    it,          \* worker_mq::it; the i of worker_sq::doWork
    task,        \* the task a worker is in
    issued,      \* the number of tasks made so far
    batch,       \* history: the workload being processed
    runs,        \* history: how often each of its tasks was begun
    ended        \* history: those of its tasks that have ended

config == <<kind, clearMode, errorHandling>>
loadVars == <<workload, dirty>>
workerVars == <<wpc, busy, it, task>>
history == <<batch, runs, ended>>
vars == <<config, status, loadVars, active, index, errors, promise, owner,
          workerVars, issued, history>>

(* The constructor and start(). *)
Init ==
    /\ kind \in Kinds
    /\ clearMode \in ClearModes
    /\ errorHandling \in ErrorModes
    /\ status = "READY"
    /\ workload = <<>>
    /\ dirty = FALSE
    /\ active = 0
    /\ index = 0
    /\ errors = <<>>
    /\ promise = "none"
    /\ owner = "idle"
    /\ wpc = [w \in Workers |-> "wait"]
    /\ busy = [w \in Workers |-> FALSE]
    /\ it = [w \in Workers |-> 0]
    /\ task = [w \in Workers |-> 0]
    /\ issued = 0
    /\ batch = <<>>
    /\ runs = [t \in Tasks |-> 0]
    /\ ended = {}

Elems(q) == {q[i] : i \in DOMAIN q}

-----------------------------------------------------------------------------
(* The owner. *)

(* operator<<.  It would throw during a workload; the owner waits first. *)
AddTask ==
    /\ owner = "idle"
    /\ issued < MaxTasks
    /\ issued' = issued + 1
    /\ IF clearMode = "AT_NEXT_WORKLOAD" /\ dirty
       THEN workload' = <<issued + 1>> /\ dirty' = FALSE
       ELSE workload' = Append(workload, issued + 1) /\ UNCHANGED dirty
    /\ UNCHANGED <<config, status, active, index, errors, promise, owner, workerVars,
                   history>>

Smaller(a, b) == IF a < b THEN a ELSE b

(* The workload is started: a new promise, and as many workers prepared as  *)
(* there is work for.                                                       *)
StartWorkload(load) ==
    /\ workload' = load
    /\ dirty' = TRUE
    /\ active' = Smaller(Size, Len(load))
    /\ index' = 0
    /\ status' = "PROCESSING"
    /\ busy' = [w \in Workers |-> w < Smaller(Size, Len(load)) \/ busy[w]]
    /\ it' = [w \in Workers |-> IF w < Smaller(Size, Len(load)) THEN w ELSE it[w]]
    /\ promise' = "pending"
    /\ owner' = "waiting"
    /\ batch' = load
    /\ runs' = [t \in Tasks |-> 0]
    /\ ended' = {}
    /\ UNCHANGED <<config, errors, wpc, task>>

(* processWorkload().  Without tasks it returns an invalid future, for      *)
(* which the owner does not wait.                                           *)
ProcessWorkload ==
    /\ owner = "idle"
    /\ status = "READY"
    /\ IF clearMode = "AT_NEXT_WORKLOAD" /\ dirty
       THEN /\ workload' = <<>>
            /\ dirty' = FALSE
            /\ UNCHANGED <<config, status, active, index, errors, promise, owner,
                           workerVars, history>>
       ELSE workload # <<>> /\ StartWorkload(workload)
    /\ UNCHANGED issued

(* processWorkload(workload): it replaces what was collected. *)
ProcessWorkloadOf(n) ==
    /\ owner = "idle"
    /\ status = "READY"
    /\ issued + n <= MaxTasks
    /\ issued' = issued + n
    /\ StartWorkload([i \in 1 .. n |-> issued + i])

(* job.wait() *)
Wait ==
    /\ owner = "waiting"
    /\ promise = "fulfilled"
    /\ promise' = "none"
    /\ owner' = "idle"
    /\ UNCHANGED <<config, status, loadVars, active, index, errors, workerVars, issued,
                   history>>

(* ~ThreadPool: the threads are told, then joined by ~worker. *)
Destroy ==
    /\ owner = "idle"
    /\ status' = "TERMINATING"
    /\ owner' = "destroying"
    /\ UNCHANGED <<config, loadVars, active, index, errors, promise, workerVars, issued,
                   history>>

Join ==
    /\ owner = "destroying"
    /\ \A w \in Workers : wpc[w] = "exited"
    /\ owner' = "destroyed"
    /\ UNCHANGED <<config, status, loadVars, active, index, errors, promise, workerVars,
                   issued, history>>

-----------------------------------------------------------------------------
(* The workers. *)

(* waitForWork: under the shared lock, until busy or TERMINATING. *)
WaitForWork(w) ==
    /\ wpc[w] = "wait"
    /\ busy[w] \/ status = "TERMINATING"
    /\ wpc' = [wpc EXCEPT ![w] = IF status = "TERMINATING" THEN "exited" ELSE "fetch"]
    /\ UNCHANGED <<config, status, loadVars, active, index, errors, promise, owner,
                   busy, it, issued, history, task>>

(* Mutant: m_index is a plain int, and two workers read the same value. *)
FetchTaskNotAtomic(w) ==
    /\ wpc[w] = "fetch"
    /\ wpc' = [wpc EXCEPT ![w] = "test"]
    /\ \E v \in {index} \cup {it[o] : o \in {u \in Workers : wpc[u] = "test"}} :
          it' = [it EXCEPT ![w] = v] /\ index' = v + 1
    /\ UNCHANGED <<config, status, loadVars, active, errors, promise, owner, busy,
                   issued, history, task>>

(* i = m_index++; a worker_mq has its own position already. *)
FetchTask(w) ==
    /\ wpc[w] = "fetch"
    /\ wpc' = [wpc EXCEPT ![w] = "test"]
    /\ IF kind = "sq"
       THEN it' = [it EXCEPT ![w] = index] /\ index' = index + 1
       ELSE UNCHANGED <<it, index>>
    /\ UNCHANGED <<config, status, loadVars, active, errors, promise, owner, busy,
                   issued, history, task>>

(* The head of the loop of doWork and the call of the task. *)
BeginTask(w) ==
    /\ wpc[w] = "test"
    /\ IF it[w] < Len(workload) /\ status = "PROCESSING"
       THEN /\ wpc' = [wpc EXCEPT ![w] = "run"]
            /\ runs' = [runs EXCEPT ![workload[it[w] + 1]] = @ + 1]
            /\ it' = IF kind = "mq" THEN [it EXCEPT ![w] = @ + Size] ELSE it
            /\ task' = [task EXCEPT ![w] = workload[it[w] + 1]]
       ELSE /\ wpc' = [wpc EXCEPT ![w] = "finish"]
            /\ UNCHANGED <<runs, it, task>>
    /\ UNCHANGED <<config, status, loadVars, active, index, errors, promise, owner,
                   busy, issued, batch, ended>>

(* The task returns. *)
EndTask(w) ==
    /\ wpc[w] = "run"
    /\ wpc' = [wpc EXCEPT ![w] = "fetch"]
    /\ ended' = ended \cup {task[w]}
    /\ task' = [task EXCEPT ![w] = 0]
    /\ UNCHANGED <<config, status, loadVars, active, index, errors, promise, owner,
                   busy, it, issued, batch, runs>>

(* Mutant: worker_mq moves on only after the task has returned. *)
ThrowRepeats(w) ==
    /\ wpc[w] = "run"
    /\ errorHandling # "NONE"
    /\ Len(errors) < MaxErrors
    /\ wpc' = [wpc EXCEPT ![w] = "wait"]
    /\ it' = IF kind = "mq" THEN [it EXCEPT ![w] = @ - Size] ELSE it
    /\ ended' = ended \cup {task[w]}
    /\ runs' = [runs EXCEPT ![task[w]] = 0]
    /\ errors' = IF errorHandling = "LOG" THEN Append(errors, task[w]) ELSE errors
    /\ task' = [task EXCEPT ![w] = 0]
    /\ UNCHANGED <<config, status, loadVars, active, index, promise, owner, busy,
                   issued, batch>>

(* The task throws: loop_wrapper catches it and calls loop() again, where   *)
(* the worker is still busy.                                                *)
Throw(w) ==
    /\ wpc[w] = "run"
    /\ errorHandling # "NONE"
    /\ Len(errors) < MaxErrors
    /\ wpc' = [wpc EXCEPT ![w] = "wait"]
    /\ ended' = ended \cup {task[w]}
    /\ errors' = IF errorHandling = "LOG"
                 THEN Append(errors, task[w])
                 ELSE errors
    /\ task' = [task EXCEPT ![w] = 0]
    /\ UNCHANGED <<config, status, loadVars, active, index, promise, owner, busy, it,
                   issued, batch, runs>>

(* busy = false *)
Finish(w) ==
    /\ wpc[w] = "finish"
    /\ wpc' = [wpc EXCEPT ![w] = "leave"]
    /\ busy' = [busy EXCEPT ![w] = FALSE]
    /\ UNCHANGED <<config, status, loadVars, active, index, errors, promise, owner, it,
                   issued, history, task>>

(* Mutant: the last but one to leave completes the workload. *)
LeaveEarly(w) ==
    /\ wpc[w] = "leave"
    /\ active' = active - 1
    /\ wpc' = [wpc EXCEPT ![w] = IF active <= 2 THEN "last" ELSE "wait"]
    /\ UNCHANGED <<config, status, loadVars, index, errors, promise, owner, busy, it,
                   issued, history, task>>

(* remaning = --m_active; the last worker completes the workload. *)
Leave(w) ==
    /\ wpc[w] = "leave"
    /\ active' = active - 1
    /\ wpc' = [wpc EXCEPT ![w] = IF active = 1 THEN "last" ELSE "wait"]
    /\ UNCHANGED <<config, status, loadVars, index, errors, promise, owner, busy, it,
                   issued, history, task>>

(* UPPON_COMPLETION, and m_status = READY. *)
Complete(w) ==
    /\ wpc[w] = "last"
    /\ wpc' = [wpc EXCEPT ![w] = "fulfil"]
    /\ status' = "READY"
    /\ IF clearMode = "UPPON_COMPLETION"
       THEN workload' = <<>> /\ dirty' = FALSE
       ELSE UNCHANGED loadVars
    /\ UNCHANGED <<config, active, index, errors, promise, owner, busy, it, issued,
                   history, task>>

(* m_result.set_value() *)
Fulfil(w) ==
    /\ wpc[w] = "fulfil"
    /\ wpc' = [wpc EXCEPT ![w] = "wait"]
    /\ promise' = "fulfilled"
    /\ UNCHANGED <<config, status, loadVars, active, index, errors, owner, busy, it,
                   issued, history, task>>

(* The pool is gone. *)
Terminated == owner = "destroyed" /\ UNCHANGED vars

-----------------------------------------------------------------------------
Owner ==
    \/ AddTask
    \/ ProcessWorkload
    \/ \E n \in 1 .. MaxTasks : ProcessWorkloadOf(n)
    \/ Wait
    \/ Destroy
    \/ Join

Worker(w) ==
    \/ WaitForWork(w)
    \/ FetchTask(w)
    \/ BeginTask(w)
    \/ EndTask(w)
    \/ Throw(w)
    \/ Finish(w)
    \/ Leave(w)
    \/ Complete(w)
    \/ Fulfil(w)

Next == Owner \/ (\E w \in Workers : Worker(w)) \/ Terminated

Spec == Init /\ [][Next]_vars

(* Every thread is scheduled and every task ends. *)
FairSpec ==
    /\ Spec
    /\ \A w \in Workers : WF_vars(Worker(w))
    /\ WF_vars(Wait)
    /\ WF_vars(Join)

-----------------------------------------------------------------------------
(* Properties. *)

Running == {w \in Workers : wpc[w] = "run"}

(* Every variable has the type the code gives it. *)
TypeOK ==
    /\ kind \in Kinds /\ clearMode \in ClearModes /\ errorHandling \in ErrorModes
    /\ status \in {"READY", "PROCESSING", "TERMINATING"}
    /\ workload \in Seq(Tasks)
    /\ dirty \in BOOLEAN
    /\ active \in 0 .. Size
    /\ index \in Nat
    /\ errors \in Seq(Tasks)
    /\ promise \in {"none", "pending", "fulfilled"}
    /\ owner \in {"idle", "waiting", "destroying", "destroyed"}
    /\ wpc \in [Workers -> {"wait", "fetch", "test", "run", "finish", "leave", "last",
                            "fulfil", "exited"}]
    /\ busy \in [Workers -> BOOLEAN]
    /\ it \in [Workers -> Nat]
    /\ task \in [Workers -> Tasks \cup {0}]
    /\ issued \in 0 .. MaxTasks
    /\ batch \in Seq(Tasks)
    /\ runs \in [Tasks -> Nat]
    /\ ended \subseteq Tasks

(* No task of a workload is executed twice, by the shared index or by two   *)
(* strides, after an exception or in a workload started again (doWork,      *)
(* ProcessWorkload, loop_wrapper).                                          *)
RunOnce == \A t \in Tasks : runs[t] <= 1

(* When wait() may return, every task of the workload was executed to its   *)
(* end and no worker is in a task (the count m_active in loop).             *)
CompleteWhenFulfilled ==
    promise = "fulfilled" => ended = Elems(batch) /\ Running = {}

(* The inductive invariant of the proofs: the phases of a workload,          *)
PoolState ==
    /\ owner = "waiting" => /\ promise \in {"pending", "fulfilled"}
                            /\ status \in {"PROCESSING", "READY"}
                            /\ promise = "fulfilled" => status = "READY"
    /\ owner # "waiting" => promise = "none"
    /\ owner = "idle" => status = "READY"
    /\ owner \in {"destroying", "destroyed"} => status = "TERMINATING"
    /\ status = "PROCESSING" => workload = batch
    /\ \A w \in Workers :
          /\ wpc[w] \in {"fetch", "test", "run", "finish"} => busy[w]
          /\ wpc[w] \in {"leave", "last", "fulfil", "exited"} => ~busy[w]
          /\ status # "PROCESSING" => ~busy[w] /\ wpc[w] \in {"wait", "fulfil", "exited"}
          /\ status = "PROCESSING" => wpc[w] # "fulfil"
          /\ status # "TERMINATING" => wpc[w] # "exited"
          /\ wpc[w] = "fulfil" => promise = "pending"

(* the workers m_active counts, until the last of them,                      *)
Enlisted == {w \in Workers : busy[w] \/ wpc[w] = "leave"}

LastLeaves ==
    /\ status = "PROCESSING" => active = Cardinality(Enlisted)
    /\ \A v, w \in Workers : wpc[v] = "last" => Enlisted = {} /\ (wpc[w] = "last" => v = w)
    /\ \A v, w \in Workers : wpc[v] = "fulfil" /\ wpc[w] = "fulfil" => v = w
    /\ \A w \in Workers : wpc[w] \in {"last", "fulfil"} => ended = Elems(batch)

(* the tasks, each of which is new,                                          *)
NewTasks(load) ==
    /\ \A i \in DOMAIN load : load[i] <= issued
    /\ \A i, j \in DOMAIN load : load[i] = load[j] => i = j

TaskState ==
    /\ NewTasks(workload) /\ NewTasks(batch)
    /\ \A t \in Tasks : runs[t] = 0 \/ (runs[t] = 1 /\ t \in Elems(batch))
    /\ \A t \in Tasks : t \in ended => runs[t] = 1
    /\ \A t \in Tasks : runs[t] = 1 => t \in ended \/ \E w \in Running : task[w] = t
    /\ \A w \in Running : /\ task[w] \in Tasks \ ended /\ runs[task[w]] = 1
                          /\ \A v \in Running : task[v] = task[w] => v = w

(* and which positions of the workload have been begun: those below the      *)
(* shared index but for the ones a worker_sq is about to look at,            *)
Positions == 0 .. Len(batch) - 1
Begun(i) == runs[batch[i + 1]] = 1

SharedIndex == kind = "sq" /\ status = "PROCESSING" =>
    /\ \A w \in Workers : wpc[w] = "test" =>
          it[w] < index /\ \A v \in Workers : wpc[v] = "test" /\ it[v] = it[w] => v = w
    /\ \A i \in Positions :
          Begun(i) <=> i < index /\ \A w \in Workers : wpc[w] = "test" => it[w] # i
    /\ \A w \in Workers : wpc[w] \in {"finish", "leave"} => Len(batch) <= index

(* or in each stride those below its worker_mq's position.                   *)
Strides == kind = "mq" /\ status = "PROCESSING" =>
    /\ \A w \in Workers : w < Len(batch) => it[w] % Size = w
    /\ \A w \in Workers : busy[w] => w < Len(batch)
    /\ \A w \in Workers : w < Len(batch) /\ (~busy[w] \/ wpc[w] = "finish") => Len(batch) <= it[w]
    /\ \A i \in Positions : Begun(i) <=> i < it[i % Size]

IInv == TypeOK /\ PoolState /\ LastLeaves /\ TaskState /\ SharedIndex /\ Strides
        /\ RunOnce /\ CompleteWhenFulfilled

(* The owner is released from wait(), with tasks that throw too, and from   *)
(* the destructor, which joins the threads.                                 *)
OwnerReleased == owner \in {"waiting", "destroying"} ~> owner \in {"idle", "destroyed"}

(* ThreadPool implements WorkPool. *)
Abstract == INSTANCE WorkPool WITH
    batch <- Elems(batch),
    active <- {task[w] : w \in Running},
    waiting <- owner = "waiting"
ImplementsWorkPool == Abstract!PoolSpec
=================================================================================
