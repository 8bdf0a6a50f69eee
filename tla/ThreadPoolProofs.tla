--------------------------- MODULE ThreadPoolProofs ---------------------------
(***************************************************************************)
(* Proofs about ThreadPool, for any number of threads and of tasks and both *)
(* kinds of worker.  IInv, in ThreadPool, is inductive.  Two of its parts   *)
(* carry the argument:                                                      *)
(*   - LastLeaves: m_active is the number of workers that are still at the  *)
(*     workload, so the one that brings it to zero is alone, and every task *)
(*     has ended when it fulfils the promise;                               *)
(*   - which positions have been begun.  SharedIndex: those below the index *)
(*     of the worker_sq, except the ones a worker has fetched and not yet   *)
(*     compared with the length.  Strides: those of each remainder modulo   *)
(*     m_size below the position of the worker_mq with that number.  So the *)
(*     task a worker begins is new, and none is left when all have gone.    *)
(* The refinement of WorkPool follows step by step: beginning and ending a  *)
(* task are Begin and End, processWorkload is Process, and the rest stutter *)
(* until wait() returns.                                                    *)
(***************************************************************************)
EXTENDS ThreadPool, FiniteSetTheorems, TLAPS

USE DEF config, loadVars, workerVars, history, vars

-----------------------------------------------------------------------------
(* The strides of worker_mq: positions with the same remainder.               *)

(* Every position is in the stride of its remainder. *)
LEMMA Division ==
    ASSUME NEW i \in Nat
    PROVE  i \div Size \in Nat /\ i % Size \in Workers /\ i = Size * (i \div Size) + (i % Size)
BY SizeAssumption DEF Workers

(* A smaller quotient is smaller by a whole stride. *)
LEMMA Below ==
    ASSUME NEW a \in Int, NEW b \in Int, a < b
    PROVE  Size * a + Size <= Size * b
<1> USE SizeAssumption
<1>1. Size * (a + 1) <= Size * b
  BY a + 1 <= b
<1>2. Size * (a + 1) = Size * a + Size
  OBVIOUS
<1>3. QED BY <1>1, <1>2

(* A number has one remainder. *)
LEMMA Remainder ==
    ASSUME NEW a \in Int, NEW b \in Int, NEW x \in Workers, NEW y \in Workers,
           Size * a + x = Size * b + y
    PROVE  x = y
<1> USE SizeAssumption DEF Workers
<1>1. Size * a \in Int /\ Size * b \in Int
  OBVIOUS
<1>2. ~(a < b)
  BY <1>1, Below
<1>3. ~(b < a)
  BY <1>1, Below
<1>4. QED BY <1>1, <1>2, <1>3

(* The next position of a stride is m_size further,                           *)
LEMMA NextOfStride == ASSUME NEW i \in Nat PROVE (i + Size) % Size = i % Size
<1> USE SizeAssumption DEF Workers
<1> DEFINE a == i \div Size
           b == (i + Size) \div Size
           x == i % Size
           y == (i + Size) % Size
<1>1. /\ a \in Nat /\ x \in Workers /\ i = Size * a + x
      /\ b \in Nat /\ y \in Workers /\ i + Size = Size * b + y
  BY Division, i + Size \in Nat
<1> HIDE DEF a, b, x, y
<1>2. Size * (a + 1) = Size * a + Size /\ Size * a \in Int /\ a + 1 \in Int
  BY <1>1
<1>3. Size * (a + 1) + x = Size * b + y
  BY <1>1, <1>2
<1>4. x = y
  BY <1>1, <1>2, <1>3, Remainder
<1>5. QED BY <1>4 DEF x, y

(* and none is between.                                                       *)
LEMMA NoneBetween ==
    ASSUME NEW i \in Nat, NEW j \in Nat, i % Size = j % Size, i <= j, j < i + Size
    PROVE  i = j
<1> USE SizeAssumption DEF Workers
<1> DEFINE a == i \div Size
           b == j \div Size
<1>1. a \in Nat /\ b \in Nat /\ i = Size * a + (i % Size) /\ j = Size * b + (j % Size)
  BY Division
<1>2. Size * a \in Int /\ Size * b \in Int /\ i % Size \in Int
  BY <1>1, Division
<1> HIDE DEF a, b
<1>3. ~(a < b)
  BY <1>1, <1>2, Below
<1>4. ~(b < a)
  BY <1>1, <1>2, Below
<1>5. QED BY <1>1, <1>3, <1>4

(* The first position of a worker is its number, and a position belongs to a  *)
(* worker that is not beyond it.                                              *)
LEMMA FirstOfStride == ASSUME NEW w \in Workers PROVE w % Size = w
BY SizeAssumption DEF Workers

LEMMA OwnerOfPosition == ASSUME NEW i \in Nat PROVE i % Size \in Workers /\ i % Size <= i
BY SizeAssumption DEF Workers

-----------------------------------------------------------------------------
(* Workloads and counts. *)

(* What a sequence of tasks consists of. *)
LEMMA LoadType ==
    ASSUME NEW load \in Seq(Tasks)
    PROVE  /\ Len(load) \in Nat /\ DOMAIN load = 1 .. Len(load)
           /\ \A i \in DOMAIN load : load[i] \in Tasks
           /\ Elems(load) \subseteq Tasks
BY DEF Elems

(* m_active counts a finite set. *)
LEMMA EnlistedFinite == IsFiniteSet(Enlisted) /\ Cardinality(Enlisted) \in Nat
<1>1. IsFiniteSet(Workers)
  BY SizeAssumption, FS_Interval DEF Workers
<1>2. Enlisted \subseteq Workers
  BY DEF Enlisted
<1>3. QED BY <1>1, <1>2, FS_Subset, FS_CardinalityType

(* When no worker is before a task, all have been begun, and so have ended.   *)
LEMMA AllBegun ==
    ASSUME IInv, NEW w \in Workers, wpc[w] = "leave",
           \A v \in Workers : v = w \/ (~busy[v] /\ wpc[v] \in {"wait", "exited"})
    PROVE  ended = Elems(batch)
<1>1. status = "PROCESSING" /\ batch \in Seq(Tasks) /\ Len(batch) \in Nat /\ ~busy[w]
  BY LoadType DEF IInv, TypeOK, PoolState
<1>2. ASSUME NEW i \in Positions PROVE Begun(i)
  <2>1. CASE kind = "sq"
    <3>1. Len(batch) <= index /\ i < Len(batch) /\ index \in Nat /\ i \in Nat
      BY <1>1, <2>1 DEF IInv, TypeOK, SharedIndex, Positions
    <3>2. QED BY <1>1, <2>1, <3>1 DEF IInv, SharedIndex
  <2>2. CASE kind = "mq"
    <3> DEFINE v == i % Size
    <3>1. v \in Workers /\ v <= i /\ i \in Nat /\ i < Len(batch)
      BY <1>1, OwnerOfPosition DEF Positions
    <3>2. v < Len(batch) /\ ~busy[v] /\ it[v] \in Nat
      BY <1>1, <3>1 DEF IInv, TypeOK, Workers
    <3>3. Len(batch) <= it[v]
      BY <1>1, <2>2, <3>1, <3>2 DEF IInv, Strides
    <3>4. i < it[v]
      BY <1>1, <3>1, <3>2, <3>3
    <3> HIDE DEF v
    <3>5. QED BY <1>1, <2>2, <3>4 DEF IInv, Strides, v
  <2>3. QED BY <2>1, <2>2, KindsAssumption DEF IInv, TypeOK
<1>3. ASSUME NEW t \in Elems(batch) PROVE t \in ended
  <2>1. PICK j \in DOMAIN batch : t = batch[j]
    BY DEF Elems
  <2>2. j - 1 \in Positions /\ (j - 1) + 1 = j /\ t \in Tasks
    BY <1>1, <2>1, LoadType DEF Positions
  <2>3. runs[t] = 1
    BY <1>2, <2>1, <2>2 DEF Begun
  <2>4. Running = {}
    BY DEF Running
  <2>5. QED BY <2>2, <2>3, <2>4 DEF IInv, TaskState
<1>4. ended \subseteq Elems(batch)
  BY DEF IInv, TypeOK, TaskState
<1>5. QED BY <1>3, <1>4

(* operator<<: the task is new, and the workload is replaced only when it is old. *)
LEMMA AddTaskInvariant ==
    ASSUME IInv, AddTask
    PROVE  IInv'
<1> USE DEF AddTask, IInv
<1>1. TypeOK'
  <2>1. issued + 1 \in Tasks /\ issued + 1 \in 0 .. MaxTasks
    BY BoundsAssumption DEF TypeOK, Tasks
  <2>2. workload' \in Seq(Tasks)
    <3>1. workload \in Seq(Tasks)
      BY DEF TypeOK
    <3>2. CASE clearMode = "AT_NEXT_WORKLOAD" /\ dirty
      <4>1. workload' = <<issued + 1>>
        BY <3>2, Zenon
      <4>2. QED BY <2>1, <4>1
    <3>3. CASE ~(clearMode = "AT_NEXT_WORKLOAD" /\ dirty)
      BY <2>1, <3>1, <3>3
    <3>4. QED BY <3>2, <3>3
  <2>3. dirty' \in BOOLEAN
    BY Zenon DEF TypeOK
  <2>4. QED BY <2>1, <2>2, <2>3 DEF TypeOK
<1>2. PoolState'
  BY SizeAssumption, LoadType DEF TypeOK, PoolState, Workers
<1>3. LastLeaves'
  BY SizeAssumption, LoadType DEF TypeOK, PoolState, LastLeaves, Enlisted, Elems, Workers
<1>4. TaskState'
  <2>1. issued \in Nat /\ workload \in Seq(Tasks) /\ batch \in Seq(Tasks)
    BY BoundsAssumption DEF TypeOK
  <2>2. NewTasks(batch)'
    BY <2>1, LoadType DEF TaskState, NewTasks, Tasks
  <2>3. NewTasks(workload)'
    <3>1. CASE clearMode = "AT_NEXT_WORKLOAD" /\ dirty
      BY <2>1, <3>1 DEF NewTasks
    <3>2. CASE ~(clearMode = "AT_NEXT_WORKLOAD" /\ dirty)
      <4>0. workload' = Append(workload, issued + 1)
        BY <3>2
      <4>1. /\ DOMAIN workload' = 1 .. Len(workload) + 1
            /\ \A i \in DOMAIN workload' :
                  workload'[i] = IF i \in DOMAIN workload THEN workload[i] ELSE issued + 1
            /\ \A i \in DOMAIN workload' : i \in DOMAIN workload \/ i = Len(workload) + 1
        BY <2>1, <4>0, LoadType
      <4>2. \A i \in DOMAIN workload : workload[i] \in Nat /\ workload[i] <= issued
        BY <2>1, LoadType DEF TaskState, NewTasks, Tasks
      <4>3. \A i, j \in DOMAIN workload : workload[i] = workload[j] => i = j
        BY DEF TaskState, NewTasks
      <4>4. \A i \in DOMAIN workload' : workload'[i] <= issued'
        BY <2>1, <4>1, <4>2
      <4>5. \A i, j \in DOMAIN workload' : workload'[i] = workload'[j] => i = j
        BY <2>1, <4>1, <4>2, <4>3
      <4>6. QED BY <4>4, <4>5 DEF NewTasks
    <3>3. QED BY <3>1, <3>2
  <2>4. QED BY <2>2, <2>3 DEF TaskState, Running, Elems
<1>5. SharedIndex'
  BY SizeAssumption, LoadType DEF TypeOK, PoolState, SharedIndex, Positions, Begun, Workers
<1>6. Strides'
  BY SizeAssumption, LoadType DEF TypeOK, PoolState, Strides, Positions, Begun, Workers
<1>7. RunOnce'
  BY SizeAssumption, LoadType DEF TypeOK, PoolState, TaskState, RunOnce, Workers
<1>8. CompleteWhenFulfilled'
  BY SizeAssumption, LoadType
     DEF TypeOK, PoolState, LastLeaves, CompleteWhenFulfilled, Elems, Running, Workers
<1>9. QED BY <1>1, <1>2, <1>3, <1>4, <1>5, <1>6, <1>7, <1>8

(* wait() of the future returns. *)
LEMMA WaitInvariant ==
    ASSUME IInv, Wait
    PROVE  IInv'
<1> USE DEF Wait, IInv
<1>1. TypeOK'
  BY SizeAssumption, LoadType DEF TypeOK, Workers
<1>2. PoolState'
  BY SizeAssumption, LoadType DEF TypeOK, PoolState, Workers
<1>3. LastLeaves'
  BY SizeAssumption, LoadType DEF TypeOK, PoolState, LastLeaves, Enlisted, Elems, Workers
<1>4. TaskState'
  BY SizeAssumption, LoadType DEF TypeOK, PoolState, TaskState, NewTasks, Running, Elems, Workers
<1>5. SharedIndex'
  BY SizeAssumption, LoadType DEF TypeOK, PoolState, SharedIndex, Positions, Begun, Workers
<1>6. Strides'
  BY SizeAssumption, LoadType DEF TypeOK, PoolState, Strides, Positions, Begun, Workers
<1>7. RunOnce'
  BY SizeAssumption, LoadType DEF TypeOK, PoolState, TaskState, RunOnce, Workers
<1>8. CompleteWhenFulfilled'
  BY SizeAssumption, LoadType
     DEF TypeOK, PoolState, LastLeaves, CompleteWhenFulfilled, Elems, Running, Workers
<1>9. QED BY <1>1, <1>2, <1>3, <1>4, <1>5, <1>6, <1>7, <1>8

(* ~ThreadPool terminates the workers. *)
LEMMA DestroyInvariant ==
    ASSUME IInv, Destroy
    PROVE  IInv'
<1> USE DEF Destroy, IInv
<1>1. TypeOK'
  BY SizeAssumption, LoadType DEF TypeOK, Workers
<1>2. PoolState'
  BY SizeAssumption, LoadType DEF TypeOK, PoolState, Workers
<1>3. LastLeaves'
  BY SizeAssumption, LoadType DEF TypeOK, PoolState, LastLeaves, Enlisted, Elems, Workers
<1>4. TaskState'
  BY SizeAssumption, LoadType DEF TypeOK, PoolState, TaskState, NewTasks, Running, Elems, Workers
<1>5. SharedIndex'
  BY SizeAssumption, LoadType DEF TypeOK, PoolState, SharedIndex, Positions, Begun, Workers
<1>6. Strides'
  BY SizeAssumption, LoadType DEF TypeOK, PoolState, Strides, Positions, Begun, Workers
<1>7. RunOnce'
  BY SizeAssumption, LoadType DEF TypeOK, PoolState, TaskState, RunOnce, Workers
<1>8. CompleteWhenFulfilled'
  BY SizeAssumption, LoadType
     DEF TypeOK, PoolState, LastLeaves, CompleteWhenFulfilled, Elems, Running, Workers
<1>9. QED BY <1>1, <1>2, <1>3, <1>4, <1>5, <1>6, <1>7, <1>8

(* ~ThreadPool has joined them. *)
LEMMA JoinInvariant ==
    ASSUME IInv, Join
    PROVE  IInv'
<1> USE DEF Join, IInv
<1>1. TypeOK'
  BY SizeAssumption, LoadType DEF TypeOK, Workers
<1>2. PoolState'
  BY SizeAssumption, LoadType DEF TypeOK, PoolState, Workers
<1>3. LastLeaves'
  BY SizeAssumption, LoadType DEF TypeOK, PoolState, LastLeaves, Enlisted, Elems, Workers
<1>4. TaskState'
  BY SizeAssumption, LoadType DEF TypeOK, PoolState, TaskState, NewTasks, Running, Elems, Workers
<1>5. SharedIndex'
  BY SizeAssumption, LoadType DEF TypeOK, PoolState, SharedIndex, Positions, Begun, Workers
<1>6. Strides'
  BY SizeAssumption, LoadType DEF TypeOK, PoolState, Strides, Positions, Begun, Workers
<1>7. RunOnce'
  BY SizeAssumption, LoadType DEF TypeOK, PoolState, TaskState, RunOnce, Workers
<1>8. CompleteWhenFulfilled'
  BY SizeAssumption, LoadType
     DEF TypeOK, PoolState, LastLeaves, CompleteWhenFulfilled, Elems, Running, Workers
<1>9. QED BY <1>1, <1>2, <1>3, <1>4, <1>5, <1>6, <1>7, <1>8

(* A waiting worker sees its flag set, or the end of the pool. *)
LEMMA WaitForWorkInvariant ==
    ASSUME IInv, NEW w \in Workers, WaitForWork(w)
    PROVE  IInv'
<1> USE DEF WaitForWork, IInv
<1>1. TypeOK'
  BY SizeAssumption, LoadType DEF TypeOK, Workers
<1>2. PoolState'
  BY SizeAssumption, LoadType DEF TypeOK, PoolState, Workers
<1>3. LastLeaves'
  BY SizeAssumption, LoadType DEF TypeOK, PoolState, LastLeaves, Enlisted, Elems, Workers
<1>4. TaskState'
  BY SizeAssumption, LoadType DEF TypeOK, PoolState, TaskState, NewTasks, Running, Elems, Workers
<1>5. SharedIndex'
  BY SizeAssumption, LoadType DEF TypeOK, PoolState, SharedIndex, Positions, Begun, Workers
<1>6. Strides'
  BY SizeAssumption, LoadType DEF TypeOK, PoolState, Strides, Positions, Begun, Workers
<1>7. RunOnce'
  BY SizeAssumption, LoadType DEF TypeOK, PoolState, TaskState, RunOnce, Workers
<1>8. CompleteWhenFulfilled'
  BY SizeAssumption, LoadType
     DEF TypeOK, PoolState, LastLeaves, CompleteWhenFulfilled, Elems, Running, Workers
<1>9. QED BY <1>1, <1>2, <1>3, <1>4, <1>5, <1>6, <1>7, <1>8

(* worker_sq takes the shared index and advances it. *)
LEMMA FetchTaskInvariant ==
    ASSUME IInv, NEW w \in Workers, FetchTask(w)
    PROVE  IInv'
<1> USE DEF FetchTask, IInv
<1>1. TypeOK'
  <2>1. wpc' \in [Workers -> {"wait", "fetch", "test", "run", "finish", "leave", "last",
                              "fulfil", "exited"}]
    BY DEF TypeOK
  <2>2. it' \in [Workers -> Nat] /\ index' \in Nat
    <3>1. it \in [Workers -> Nat] /\ index \in Nat
      BY DEF TypeOK
    <3>2. CASE kind = "sq"
      BY <3>1, <3>2
    <3>3. CASE kind # "sq"
      BY <3>1, <3>3
    <3>4. QED BY <3>2, <3>3
  <2>3. QED BY <2>1, <2>2 DEF TypeOK
<1>2. PoolState'
  BY SizeAssumption, LoadType DEF TypeOK, PoolState, Workers
<1>3. LastLeaves'
  BY SizeAssumption, LoadType DEF TypeOK, PoolState, LastLeaves, Enlisted, Elems, Workers
<1>4. TaskState'
  BY SizeAssumption, LoadType DEF TypeOK, PoolState, TaskState, NewTasks, Running, Elems, Workers
<1>5. SharedIndex'
  <2>1. SUFFICES ASSUME kind = "sq", status = "PROCESSING"
                 PROVE  SharedIndex'
    BY DEF SharedIndex
  <2>2. /\ \A v \in Workers : it'[v] = IF v = w THEN index ELSE it[v]
        /\ \A v \in Workers : wpc'[v] = IF v = w THEN "test" ELSE wpc[v]
        /\ index' = index + 1 /\ index \in Nat /\ Len(batch) \in Nat
        /\ \A v \in Workers : it[v] \in Nat
    BY <2>1, LoadType DEF TypeOK
  <2>3. \A v \in Workers : wpc[v] = "test" => it[v] < index
    BY <2>1 DEF SharedIndex
  <2>4. \A v \in Workers : wpc'[v] = "test" =>
          it'[v] < index' /\ \A u \in Workers : wpc'[u] = "test" /\ it'[u] = it'[v] => u = v
    BY <2>1, <2>2, <2>3 DEF SharedIndex
  <2>5. ASSUME NEW i \in Positions
        PROVE  Begun(i) <=> i < index' /\ \A v \in Workers : wpc'[v] = "test" => it'[v] # i
    <3>1. i \in Nat
      BY DEF Positions
    <3>2. Begun(i) <=> i < index /\ \A v \in Workers : wpc[v] = "test" => it[v] # i
      BY <2>1 DEF SharedIndex
    <3>3. wpc[w] # "test"
      OBVIOUS
    <3>4. QED BY <2>2, <3>1, <3>2, <3>3
  <2>6. \A v \in Workers : wpc'[v] \in {"finish", "leave"} => Len(batch) <= index'
    BY <2>1, <2>2 DEF SharedIndex
  <2>7. QED BY <2>4, <2>5, <2>6 DEF SharedIndex, Positions, Begun
<1>6. Strides'
  BY SizeAssumption, LoadType DEF TypeOK, PoolState, Strides, Positions, Begun, Workers
<1>7. RunOnce'
  BY SizeAssumption, LoadType DEF TypeOK, PoolState, TaskState, RunOnce, Workers
<1>8. CompleteWhenFulfilled'
  BY SizeAssumption, LoadType
     DEF TypeOK, PoolState, LastLeaves, CompleteWhenFulfilled, Elems, Running, Workers
<1>9. QED BY <1>1, <1>2, <1>3, <1>4, <1>5, <1>6, <1>7, <1>8

(* A task returns. *)
LEMMA EndTaskInvariant ==
    ASSUME IInv, NEW w \in Workers, EndTask(w)
    PROVE  IInv'
<1> USE DEF EndTask, IInv
<1>1. TypeOK'
  <2>1. wpc' \in [Workers -> {"wait", "fetch", "test", "run", "finish", "leave", "last",
                              "fulfil", "exited"}]
    BY DEF TypeOK
  <2>2. task' \in [Workers -> Tasks \cup {0}]
    BY DEF TypeOK
  <2>3. ended' \subseteq Tasks
    BY DEF TypeOK, PoolState, TaskState, Running
  <2>4. QED BY <2>1, <2>2, <2>3 DEF TypeOK
<1>2. PoolState'
  BY SizeAssumption, LoadType DEF TypeOK, PoolState, Workers
<1>3. LastLeaves'
  BY SizeAssumption, LoadType DEF TypeOK, PoolState, LastLeaves, Enlisted, Elems, Workers
<1>4. TaskState'
  BY SizeAssumption, LoadType DEF TypeOK, PoolState, TaskState, NewTasks, Running, Elems, Workers
<1>5. SharedIndex'
  BY SizeAssumption, LoadType DEF TypeOK, PoolState, SharedIndex, Positions, Begun, Workers
<1>6. Strides'
  BY SizeAssumption, LoadType DEF TypeOK, PoolState, Strides, Positions, Begun, Workers
<1>7. RunOnce'
  BY SizeAssumption, LoadType DEF TypeOK, PoolState, TaskState, RunOnce, Workers
<1>8. CompleteWhenFulfilled'
  BY SizeAssumption, LoadType
     DEF TypeOK, PoolState, LastLeaves, CompleteWhenFulfilled, Elems, Running, Workers
<1>9. QED BY <1>1, <1>2, <1>3, <1>4, <1>5, <1>6, <1>7, <1>8

(* A task throws and the exception is caught. *)
LEMMA ThrowInvariant ==
    ASSUME IInv, NEW w \in Workers, Throw(w)
    PROVE  IInv'
<1> USE DEF Throw, IInv
<1>1. TypeOK'
  <2>1. wpc' \in [Workers -> {"wait", "fetch", "test", "run", "finish", "leave", "last",
                              "fulfil", "exited"}]
    BY DEF TypeOK
  <2>2. task' \in [Workers -> Tasks \cup {0}]
    BY DEF TypeOK
  <2>3. task[w] \in Tasks
    BY DEF TaskState, Running
  <2>4. ended' \subseteq Tasks /\ errors' \in Seq(Tasks)
    BY <2>3 DEF TypeOK
  <2>5. QED BY <2>1, <2>2, <2>4 DEF TypeOK
<1>2. PoolState'
  BY SizeAssumption, LoadType DEF TypeOK, PoolState, Workers
<1>3. LastLeaves'
  BY SizeAssumption, LoadType DEF TypeOK, PoolState, LastLeaves, Enlisted, Elems, Workers
<1>4. TaskState'
  BY SizeAssumption, LoadType DEF TypeOK, PoolState, TaskState, NewTasks, Running, Elems, Workers
<1>5. SharedIndex'
  BY SizeAssumption, LoadType DEF TypeOK, PoolState, SharedIndex, Positions, Begun, Workers
<1>6. Strides'
  BY SizeAssumption, LoadType DEF TypeOK, PoolState, Strides, Positions, Begun, Workers
<1>7. RunOnce'
  BY SizeAssumption, LoadType DEF TypeOK, PoolState, TaskState, RunOnce, Workers
<1>8. CompleteWhenFulfilled'
  BY SizeAssumption, LoadType
     DEF TypeOK, PoolState, LastLeaves, CompleteWhenFulfilled, Elems, Running, Workers
<1>9. QED BY <1>1, <1>2, <1>3, <1>4, <1>5, <1>6, <1>7, <1>8

(* A worker is no longer busy and still counted. *)
LEMMA FinishInvariant ==
    ASSUME IInv, NEW w \in Workers, Finish(w)
    PROVE  IInv'
<1> USE DEF Finish, IInv
<1>1. TypeOK'
  BY SizeAssumption, LoadType DEF TypeOK, Workers
<1>2. PoolState'
  BY SizeAssumption, LoadType DEF TypeOK, PoolState, Workers
<1>3. LastLeaves'
  BY SizeAssumption, LoadType DEF TypeOK, PoolState, LastLeaves, Enlisted, Elems, Workers
<1>4. TaskState'
  BY SizeAssumption, LoadType DEF TypeOK, PoolState, TaskState, NewTasks, Running, Elems, Workers
<1>5. SharedIndex'
  BY SizeAssumption, LoadType DEF TypeOK, PoolState, SharedIndex, Positions, Begun, Workers
<1>6. Strides'
  BY SizeAssumption, LoadType DEF TypeOK, PoolState, Strides, Positions, Begun, Workers
<1>7. RunOnce'
  BY SizeAssumption, LoadType DEF TypeOK, PoolState, TaskState, RunOnce, Workers
<1>8. CompleteWhenFulfilled'
  BY SizeAssumption, LoadType
     DEF TypeOK, PoolState, LastLeaves, CompleteWhenFulfilled, Elems, Running, Workers
<1>9. QED BY <1>1, <1>2, <1>3, <1>4, <1>5, <1>6, <1>7, <1>8

(* A worker decrements m_active: the last one finds every task ended. *)
LEMMA LeaveInvariant ==
    ASSUME IInv, NEW w \in Workers, Leave(w)
    PROVE  IInv'
<1> USE DEF Leave, IInv
<1>1. TypeOK'
  <2>1. wpc' \in [Workers -> {"wait", "fetch", "test", "run", "finish", "leave", "last",
                              "fulfil", "exited"}]
    BY DEF TypeOK
  <2>2. w \in Enlisted /\ active = Cardinality(Enlisted)
    BY DEF PoolState, LastLeaves, Enlisted
  <2>3. active # 0
    BY <2>2, EnlistedFinite, FS_EmptySet
  <2>4. active' \in 0 .. Size
    BY <2>3, SizeAssumption DEF TypeOK
  <2>5. QED BY <2>1, <2>4 DEF TypeOK
<1>2. PoolState'
  BY SizeAssumption, LoadType DEF TypeOK, PoolState, Workers
<1>3. LastLeaves'
  <2>1. /\ w \in Enlisted /\ active = Cardinality(Enlisted)
        /\ status = "PROCESSING" /\ wpc[w] = "leave" /\ ~busy[w]
        /\ \A v \in Workers : wpc[v] \notin {"last", "fulfil"}
    BY DEF PoolState, LastLeaves, Enlisted
  <2>2. \A v \in Workers : wpc'[v] = IF v # w THEN wpc[v] ELSE IF active = 1 THEN "last" ELSE "wait"
    BY DEF TypeOK
  <2>3. Enlisted' = Enlisted \ {w}
    BY <2>1, <2>2 DEF Enlisted
  <2>4. active' = Cardinality(Enlisted') /\ IsFiniteSet(Enlisted')
    BY <2>1, <2>3, EnlistedFinite, FS_RemoveElement
  <2>5. ASSUME active = 1 PROVE Enlisted' = {} /\ ended = Elems(batch)
    <3>1. Enlisted' = {}
      BY <2>4, <2>5, FS_EmptySet
    <3>2. \A v \in Workers : v = w \/ v \notin Enlisted
      BY <2>3, <3>1
    <3>3. \A v \in Workers : v = w \/ (~busy[v] /\ wpc[v] \in {"wait", "exited"})
      BY <2>1, <3>2 DEF Enlisted, PoolState, TypeOK
    <3>4. QED BY <2>1, <3>1, <3>3, AllBegun
  <2>6. QED BY <2>1, <2>2, <2>4, <2>5 DEF LastLeaves, Elems
<1>4. TaskState'
  BY SizeAssumption, LoadType DEF TypeOK, PoolState, TaskState, NewTasks, Running, Elems, Workers
<1>5. SharedIndex'
  BY SizeAssumption, LoadType DEF TypeOK, PoolState, SharedIndex, Positions, Begun, Workers
<1>6. Strides'
  BY SizeAssumption, LoadType DEF TypeOK, PoolState, Strides, Positions, Begun, Workers
<1>7. RunOnce'
  BY SizeAssumption, LoadType DEF TypeOK, PoolState, TaskState, RunOnce, Workers
<1>8. CompleteWhenFulfilled'
  BY SizeAssumption, LoadType
     DEF TypeOK, PoolState, LastLeaves, CompleteWhenFulfilled, Elems, Running, Workers
<1>9. QED BY <1>1, <1>2, <1>3, <1>4, <1>5, <1>6, <1>7, <1>8

(* The last one sets the status, *)
LEMMA CompleteInvariant ==
    ASSUME IInv, NEW w \in Workers, Complete(w)
    PROVE  IInv'
<1> USE DEF Complete, IInv
<1>1. TypeOK'
  <2>1. wpc' \in [Workers -> {"wait", "fetch", "test", "run", "finish", "leave", "last",
                              "fulfil", "exited"}]
    BY DEF TypeOK
  <2>2. workload' \in Seq(Tasks) /\ dirty' \in BOOLEAN
    <3>1. CASE clearMode = "UPPON_COMPLETION"
      <4>1. workload' = <<>> /\ dirty' = FALSE
        BY <3>1, Zenon
      <4>2. workload' \in Seq(Tasks)
        BY <4>1
      <4>3. QED BY <4>1, <4>2, Zenon
    <3>2. CASE clearMode # "UPPON_COMPLETION"
      BY <3>2, Zenon DEF TypeOK
    <3>3. QED BY <3>1, <3>2
  <2>3. QED BY <2>1, <2>2 DEF TypeOK
<1>2. PoolState'
  <2>1. /\ status = "PROCESSING" /\ owner = "waiting" /\ promise = "pending"
        /\ \A v \in Workers : wpc[v] \notin {"fulfil", "exited"}
    BY DEF TypeOK, PoolState
  <2>2. \A v \in Workers : ~busy[v] /\ wpc[v] # "leave" /\ (wpc[v] = "last" => v = w)
    BY DEF LastLeaves, Enlisted
  <2>3. \A v \in Workers : v = w \/ wpc[v] = "wait"
    BY <2>1, <2>2 DEF TypeOK, PoolState
  <2>4. \A v \in Workers : wpc'[v] = IF v = w THEN "fulfil" ELSE wpc[v]
    BY DEF TypeOK
  <2>5. QED BY <2>1, <2>2, <2>3, <2>4 DEF PoolState
<1>3. LastLeaves'
  BY SizeAssumption, LoadType DEF TypeOK, PoolState, LastLeaves, Enlisted, Elems, Workers
<1>4. TaskState'
  BY SizeAssumption, LoadType DEF TypeOK, PoolState, TaskState, NewTasks, Running, Elems, Workers
<1>5. SharedIndex'
  BY SizeAssumption, LoadType DEF TypeOK, PoolState, SharedIndex, Positions, Begun, Workers
<1>6. Strides'
  BY SizeAssumption, LoadType DEF TypeOK, PoolState, Strides, Positions, Begun, Workers
<1>7. RunOnce'
  BY SizeAssumption, LoadType DEF TypeOK, PoolState, TaskState, RunOnce, Workers
<1>8. CompleteWhenFulfilled'
  BY SizeAssumption, LoadType
     DEF TypeOK, PoolState, LastLeaves, CompleteWhenFulfilled, Elems, Running, Workers
<1>9. QED BY <1>1, <1>2, <1>3, <1>4, <1>5, <1>6, <1>7, <1>8

(* and then the promise. *)
LEMMA FulfilInvariant ==
    ASSUME IInv, NEW w \in Workers, Fulfil(w)
    PROVE  IInv'
<1> USE DEF Fulfil, IInv
<1>1. TypeOK'
  BY SizeAssumption, LoadType DEF TypeOK, Workers
<1>2. PoolState'
  <2>1. /\ status = "READY" /\ owner = "waiting" /\ promise = "pending"
    BY DEF TypeOK, PoolState
  <2>2. \A v \in Workers : wpc'[v] = IF v = w THEN "wait" ELSE wpc[v]
    BY DEF TypeOK
  <2>3. \A v \in Workers : wpc'[v] # "fulfil"
    BY <2>2 DEF LastLeaves
  <2>4. QED BY <2>1, <2>2, <2>3 DEF PoolState
<1>3. LastLeaves'
  BY SizeAssumption, LoadType DEF TypeOK, PoolState, LastLeaves, Enlisted, Elems, Workers
<1>4. TaskState'
  BY SizeAssumption, LoadType DEF TypeOK, PoolState, TaskState, NewTasks, Running, Elems, Workers
<1>5. SharedIndex'
  BY SizeAssumption, LoadType DEF TypeOK, PoolState, SharedIndex, Positions, Begun, Workers
<1>6. Strides'
  BY SizeAssumption, LoadType DEF TypeOK, PoolState, Strides, Positions, Begun, Workers
<1>7. RunOnce'
  BY SizeAssumption, LoadType DEF TypeOK, PoolState, TaskState, RunOnce, Workers
<1>8. CompleteWhenFulfilled'
  BY SizeAssumption, LoadType
     DEF TypeOK, PoolState, LastLeaves, CompleteWhenFulfilled, Elems, Running, Workers
<1>9. QED BY <1>1, <1>2, <1>3, <1>4, <1>5, <1>6, <1>7, <1>8

(* A worker that finds no task left leaves doWork.                            *)
LEMMA NoTaskInvariant ==
    ASSUME IInv, NEW w \in Workers, BeginTask(w),
           ~(it[w] < Len(workload) /\ status = "PROCESSING")
    PROVE  IInv'
<1> USE DEF BeginTask, IInv
<1>1. /\ wpc[w] = "test" /\ busy[w] /\ status = "PROCESSING"
      /\ wpc' = [wpc EXCEPT ![w] = "finish"] /\ UNCHANGED <<runs, it, task>>
  BY DEF PoolState
<1>2. Len(batch) <= it[w] /\ it[w] \in Nat /\ index \in Nat /\ Len(batch) \in Nat
  BY <1>1, LoadType DEF TypeOK, PoolState
<1>3. TypeOK'
  BY <1>1 DEF TypeOK
<1>4. PoolState'
  BY <1>1 DEF TypeOK, PoolState
<1>5. LastLeaves'
  BY <1>1 DEF TypeOK, PoolState, LastLeaves, Enlisted, Elems
<1>6. TaskState'
  BY <1>1 DEF TypeOK, PoolState, TaskState, NewTasks, Running, Elems
<1>7. SharedIndex'
  <2>1. SUFFICES ASSUME kind = "sq" PROVE SharedIndex'
    BY <1>1 DEF SharedIndex
  <2>2. \A v \in Workers : wpc'[v] = IF v = w THEN "finish" ELSE wpc[v]
    BY <1>1 DEF TypeOK
  <2>3. /\ \A v \in Workers : wpc[v] = "test" =>
              it[v] < index /\ \A u \in Workers : wpc[u] = "test" /\ it[u] = it[v] => u = v
        /\ \A i \in Positions :
              Begun(i) <=> i < index /\ \A v \in Workers : wpc[v] = "test" => it[v] # i
        /\ \A v \in Workers : wpc[v] \in {"finish", "leave"} => Len(batch) <= index
    BY <1>1, <2>1 DEF SharedIndex
  <2>4. Len(batch) <= index
    BY <1>1, <1>2, <2>3
  <2>5. \A i \in Positions : i # it[w]
    BY <1>2 DEF Positions
  <2>6. \A i \in Positions :
          Begun(i) <=> i < index /\ \A v \in Workers : wpc'[v] = "test" => it[v] # i
    BY <1>1, <2>2, <2>3, <2>5
  <2>7. \A v \in Workers : wpc'[v] = "test" =>
              it[v] < index /\ \A u \in Workers : wpc'[u] = "test" /\ it[u] = it[v] => u = v
    BY <2>2, <2>3
  <2>8. \A v \in Workers : wpc'[v] \in {"finish", "leave"} => Len(batch) <= index
    BY <2>4
  <2>9. UNCHANGED <<it, index, batch, runs>>
    BY <1>1
  <2>10. QED BY <2>6, <2>7, <2>8, <2>9 DEF SharedIndex, Positions, Begun
<1>8. Strides'
  BY <1>1, <1>2 DEF TypeOK, PoolState, Strides, Positions, Begun
<1>9. RunOnce' /\ CompleteWhenFulfilled'
  BY <1>1 DEF TypeOK, PoolState, RunOnce, CompleteWhenFulfilled, Running, Elems
<1>10. QED BY <1>3, <1>4, <1>5, <1>6, <1>7, <1>8, <1>9

(* The task a worker begins was not begun before: no other worker_sq has its  *)
(* position, and a worker_mq is at the first one of its stride.               *)
LEMMA TaskIsNew ==
    ASSUME IInv, NEW w \in Workers, wpc[w] = "test", it[w] < Len(workload), status = "PROCESSING"
    PROVE  /\ workload = batch /\ it[w] \in Positions /\ it[w] + 1 \in DOMAIN batch
           /\ batch[it[w] + 1] \in Tasks /\ batch[it[w] + 1] \in Elems(batch)
           /\ runs[batch[it[w] + 1]] = 0 /\ ~Begun(it[w])
<1> USE DEF IInv
<1>1. /\ workload = batch /\ batch \in Seq(Tasks) /\ Len(batch) \in Nat
      /\ it[w] \in Nat /\ it[w] < Len(batch) /\ busy[w]
  BY LoadType DEF TypeOK, PoolState
<1>2. it[w] \in Positions /\ it[w] + 1 \in DOMAIN batch
  BY <1>1, LoadType DEF Positions
<1>3. batch[it[w] + 1] \in Tasks /\ batch[it[w] + 1] \in Elems(batch)
  BY <1>1, <1>2, LoadType DEF Elems
<1>4. ~Begun(it[w])
  <2>1. CASE kind = "sq"
    BY <1>2, <2>1 DEF SharedIndex
  <2>2. CASE kind = "mq"
    <3>1. w < Len(batch)
      BY <1>1, <2>2 DEF Strides
    <3>2. it[w] % Size = w
      BY <2>2, <3>1 DEF Strides
    <3>3. Begun(it[w]) <=> it[w] < it[it[w] % Size]
      BY <1>2, <2>2 DEF Strides
    <3>4. QED BY <1>1, <3>2, <3>3
  <2>3. QED BY <2>1, <2>2, KindsAssumption DEF TypeOK
<1>5. runs[batch[it[w] + 1]] = 0
  BY <1>3, <1>4 DEF TaskState, Begun
<1>6. QED BY <1>1, <1>2, <1>3, <1>4, <1>5

(* A worker begins the task at its position. *)
LEMMA TaskBegunInvariant ==
    ASSUME IInv, NEW w \in Workers, BeginTask(w), it[w] < Len(workload), status = "PROCESSING"
    PROVE  IInv'
<1> USE DEF BeginTask, IInv
<1> DEFINE p == it[w]
           t == batch[p + 1]
<1>1. /\ workload = batch /\ p \in Positions /\ p + 1 \in DOMAIN batch
      /\ t \in Tasks /\ t \in Elems(batch) /\ runs[t] = 0 /\ ~Begun(p)
  BY TaskIsNew
<1>2. /\ wpc[w] = "test" /\ busy[w]
      /\ wpc' = [wpc EXCEPT ![w] = "run"]
      /\ runs' = [runs EXCEPT ![t] = runs[t] + 1]
      /\ it' = IF kind = "mq" THEN [it EXCEPT ![w] = p + Size] ELSE it
      /\ task' = [task EXCEPT ![w] = t]
      /\ UNCHANGED <<config, status, loadVars, active, index, errors, promise, owner,
                     busy, issued, batch, ended>>
  BY <1>1 DEF PoolState
<1>3. batch \in Seq(Tasks) /\ Len(batch) \in Nat /\ p \in Nat /\ p < Len(batch) /\ DOMAIN batch = 1 .. Len(batch)
  BY <1>1, LoadType DEF TypeOK, Positions
<1> HIDE DEF t, p, BeginTask
<1>4. /\ \A v \in Workers : wpc'[v] = IF v = w THEN "run" ELSE wpc[v]
      /\ \A u \in Tasks : runs'[u] = IF u = t THEN 1 ELSE runs[u]
      /\ \A v \in Workers : task'[v] = IF v = w THEN t ELSE task[v]
      /\ Running' = Running \cup {w} /\ w \notin Running
  BY <1>1, <1>2 DEF TypeOK, Running
<1>5. TypeOK'
  <2>1. wpc' \in [Workers -> {"wait", "fetch", "test", "run", "finish", "leave", "last",
                              "fulfil", "exited"}]
    BY <1>2 DEF TypeOK
  <2>2. runs' \in [Tasks -> Nat] /\ task' \in [Workers -> Tasks \cup {0}]
    BY <1>1, <1>2 DEF TypeOK
  <2>3. it' \in [Workers -> Nat]
    <3>1. p + Size \in Nat /\ it \in [Workers -> Nat]
      BY <1>3, SizeAssumption DEF TypeOK
    <3>2. QED BY <1>2, <3>1
  <2>4. QED BY <1>2, <2>1, <2>2, <2>3 DEF TypeOK
<1>6. PoolState'
  BY <1>2, <1>4 DEF PoolState
<1>7. LastLeaves'
  <2>1. w \in Enlisted /\ Enlisted' = Enlisted
    BY <1>2, <1>4 DEF Enlisted
  <2>2. \A v \in Workers : wpc'[v] \notin {"last", "fulfil"}
    BY <1>2, <1>4, <2>1 DEF LastLeaves, PoolState
  <2>3. active' = Cardinality(Enlisted')
    BY <1>2, <2>1 DEF LastLeaves
  <2>4. QED BY <2>2, <2>3 DEF LastLeaves
<1>8. TaskState'
  <2>1. t \notin ended /\ \A v \in Running : task[v] # t
    BY <1>1 DEF TaskState
  <2>2. \A u \in Tasks : runs'[u] = 0 \/ (runs'[u] = 1 /\ u \in Elems(batch))
    BY <1>1, <1>4 DEF TaskState
  <2>3. \A u \in Tasks : u \in ended => runs'[u] = 1
    BY <1>4, <2>1 DEF TaskState
  <2>4. ASSUME NEW u \in Tasks, runs'[u] = 1
        PROVE  u \in ended \/ \E v \in Running' : task'[v] = u
    <3>1. CASE u = t
      BY <1>4, <3>1
    <3>2. CASE u # t
      <4>1. runs[u] = 1
        BY <1>4, <2>4, <3>2
      <4>2. u \in ended \/ \E v \in Running : task[v] = u
        BY <4>1 DEF TaskState
      <4>3. \A v \in Running : v \in Workers /\ v # w /\ v \in Running'
        BY <1>4 DEF Running
      <4>4. QED BY <1>4, <4>2, <4>3
    <3>3. QED BY <3>1, <3>2
  <2>5. ASSUME NEW v \in Running'
        PROVE  /\ task'[v] \in Tasks \ ended /\ runs'[task'[v]] = 1
               /\ \A u \in Running' : task'[u] = task'[v] => u = v
    <3>1. v \in Workers /\ Running' \subseteq Workers
      BY <2>5 DEF Running
    <3>2. CASE v = w
      BY <1>1, <1>4, <2>1, <3>1, <3>2
    <3>3. CASE v # w
      BY <1>1, <1>4, <2>1, <3>1, <3>3 DEF TaskState
    <3>4. QED BY <3>2, <3>3
  <2>6. NewTasks(workload)' /\ NewTasks(batch)'
    BY <1>2 DEF TaskState, NewTasks
  <2>7. QED BY <1>2, <2>2, <2>3, <2>4, <2>5, <2>6 DEF TaskState, Elems
<1>9. \A i \in Positions : i \in Nat /\ i + 1 \in DOMAIN batch /\ (Begun(i)' <=> Begun(i) \/ i = p)
  <2>1. \A i, j \in DOMAIN batch : batch[i] = batch[j] => i = j
    BY DEF TaskState, NewTasks
  <2>2. ASSUME NEW i \in Positions PROVE i \in Nat /\ i + 1 \in DOMAIN batch /\ batch[i + 1] \in Tasks
    BY <1>3, LoadType DEF Positions
  <2>3. ASSUME NEW i \in Positions PROVE batch[i + 1] = t <=> i = p
    BY <1>1, <1>3, <2>1, <2>2 DEF t
  <2>4. QED BY <1>2, <1>4, <2>2, <2>3 DEF Begun
<1>10. SharedIndex'
  <2>1. SUFFICES ASSUME kind = "sq" PROVE SharedIndex'
    BY <1>2 DEF SharedIndex
  <2>2. UNCHANGED <<it, index, batch>>
    BY <1>2, <2>1
  <2>3. \A v \in Workers : wpc'[v] = "test" <=> wpc[v] = "test" /\ v # w
    BY <1>4
  <2>4. \A v \in Workers : wpc'[v] \in {"finish", "leave"} <=> wpc[v] \in {"finish", "leave"}
    BY <1>2, <1>4
  <2>5. /\ \A v \in Workers : wpc[v] = "test" =>
              it[v] < index /\ \A u \in Workers : wpc[u] = "test" /\ it[u] = it[v] => u = v
        /\ \A i \in Positions :
              Begun(i) <=> i < index /\ \A v \in Workers : wpc[v] = "test" => it[v] # i
        /\ \A v \in Workers : wpc[v] \in {"finish", "leave"} => Len(batch) <= index
    BY <2>1 DEF SharedIndex
  <2>6. \A i \in Positions :
          Begun(i)' <=> i < index /\ \A v \in Workers : wpc'[v] = "test" => it[v] # i
    BY <1>2, <1>9, <2>3, <2>5 DEF p
  <2>7. \A v \in Workers : wpc'[v] = "test" =>
              it[v] < index /\ \A u \in Workers : wpc'[u] = "test" /\ it[u] = it[v] => u = v
    BY <2>3, <2>5
  <2>8. \A v \in Workers : wpc'[v] \in {"finish", "leave"} => Len(batch) <= index
    BY <2>4, <2>5
  <2>9. Positions' = Positions
    BY <2>2 DEF Positions
  <2>10. QED BY <2>2, <2>6, <2>7, <2>8, <2>9 DEF SharedIndex
<1>11. Strides'
  <2>1. SUFFICES ASSUME kind = "mq" PROVE Strides'
    BY <1>2 DEF Strides
  <2>2. it \in [Workers -> Nat] /\ Size \in Nat /\ p + Size \in Nat
    BY <1>3, SizeAssumption DEF TypeOK
  <2>3. \A v \in Workers : it'[v] = IF v = w THEN p + Size ELSE it[v]
    BY <1>2, <2>1, <2>2
  <2>4. /\ \A v \in Workers : v < Len(batch) => it[v] % Size = v
        /\ \A v \in Workers : busy[v] => v < Len(batch)
        /\ \A v \in Workers : v < Len(batch) /\ (~busy[v] \/ wpc[v] = "finish") => Len(batch) <= it[v]
        /\ \A i \in Positions : Begun(i) <=> i < it[i % Size]
    BY <1>2, <2>1 DEF Strides
  <2>5. p % Size = w
    BY <1>2, <2>4 DEF p
  <2>6. \A v \in Workers : v < Len(batch) => it'[v] % Size = v
    BY <1>3, <2>3, <2>4, <2>5, NextOfStride
  <2>7. \A v \in Workers : v < Len(batch) /\ (~busy[v] \/ wpc'[v] = "finish") => Len(batch) <= it'[v]
    BY <1>2, <1>4, <2>3, <2>4
  <2>8. ASSUME NEW i \in Positions PROVE Begun(i)' <=> i < it'[i % Size]
    <3>1. i \in Nat /\ i % Size \in Workers /\ (Begun(i)' <=> Begun(i) \/ i = p)
      BY <1>9, OwnerOfPosition
    <3>2. Begun(i) <=> i < it[i % Size]
      BY <2>4
    <3>3. CASE i % Size = w
      <4>1. i < p + Size <=> i < p \/ i = p
        <5>1. ASSUME i < p + Size, ~(i < p) PROVE i = p
          BY <1>3, <2>5, <3>1, <3>3, <5>1, NoneBetween
        <5>2. Size > 0
          BY SizeAssumption
        <5>3. QED BY <1>3, <2>2, <3>1, <5>1, <5>2
      <4>2. QED BY <2>3, <3>1, <3>2, <3>3, <4>1 DEF p
    <3>4. CASE i % Size # w
      BY <2>3, <2>5, <3>1, <3>2, <3>4
    <3>5. QED BY <3>3, <3>4
  <2>9. Positions' = Positions
    BY <1>2 DEF Positions
  <2>10. QED BY <1>2, <2>4, <2>6, <2>7, <2>8, <2>9 DEF Strides
<1>12. RunOnce'
  BY <1>4, <1>5 DEF RunOnce, TaskState
<1>13. CompleteWhenFulfilled'
  BY <1>2 DEF CompleteWhenFulfilled, PoolState
<1>14. QED BY <1>5, <1>6, <1>7, <1>8, <1>10, <1>11, <1>12, <1>13

(* Both outcomes of the comparison. *)
LEMMA BeginTaskInvariant ==
    ASSUME IInv, NEW w \in Workers, BeginTask(w)
    PROVE  IInv'
BY NoTaskInvariant, TaskBegunInvariant

(* A workload is started: tasks that are all new, workers that all wait.      *)
LEMMA StartInvariant ==
    ASSUME IInv, NEW load \in Seq(Tasks), load # <<>>, StartWorkload(load),
           owner = "idle", issued' \in issued .. MaxTasks,
           \A i \in DOMAIN load : load[i] <= issued',
           \A i, j \in DOMAIN load : load[i] = load[j] => i = j
    PROVE  IInv'
<1> USE DEF StartWorkload, IInv
<1> DEFINE m == Smaller(Size, Len(load))
<1>1. /\ Len(load) \in Nat /\ Len(load) > 0 /\ DOMAIN load = 1 .. Len(load) /\ Elems(load) \subseteq Tasks
      /\ issued \in Nat /\ MaxTasks \in Nat
  BY LoadType, BoundsAssumption DEF TypeOK
<1>2. m \in 1 .. Size /\ m <= Len(load)
  BY <1>1, SizeAssumption DEF Smaller
<1>3. \A w \in Workers : ~busy[w] /\ wpc[w] = "wait"
  BY DEF PoolState, TypeOK
<1>4. /\ \A w \in Workers : busy'[w] <=> w < m
      /\ \A w \in Workers : it'[w] = IF w < m THEN w ELSE it[w]
      /\ active' = m /\ index' = 0 /\ status' = "PROCESSING" /\ workload' = load /\ batch' = load
      /\ promise' = "pending" /\ owner' = "waiting" /\ ended' = {}
      /\ runs' = [t \in Tasks |-> 0] /\ wpc' = wpc /\ task' = task /\ kind' = kind
  BY <1>3
<1>5. busy' \in [Workers -> BOOLEAN] /\ it' \in [Workers -> Nat]
  <2>1. busy' = [w \in Workers |-> w < m \/ busy[w]]
    OBVIOUS
  <2>2. \A w \in Workers : (w < m \/ busy[w]) \in BOOLEAN
    BY Zenon
  <2>3. busy' \in [Workers -> BOOLEAN]
    BY <2>1, <2>2, Zenon
  <2>4. it \in [Workers -> Nat] /\ Workers \subseteq Nat
    BY SizeAssumption DEF TypeOK, Workers
  <2>5. QED BY <2>3, <2>4
<1>6. Enlisted' = 0 .. m - 1
  BY <1>2, <1>3, <1>4, SizeAssumption DEF Enlisted, Workers
<1> HIDE DEF m
<1>7. TypeOK'
  <2>1. runs' \in [Tasks -> Nat] /\ dirty' \in BOOLEAN /\ issued' \in 0 .. MaxTasks
    BY <1>1, <1>4
  <2>2. active' \in 0 .. Size /\ index' \in Nat
    BY <1>2, <1>4, SizeAssumption
  <2>3. QED BY <1>4, <1>5, <2>1, <2>2 DEF TypeOK
<1>8. PoolState'
  BY <1>3, <1>4 DEF PoolState
<1>9. LastLeaves'
  <2>1. Cardinality(0 .. m - 1) = m
    BY <1>2, FS_Interval, SizeAssumption
  <2>2. QED BY <1>3, <1>4, <1>6, <2>1 DEF LastLeaves
<1>10. TaskState'
  <2>1. \A t \in Tasks : runs'[t] = 0
    BY <1>4
  <2>2. Running' = {}
    BY <1>3, <1>4 DEF Running
  <2>3. NewTasks(workload)' /\ NewTasks(batch)'
    BY <1>4 DEF NewTasks
  <2>4. QED BY <1>4, <2>1, <2>2, <2>3 DEF TaskState
<1>11. \A i \in Positions' : i \in Nat /\ i < Len(load) /\ ~Begun(i)'
  <2>1. ASSUME NEW i \in 0 .. Len(load) - 1
        PROVE  i \in Nat /\ i < Len(load) /\ load[i + 1] \in Tasks
    <3>1. i + 1 \in DOMAIN load
      BY <1>1
    <3>2. QED BY <1>1, <3>1, LoadType
  <2>2. QED BY <1>4, <2>1 DEF Positions, Begun
<1>12. SharedIndex'
  BY <1>3, <1>4, <1>11 DEF SharedIndex
<1>13. Strides'
  <2>1. SUFFICES ASSUME kind = "mq" PROVE Strides'
    BY <1>4 DEF Strides
  <2>2. \A w \in Workers : w \in Nat /\ w < Size
    BY SizeAssumption DEF Workers
  <2>3. \A w \in Workers : w < m <=> w < Len(load)
    BY <1>1, <1>2, <2>2, SizeAssumption DEF m, Smaller
  <2>4. \A w \in Workers : w < Len(load) => it'[w] % Size = w
    BY <1>4, <2>3, FirstOfStride
  <2>5. \A w \in Workers : w < Len(load) => busy'[w] /\ wpc'[w] # "finish"
    BY <1>3, <1>4, <2>3
  <2>6. ASSUME NEW i \in Positions' PROVE ~(i < it'[i % Size])
    <3>1. i % Size \in Workers /\ i % Size <= i /\ i \in Nat /\ i < Len(load)
      BY <1>11, OwnerOfPosition
    <3>2. it'[i % Size] = i % Size
      BY <1>1, <1>4, <2>2, <2>3, <3>1
    <3>3. QED BY <2>2, <3>1, <3>2
  <2>7. QED BY <1>4, <1>11, <2>3, <2>4, <2>5, <2>6 DEF Strides
<1>14. RunOnce' /\ CompleteWhenFulfilled'
  BY <1>4 DEF RunOnce, CompleteWhenFulfilled
<1>15. QED BY <1>7, <1>8, <1>9, <1>10, <1>12, <1>13, <1>14

(* processWorkload() with the tasks added, *)
LEMMA ProcessInvariant ==
    ASSUME IInv, ProcessWorkload
    PROVE  IInv'
<1> USE DEF ProcessWorkload
<1>1. CASE clearMode = "AT_NEXT_WORKLOAD" /\ dirty
  <2>1. /\ workload' = <<>> /\ dirty' = FALSE
        /\ UNCHANGED <<config, status, active, index, errors, promise, owner, workerVars,
                       history, issued>>
        /\ status = "READY"
    BY <1>1, Zenon
  <2>2. TypeOK'
    <3>1. workload' \in Seq(Tasks)
      BY <2>1
    <3>2. dirty' \in BOOLEAN
      BY <2>1, Zenon
    <3>3. QED BY <2>1, <3>1, <3>2 DEF IInv, TypeOK
  <2>3. PoolState' /\ SharedIndex' /\ Strides'
    BY <2>1 DEF IInv, PoolState, SharedIndex, Strides
  <2>4. LastLeaves' /\ RunOnce' /\ CompleteWhenFulfilled'
    BY <2>1 DEF IInv, LastLeaves, Enlisted, Elems, RunOnce, CompleteWhenFulfilled, Running
  <2>5. TaskState'
    BY <2>1 DEF IInv, TaskState, NewTasks, Elems, Running
  <2>6. QED BY <2>2, <2>3, <2>4, <2>5 DEF IInv
<1>2. CASE ~(clearMode = "AT_NEXT_WORKLOAD" /\ dirty)
  <2>1. workload # <<>> /\ StartWorkload(workload) /\ issued' = issued /\ owner = "idle"
    BY <1>2, Zenon
  <2>2. workload \in Seq(Tasks) /\ issued \in 0 .. MaxTasks /\ MaxTasks \in Nat
    BY BoundsAssumption DEF IInv, TypeOK
  <2>3. NewTasks(workload)
    BY DEF IInv, TaskState
  <2>4. QED BY <2>1, <2>2, <2>3, StartInvariant DEF NewTasks
<1>3. QED BY <1>1, <1>2

(* and processWorkload(workload) with a new one. *)
LEMMA ProcessOfInvariant ==
    ASSUME IInv, NEW n \in 1 .. MaxTasks, ProcessWorkloadOf(n)
    PROVE  IInv'
<1> DEFINE load == [i \in 1 .. n |-> issued + i]
<1>1. issued \in 0 .. MaxTasks /\ MaxTasks \in Nat /\ issued + n <= MaxTasks /\ issued' = issued + n
  BY BoundsAssumption DEF IInv, TypeOK, ProcessWorkloadOf
<1>2. load \in Seq(Tasks) /\ load # <<>> /\ DOMAIN load = 1 .. n
  BY <1>1 DEF Tasks
<1>3. \A i \in 1 .. n : load[i] = issued + i
  OBVIOUS
<1>4. StartWorkload(load) /\ owner = "idle"
  BY DEF ProcessWorkloadOf
<1> HIDE DEF load
<1>5. /\ \A i \in DOMAIN load : load[i] <= issued'
      /\ \A i, j \in DOMAIN load : load[i] = load[j] => i = j
  BY <1>1, <1>2, <1>3
<1>6. issued' \in issued .. MaxTasks
  BY <1>1
<1>7. QED BY <1>2, <1>4, <1>5, <1>6, StartInvariant

-----------------------------------------------------------------------------
(* A pool that has been constructed satisfies the invariant, *)
LEMMA InitInvariant == Init => IInv
<1> SUFFICES ASSUME Init PROVE IInv
  OBVIOUS
<1> USE DEF Init
<1>1. TypeOK
  <2>1. /\ workload \in Seq(Tasks) /\ errors \in Seq(Tasks) /\ batch \in Seq(Tasks)
        /\ active \in 0 .. Size /\ index \in Nat /\ issued \in 0 .. MaxTasks
        /\ it \in [Workers -> Nat] /\ task \in [Workers -> Tasks \cup {0}] /\ runs \in [Tasks -> Nat]
    BY SizeAssumption, BoundsAssumption
  <2>2. dirty \in BOOLEAN /\ busy \in [Workers -> BOOLEAN]
    BY Zenon
  <2>3. wpc \in [Workers -> {"wait", "fetch", "test", "run", "finish", "leave", "last",
                             "fulfil", "exited"}]
    OBVIOUS
  <2>4. QED BY <2>1, <2>2, <2>3 DEF TypeOK
<1>2. PoolState
  BY DEF PoolState
<1>3. LastLeaves
  BY DEF LastLeaves
<1>4. TaskState
  BY DEF TaskState, NewTasks, Running
<1>5. QED BY <1>1, <1>2, <1>3, <1>4 DEF IInv, SharedIndex, Strides, RunOnce, CompleteWhenFulfilled

(* and every step preserves it. *)
LEMMA StepInvariant == IInv /\ [Next]_vars => IInv'
<1> SUFFICES ASSUME IInv, [Next]_vars PROVE IInv'
  OBVIOUS
<1>1. CASE Owner
  BY <1>1, AddTaskInvariant, ProcessInvariant, ProcessOfInvariant, WaitInvariant, DestroyInvariant,
     JoinInvariant DEF Owner
<1>2. ASSUME NEW w \in Workers, Worker(w) PROVE IInv'
  BY <1>2, WaitForWorkInvariant, FetchTaskInvariant, BeginTaskInvariant, EndTaskInvariant, ThrowInvariant,
     FinishInvariant, LeaveInvariant, CompleteInvariant, FulfilInvariant DEF Worker
<1>3. CASE UNCHANGED vars
  <2> USE <1>3
  <2>1. TypeOK' /\ PoolState' /\ SharedIndex' /\ Strides'
    BY DEF IInv, TypeOK, PoolState, SharedIndex, Strides, Positions, Begun
  <2>2. LastLeaves' /\ TaskState' /\ RunOnce' /\ CompleteWhenFulfilled'
    BY DEF IInv, LastLeaves, Enlisted, TaskState, NewTasks, Running, Elems, RunOnce, CompleteWhenFulfilled
  <2>3. QED BY <2>1, <2>2 DEF IInv
<1>4. QED BY <1>1, <1>2, <1>3 DEF Next, Terminated

-----------------------------------------------------------------------------
(* The inductive invariant: phases, count, tasks and positions agree.         *)
THEOREM Invariant == Spec => []IInv
BY InitInvariant, StepInvariant, PTL DEF Spec

(* Every variable of the pool keeps its type. *)
THEOREM TypeCorrect == Spec => []TypeOK
<1>1. IInv => TypeOK
  BY DEF IInv
<1>2. QED BY <1>1, Invariant, PTL

(* No task of a workload is executed twice. *)
THEOREM RunOnceHolds == Spec => []RunOnce
<1>1. IInv => RunOnce
  BY DEF IInv
<1>2. QED BY <1>1, Invariant, PTL

(* When the future is ready every task of the workload has ended.             *)
THEOREM CompleteHolds == Spec => []CompleteWhenFulfilled
<1>1. IInv => CompleteWhenFulfilled
  BY DEF IInv
<1>2. QED BY <1>1, Invariant, PTL

-----------------------------------------------------------------------------
(* ThreadPool implements WorkPool: each step of the pool is one of WorkPool   *)
(* or changes nothing its users see.                                          *)

(* Handing a workload over is Process. *)
LEMMA StartIsProcess ==
    ASSUME IInv, NEW load \in Seq(Tasks), load # <<>>, StartWorkload(load), owner = "idle"
    PROVE  \E S \in SUBSET Tasks : Abstract!Process(S)
<1>1. Elems(load) \in SUBSET Tasks /\ Elems(load) # {}
  <2>1. Len(load) \in Nat /\ Len(load) # 0 /\ DOMAIN load = 1 .. Len(load)
    BY LoadType
  <2>2. 1 \in DOMAIN load
    BY <2>1
  <2>3. QED BY <2>2, LoadType DEF Elems
<1>2. \A w \in Workers : wpc'[w] = "wait"
  BY DEF IInv, PoolState, TypeOK, StartWorkload
<1>3. {task[w] : w \in Running}' = {}
  BY <1>2 DEF Running
<1>4. Elems(batch)' = Elems(load) /\ ended' = {} /\ owner' = "waiting"
  BY DEF StartWorkload, Elems
<1>5. Abstract!Process(Elems(load))
  BY <1>1, <1>3, <1>4 DEF Abstract!Process
<1>6. QED BY <1>1, <1>5

(* The end of a task is End. *)
LEMMA EndIsEnd ==
    ASSUME IInv, NEW w \in Workers, wpc[w] = "run", wpc'[w] # "run",
           \A v \in Workers \ {w} : wpc'[v] = wpc[v] /\ task'[v] = task[v],
           ended' = ended \cup {task[w]}, UNCHANGED <<batch, owner>>
    PROVE  Abstract!PoolNext
<1>1. w \in Running /\ Running' = Running \ {w} /\ Running \subseteq Workers
  BY DEF Running
<1>2. task[w] \in Tasks /\ \A v \in Running : task[v] = task[w] => v = w
  BY <1>1 DEF IInv, TaskState
<1>3. \A v \in Running' : task'[v] = task[v] /\ task[v] # task[w]
  BY <1>1, <1>2
<1>4. {task[v] : v \in Running}' = {task[v] : v \in Running} \ {task[w]}
  <2>1. {task'[v] : v \in Running'} = {task[v] : v \in Running'}
    BY <1>3
  <2>2. {task[v] : v \in Running'} = {task[v] : v \in Running} \ {task[w]}
    BY <1>1, <1>2
  <2>3. QED BY <2>1, <2>2
<1>5. Elems(batch)' = Elems(batch)
  BY DEF Elems
<1>6. task[w] \in {task[v] : v \in Running}
  BY <1>1
<1>7. (owner = "waiting")' = (owner = "waiting")
  OBVIOUS
<1>8. Abstract!End(task[w])
  <2>1. /\ {task[v] : v \in Running}' = {task[v] : v \in Running} \ {task[w]}
        /\ <<Elems(batch), owner = "waiting">>' = <<Elems(batch), owner = "waiting">>
    BY <1>4, <1>5, <1>7
  <2>2. QED BY <1>6, <2>1 DEF Abstract!End
<1>9. QED BY <1>2, <1>8 DEF Abstract!PoolNext, Abstract!End

(* The beginning of a task is Begin. *)
LEMMA BeginIsBegin ==
    ASSUME IInv, NEW w \in Workers, BeginTask(w), it[w] < Len(workload), status = "PROCESSING"
    PROVE  Abstract!PoolNext
<1> DEFINE t == batch[it[w] + 1]
<1>1. /\ workload = batch /\ t \in Tasks /\ t \in Elems(batch) /\ runs[t] = 0
  BY TaskIsNew DEF BeginTask
<1>2. t \notin ended /\ \A v \in Running : task[v] # t
  BY <1>1 DEF IInv, TaskState
<1>3. /\ wpc' = [wpc EXCEPT ![w] = "run"] /\ task' = [task EXCEPT ![w] = t]
      /\ UNCHANGED <<batch, ended, owner>>
  BY <1>1 DEF BeginTask
<1> HIDE DEF t
<1>4. Running' = Running \cup {w} /\ w \notin Running /\ Running \subseteq Workers
  BY <1>3 DEF IInv, TypeOK, Running, BeginTask
<1>5. \A v \in Workers : task'[v] = IF v = w THEN t ELSE task[v]
  BY <1>3 DEF IInv, TypeOK
<1>6. {task[v] : v \in Running}' = {task[v] : v \in Running} \cup {t}
  <2>1. {task'[v] : v \in Running'} = {task'[v] : v \in Running} \cup {t}
    BY <1>4, <1>5
  <2>2. {task'[v] : v \in Running} = {task[v] : v \in Running}
    BY <1>4, <1>5
  <2>3. QED BY <2>1, <2>2
<1>7. owner = "waiting" /\ owner' = owner
  BY <1>3 DEF IInv, PoolState, TypeOK
<1>8. Elems(batch)' = Elems(batch)
  BY <1>3 DEF Elems
<1>9. t \notin {task[v] : v \in Running}
  BY <1>2
<1>10. Abstract!Begin(t)
  <2>1. t \in Elems(batch) \ ({task[v] : v \in Running} \cup ended)
    BY <1>1, <1>2, <1>9
  <2>2. (owner = "waiting")' = (owner = "waiting") /\ ended' = ended
    BY <1>3, <1>7
  <2>3. <<Elems(batch), ended, owner = "waiting">>' = <<Elems(batch), ended, owner = "waiting">>
    BY <1>8, <2>2
  <2>4. QED BY <1>6, <1>7, <2>1, <2>3 DEF Abstract!Begin
<1>11. QED BY <1>1, <1>10 DEF Abstract!PoolNext, Abstract!Begin

(* The pool begins as WorkPool does, *)
LEMMA InitImplements == Init => Abstract!PoolInit
BY DEF Init, Abstract!PoolInit, Elems, Running

(* and each of its steps is one of WorkPool or a stutter. *)
LEMMA StepImplements == IInv /\ [Next]_vars => [Abstract!PoolNext]_(Abstract!pvars)
<1> SUFFICES ASSUME IInv, [Next]_vars
             PROVE  Abstract!PoolNext \/ UNCHANGED Abstract!pvars
  OBVIOUS
<1>1. ASSUME UNCHANGED <<batch, ended, owner, task>>, Running' = Running
      PROVE  UNCHANGED Abstract!pvars
  BY <1>1 DEF Abstract!pvars, Elems
<1>2. ASSUME UNCHANGED <<batch, ended, task>>, (owner = "waiting") = (owner' = "waiting"), Running' = Running
      PROVE  UNCHANGED Abstract!pvars
  BY <1>2 DEF Abstract!pvars, Elems
<1>3. CASE AddTask
  BY <1>1, <1>3 DEF AddTask, Running
<1>4. CASE ProcessWorkload
  <2>1. CASE clearMode = "AT_NEXT_WORKLOAD" /\ dirty
    <3>1. UNCHANGED <<batch, ended, owner, task, wpc>>
      BY <1>4, <2>1, Zenon DEF ProcessWorkload
    <3>2. QED BY <1>1, <3>1 DEF Running
  <2>2. CASE ~(clearMode = "AT_NEXT_WORKLOAD" /\ dirty)
    <3>1. workload # <<>> /\ StartWorkload(workload) /\ owner = "idle"
      BY <1>4, <2>2, Zenon DEF ProcessWorkload
    <3>2. workload \in Seq(Tasks)
      BY DEF IInv, TypeOK
    <3>3. QED BY <3>1, <3>2, StartIsProcess DEF Abstract!PoolNext
  <2>3. QED BY <2>1, <2>2
<1>5. ASSUME NEW n \in 1 .. MaxTasks, ProcessWorkloadOf(n) PROVE Abstract!PoolNext
  <2> DEFINE load == [i \in 1 .. n |-> issued + i]
  <2>1. issued \in 0 .. MaxTasks /\ MaxTasks \in Nat /\ issued + n <= MaxTasks
    BY <1>5, BoundsAssumption DEF IInv, TypeOK, ProcessWorkloadOf
  <2>2. load \in Seq(Tasks) /\ load # <<>>
    BY <2>1 DEF Tasks
  <2>3. StartWorkload(load) /\ owner = "idle"
    BY <1>5 DEF ProcessWorkloadOf
  <2> HIDE DEF load
  <2>4. QED BY <2>2, <2>3, StartIsProcess DEF Abstract!PoolNext
<1>6. CASE Wait
  <2>1. /\ owner = "waiting" /\ owner' = "idle" /\ ended = Elems(batch)
        /\ UNCHANGED <<batch, ended, task, wpc>>
    BY <1>6 DEF Wait, IInv, CompleteWhenFulfilled
  <2>2. Abstract!Return
    BY <2>1 DEF Abstract!Return, Elems, Running
  <2>3. QED BY <2>2 DEF Abstract!PoolNext
<1>7. CASE Destroy \/ Join
  <2>1. owner # "waiting" /\ owner' # "waiting" /\ UNCHANGED <<batch, ended, task, wpc>>
    BY <1>7 DEF Destroy, Join
  <2>2. QED BY <1>2, <2>1 DEF Running
<1>8. ASSUME NEW w \in Workers,
             WaitForWork(w) \/ FetchTask(w) \/ Finish(w) \/ Leave(w) \/ Complete(w) \/ Fulfil(w)
      PROVE  UNCHANGED Abstract!pvars
  <2>1. UNCHANGED <<batch, ended, owner, task>>
    BY <1>8 DEF WaitForWork, FetchTask, Finish, Leave, Complete, Fulfil
  <2>2. \E x \in {"exited", "fetch", "test", "leave", "last", "wait", "fulfil"} : wpc' = [wpc EXCEPT ![w] = x]
    BY <1>8 DEF WaitForWork, FetchTask, Finish, Leave, Complete, Fulfil
  <2>3. wpc[w] # "run"
    BY <1>8 DEF WaitForWork, FetchTask, Finish, Leave, Complete, Fulfil
  <2>4. Running' = Running
    BY <2>2, <2>3 DEF Running, IInv, TypeOK
  <2>5. QED BY <1>1, <2>1, <2>4
<1>9. ASSUME NEW w \in Workers, BeginTask(w)
      PROVE  Abstract!PoolNext \/ UNCHANGED Abstract!pvars
  <2>1. CASE it[w] < Len(workload) /\ status = "PROCESSING"
    BY <1>9, <2>1, BeginIsBegin
  <2>2. CASE ~(it[w] < Len(workload) /\ status = "PROCESSING")
    <3>1. /\ UNCHANGED <<batch, ended, owner, task>> /\ wpc[w] = "test"
          /\ wpc' = [wpc EXCEPT ![w] = "finish"]
      BY <1>9, <2>2 DEF BeginTask
    <3>2. Running' = Running
      BY <3>1 DEF Running, IInv, TypeOK
    <3>3. QED BY <1>1, <3>1, <3>2
  <2>3. QED BY <2>1, <2>2
<1>10. ASSUME NEW w \in Workers, EndTask(w) \/ Throw(w)
       PROVE  Abstract!PoolNext
  <2>1. /\ wpc[w] = "run" /\ wpc'[w] # "run"
        /\ \A v \in Workers \ {w} : wpc'[v] = wpc[v] /\ task'[v] = task[v]
        /\ ended' = ended \cup {task[w]} /\ UNCHANGED <<batch, owner>>
    BY <1>10 DEF EndTask, Throw, IInv, TypeOK
  <2>2. QED BY <2>1, EndIsEnd
<1>11. CASE UNCHANGED vars
  BY <1>1, <1>11 DEF Running
<1>12. QED
  BY <1>3, <1>4, <1>5, <1>6, <1>7, <1>8, <1>9, <1>10, <1>11 DEF Next, Owner, Worker, Terminated

(* The pool implements what its users rely on, for every value of the         *)
(* constants.                                                                 *)
THEOREM Refinement == Spec => ImplementsWorkPool
BY InitImplements, StepImplements, Invariant, PTL DEF Spec, ImplementsWorkPool, Abstract!PoolSpec
================================================================================
