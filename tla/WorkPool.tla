-------------------------------- MODULE WorkPool --------------------------------
(***************************************************************************)
(* What the users of ThreadPool rely on: a workload handed over is executed *)
(* by other threads, every task of it once and in any order, and the owner  *)
(* goes on after wait() when all of them have ended.                        *)
(*                                                                          *)
(* ThreadPool is shown to implement this specification, and SqlResultQueue  *)
(* is built on it.                                                          *)
(***************************************************************************)
CONSTANT Tasks

VARIABLES
    batch,       \* the tasks of the workload handed over last
    active,      \* the tasks being executed
    ended,       \* the tasks of the workload that have ended
    waiting      \* the owner has a future it has not waited for

pvars == <<batch, active, ended, waiting>>

PoolInit == batch = {} /\ active = {} /\ ended = {} /\ waiting = FALSE

(* processWorkload with a workload that is not empty. *)
Process(S) ==
    /\ ~waiting
    /\ S # {}
    /\ batch' = S
    /\ active' = {}
    /\ ended' = {}
    /\ waiting' = TRUE

(* A thread of the pool begins a task. *)
Begin(t) ==
    /\ waiting
    /\ t \in batch \ (active \cup ended)
    /\ active' = active \cup {t}
    /\ UNCHANGED <<batch, ended, waiting>>

(* The task returns, or throws where exceptions are caught. *)
End(t) ==
    /\ t \in active
    /\ active' = active \ {t}
    /\ ended' = ended \cup {t}
    /\ UNCHANGED <<batch, waiting>>

(* job.wait() returns. *)
Return ==
    /\ waiting
    /\ ended = batch
    /\ waiting' = FALSE
    /\ UNCHANGED <<batch, active, ended>>

PoolNext ==
    \/ \E S \in SUBSET Tasks : Process(S)
    \/ \E t \in Tasks : Begin(t) \/ End(t)
    \/ Return

PoolSpec == PoolInit /\ [][PoolNext]_pvars
=================================================================================
