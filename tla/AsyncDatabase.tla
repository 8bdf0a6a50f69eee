------------------------------ MODULE AsyncDatabase ------------------------------
(***************************************************************************)
(* What the callers of Database rely on: an operation handed over is        *)
(* pending until it is executed, it is executed once, and operations that   *)
(* carry the same serial id (the low guid of a character) are executed in   *)
(* the order in which they were handed over.  Operations without a serial   *)
(* id are executed in any order.  Direct operations bypass the queues.      *)
(*                                                                          *)
(* SqlDelay is shown to implement this specification.                       *)
(***************************************************************************)
EXTENDS Integers, Sequences

CONSTANTS
    Kinds,           \* the kinds of operation
    Serials,         \* the serial ids; 0 is "no serial id"
    Callbacks        \* the kinds of callback

(* The operations that may be handed over as number n. *)
OpsWithId(n) == [id : {n}, kind : Kinds, serial : Serials, cb : Callbacks]

VARIABLES
    issued,          \* the number of operations handed over so far
    pending,         \* the operations handed over and not yet executed
    executed         \* the operations executed, in the order of execution

avars == <<issued, pending, executed>>

Init == issued = 0 /\ pending = {} /\ executed = <<>>

(* CommitTransaction, Execute, AsyncQuery, DelayQueryHolder. *)
Submit(op) ==
    /\ issued' = issued + 1
    /\ pending' = pending \cup {op}
    /\ UNCHANGED executed

(* No pending operation of the same serial id was handed over before op. *)
Eligible(op) ==
    \A p \in pending : (p.serial = op.serial /\ op.serial # 0) => op.id <= p.id

(* A worker executes a pending operation. *)
Run(op) ==
    /\ Eligible(op)
    /\ pending' = pending \ {op}
    /\ executed' = Append(executed, op)
    /\ UNCHANGED issued

(* DirectExecute, CommitTransactionDirect: executed by the caller at once. *)
RunDirect(op) ==
    /\ issued' = issued + 1
    /\ executed' = Append(executed, op)
    /\ UNCHANGED pending

Next ==
    \/ \E op \in OpsWithId(issued + 1) : Submit(op) \/ RunDirect(op)
    \/ \E op \in pending : Run(op)

Spec == Init /\ [][Next]_avars
==================================================================================
