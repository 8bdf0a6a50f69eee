-------------------------- MODULE SqlTransactionProofs --------------------------
(***************************************************************************)
(* Proofs about SqlTransaction, for any number of tables of both engines,   *)
(* any statements prepared, any number of saves and of lost connections.    *)
(*                                                                          *)
(* IInv is inductive.  OpenTransaction is why a failure changes no InnoDB   *)
(* table: while the connection holds, every statement is executed inside a  *)
(* transaction and START TRANSACTION finds none to commit.  WrittenSoFar is *)
(* why a success is complete: the DELETE before each INSERT takes away what *)
(* an attempt before left in MyISAM tables.                                 *)
(***************************************************************************)
EXTENDS SqlTransaction, TLAPS

USE DEF serverVars, historyVars, vars

-----------------------------------------------------------------------------
(* The statements of m_queue. *)

(* Each statement is about one of the tables. *)
LEMMA TableOfStatement == \A k \in Stmts : Table(k) \in Tables
BY TablesAssumption DEF Stmts, NumStmts, Tables, Table

(* A table is behind the next statement if it was behind this one, or if    *)
(* this one is its INSERT.                                                  *)
LEMMA TablesBehind ==
    ASSUME NEW k \in Stmts, NEW t \in Tables, 2 * t < k + 1
    PROVE  2 * t < k \/ (Table(k) = t /\ ~IsDelete(k))
BY TablesAssumption DEF Stmts, NumStmts, Tables, Table, IsDelete

(* A statement leaves the tables behind it alone, but for its own INSERT.   *)
LEMMA TablesBehindKept ==
    ASSUME NEW k \in Stmts, NEW t \in Tables, 2 * t < k
    PROVE  Table(k) # t
BY TablesAssumption DEF Stmts, NumStmts, Tables, Table

LEMMA WrittenType == ASSUME TypeOK, NEW k \in Stmts PROVE Written(k) \in Nat \cup {NoRow}
BY DEF TypeOK, Written

LEMMA CommittedType == TypeOK => Committed \in [Tables -> Nat \cup {NoRow}]
BY DEF TypeOK, Committed, View

LEMMA ApplyType ==
    ASSUME TypeOK, NEW k \in Stmts, Apply(k)
    PROVE  /\ tables' \in [Tables -> Nat \cup {NoRow}]
           /\ shadow' \in [Tables -> Nat \cup {NoRow}]
           /\ inTrans' = inTrans
<1>1. Written(k) \in Nat \cup {NoRow} /\ Table(k) \in Tables
  BY WrittenType, TableOfStatement
<1>2. QED BY <1>1 DEF TypeOK, Apply

-----------------------------------------------------------------------------
(* MySQLConnection is constructed and opened. *)
LEMMA InitInvariant == Init => IInv
<1> SUFFICES ASSUME Init PROVE IInv
  OBVIOUS
<1>1. TypeOK
  <2>1. 1 \in Stmts /\ 0 \in 0 .. maxAttempts /\ 0 \in 0 .. MaxLosses
    BY TablesAssumption, BoundsAssumption DEF Stmts, NumStmts, maxAttempts
  <2>2. tables \in [Tables -> Nat \cup {NoRow}] /\ shadow \in [Tables -> Nat \cup {NoRow}]
    BY DEF Init
  <2>3. QED BY <2>1, <2>2 DEF Init, TypeOK, Errors
<1>2. OpenTransaction /\ NothingCommitted /\ WrittenSoFar /\ ErrnoOfAttempt /\ ResultWhenIdle
  BY DEF Init, OpenTransaction, NothingCommitted, WrittenSoFar, ErrnoOfAttempt, ResultWhenIdle
<1>3. SuccessIsComplete
  BY DEF Init, SuccessIsComplete
<1>4. QED BY <1>1, <1>2, <1>3 DEF IInv

(* No step of the operation of a delay thread breaks a type. *)
LEMMA TransactionType == TypeOK /\ Transaction => TypeOK'
<1> SUFFICES ASSUME TypeOK, Transaction PROVE TypeOK'
  OBVIOUS
<1> USE DEF TypeOK, Errors, maxAttempts
<1>1. CASE BeginTransaction
  <2>1. 1 \in Stmts
    BY TablesAssumption DEF Stmts, NumStmts
  <2>2. QED BY <1>1, <2>1, CommittedType DEF BeginTransaction
<1>2. CASE ExecuteStatement
  <2>1. stmt' \in Stmts /\ pc' \in {"stmt", "commit"}
    BY <1>2, TablesAssumption DEF ExecuteStatement, Advance, Stmts, NumStmts
  <2>2. Apply(stmt) /\ stmt \in Stmts
    BY <1>2 DEF ExecuteStatement
  <2>3. /\ tables' \in [Tables -> Nat \cup {NoRow}]
        /\ shadow' \in [Tables -> Nat \cup {NoRow}]
        /\ inTrans' = inTrans
    BY <2>2, ApplyType
  <2>4. QED BY <1>2, <2>1, <2>3 DEF ExecuteStatement
<1>3. ASSUME NEW e \in {"deadlock", "timeout", "other"}, StatementFails(e) PROVE TypeOK'
  BY <1>3 DEF StatementFails, Fail
<1>4. CASE ReconnectAndRepeat
  BY <1>4 DEF ReconnectAndRepeat, Reconnected
<1>5. CASE ReconnectFails
  BY <1>5 DEF ReconnectFails, ReconnectFailed, Fail
<1>6. CASE PreparedFails
  BY <1>6 DEF PreparedFails
<1>7. CASE CommitTransaction
  BY <1>7, CommittedType DEF CommitTransaction, Fail
<1>8. CASE RollbackTransaction
  <2>1. attempt' \in 0 .. maxAttempts
    BY <1>8 DEF RollbackTransaction
  <2>2. lastErrno' \in Errors /\ pc' \in {"idle", "begin"} /\ result' \in {result, "false"}
    BY <1>8 DEF RollbackTransaction
  <2>3. QED BY <1>8, <2>1, <2>2 DEF RollbackTransaction
<1>9. CASE RollbackOnNull
  BY <1>9 DEF RollbackOnNull
<1>10. QED
  BY <1>1, <1>2, <1>3, <1>4, <1>5, <1>6, <1>7, <1>8, <1>9 DEF Transaction

(* Nor does anything else that happens to the connection. *)
LEMMA StepType == TypeOK /\ [Next]_vars => TypeOK'
<1> SUFFICES ASSUME TypeOK, [Next]_vars PROVE TypeOK'
  OBVIOUS
<1> USE DEF TypeOK
<1>1. CASE StartTransaction
  BY <1>1 DEF StartTransaction, maxAttempts, Errors
<1>2. CASE Transaction
  BY <1>2, TransactionType
<1>3. CASE PlainRequest
  BY <1>3 DEF PlainRequest, Reconnected, ReconnectFailed, Errors
<1>4. CASE Query
  BY <1>4 DEF Query, Reconnected, ReconnectFailed
<1>5. CASE Server
  <2>1. losses' \in 0 .. MaxLosses /\ link' = "lost" /\ disturbed' = TRUE
    BY <1>5, BoundsAssumption DEF Server, LoseConnection, LoseAnswer, LoseCommitAnswer, Drop
  <2>2. tables' \in [Tables -> Nat \cup {NoRow}]
    BY <1>5, WrittenType, TableOfStatement, CommittedType
    DEF Server, LoseConnection, LoseAnswer, LoseCommitAnswer
  <2>3. QED
    BY <1>5, <2>1, <2>2 DEF Server, LoseConnection, LoseAnswer, LoseCommitAnswer
<1>6. CASE UNCHANGED vars
  BY <1>6
<1>7. QED
  BY <1>1, <1>2, <1>3, <1>4, <1>5, <1>6 DEF Next, Terminated

-----------------------------------------------------------------------------
(* What the steps of a transaction preserve. *)

(* START TRANSACTION commits nothing: no transaction was open. *)
LEMMA BeginInvariant == IInv /\ BeginTransaction => IInv'
<1> SUFFICES ASSUME IInv, BeginTransaction PROVE IInv'
  OBVIOUS
<1>1. TypeOK'
  BY StepType DEF IInv, Next, Transaction
<1>2. link = "up" => tables' = tables
  BY DEF BeginTransaction, IInv, OpenTransaction, TypeOK, Committed, View
<1>3. OpenTransaction' /\ ErrnoOfAttempt' /\ ResultWhenIdle'
  BY DEF BeginTransaction, IInv, OpenTransaction, ErrnoOfAttempt, ResultWhenIdle
<1>4. NothingCommitted' /\ SuccessIsComplete'
  BY <1>2 DEF BeginTransaction, IInv, NothingCommitted, SuccessIsComplete, ResultWhenIdle
<1>5. WrittenSoFar'
  <2>1. \A t \in Tables : ~(2 * t < 1)
    BY TablesAssumption DEF Tables
  <2>2. QED BY <2>1 DEF BeginTransaction, WrittenSoFar
<1>6. QED BY <1>1, <1>3, <1>4, <1>5 DEF IInv

(* A statement changes its own table, inside the transaction if that is an  *)
(* InnoDB table, and its INSERT completes the table.                        *)
LEMMA ExecuteInvariant == IInv /\ ExecuteStatement => IInv'
<1> SUFFICES ASSUME IInv, ExecuteStatement PROVE IInv'
  OBVIOUS
<1> USE DEF IInv
<1>1. TypeOK' /\ stmt \in Stmts
  BY StepType DEF Next, Transaction, TypeOK
<1>2. inTrans' = inTrans /\ pc = "stmt" /\ pc' \in {"stmt", "commit"} /\ result' = result
  BY ApplyType, <1>1 DEF ExecuteStatement, Advance
<1>3. OpenTransaction' /\ ErrnoOfAttempt' /\ ResultWhenIdle' /\ SuccessIsComplete'
  BY <1>2 DEF ExecuteStatement, OpenTransaction, ErrnoOfAttempt, ResultWhenIdle, SuccessIsComplete
<1>4. NothingCommitted'
  <2>1. ~disturbed => \A t \in InnoDB : tables'[t] = tables[t]
    BY <1>1, <1>2, TableOfStatement DEF ExecuteStatement, OpenTransaction, Apply, TypeOK, InnoDB
  <2>2. QED BY <1>2, <2>1 DEF ExecuteStatement, NothingCommitted
<1>5. WrittenSoFar'
  <2>1. \A t \in Tables : t = Table(stmt) => View(t)' = Written(stmt)
    BY <1>1, TableOfStatement DEF ExecuteStatement, Apply, View, TypeOK, InnoDB
  <2>2. \A t \in Tables : t # Table(stmt) => View(t)' = View(t)
    BY <1>1, TableOfStatement DEF ExecuteStatement, Apply, View, TypeOK, InnoDB
  <2>3. ASSUME NEW t \in Tables, 2 * t < stmt + 1, ~disturbed PROVE View(t)' = job
    <3>1. CASE 2 * t < stmt
      BY <1>1, <1>2, <2>2, <2>3, <3>1, TablesBehindKept DEF WrittenSoFar
    <3>2. CASE ~(2 * t < stmt)
      <4>1. Table(stmt) = t /\ ~IsDelete(stmt)
        BY <1>1, <2>3, <3>2, TablesBehind
      <4>2. QED BY <2>1, <4>1 DEF Written
    <3>3. QED BY <3>1, <3>2
  <2>4. disturbed' = disturbed /\ job' = job
    BY DEF ExecuteStatement
  <2>5. CASE stmt = NumStmts
    <3>1. \A t \in Tables : 2 * t < stmt + 1
      BY <2>5, TablesAssumption DEF Tables, NumStmts
    <3>2. pc' = "commit"
      BY <2>5 DEF ExecuteStatement, Advance
    <3>3. QED BY <2>3, <2>4, <3>1, <3>2 DEF WrittenSoFar
  <2>6. CASE stmt # NumStmts
    BY <2>3, <2>4, <2>6 DEF ExecuteStatement, Advance, WrittenSoFar
  <2>7. QED BY <2>5, <2>6
<1>6. QED BY <1>1, <1>3, <1>4, <1>5

(* A failure remembers its error and leaves the rows to ROLLBACK. *)
LEMMA FailureInvariant ==
    ASSUME IInv,
           \/ \E e \in {"deadlock", "timeout", "other"} : StatementFails(e)
           \/ ReconnectFails
           \/ PreparedFails
    PROVE  IInv'
<1>1. TypeOK'
  BY StepType DEF IInv, Next, Transaction
<1>2. /\ pc = "stmt" /\ pc' = "rollback"
      /\ UNCHANGED <<tables, before, result, disturbed, job>>
      /\ link' = link \/ disturbed
  BY DEF StatementFails, ReconnectFails, ReconnectFailed, PreparedFails, Fail, IInv, OpenTransaction
<1>3. OpenTransaction'
  BY <1>2 DEF IInv, OpenTransaction
<1>4. NothingCommitted' /\ WrittenSoFar' /\ ResultWhenIdle' /\ SuccessIsComplete'
  BY <1>2 DEF IInv, NothingCommitted, WrittenSoFar, ResultWhenIdle, SuccessIsComplete
<1>5. ErrnoOfAttempt'
  BY <1>2 DEF StatementFails, ReconnectFails, PreparedFails, Fail, IInv, ErrnoOfAttempt, IsRetryableError
<1>6. QED BY <1>1, <1>3, <1>4, <1>5 DEF IInv

(* COMMIT makes all the rows visible, or fails on a lost connection. *)
LEMMA CommitInvariant == IInv /\ CommitTransaction => IInv'
<1> SUFFICES ASSUME IInv, CommitTransaction PROVE IInv'
  OBVIOUS
<1>1. TypeOK'
  BY StepType DEF IInv, Next, Transaction
<1>2. CASE link = "up"
  <2>1. /\ tables' = Committed /\ ~inTrans' /\ pc = "commit" /\ pc' = "idle" /\ result' = "true"
        /\ UNCHANGED <<link, lastErrno, cause, disturbed, job>>
    BY <1>2 DEF CommitTransaction
  <2>2. ~disturbed => \A t \in Tables : tables'[t] = job
    BY <2>1 DEF IInv, WrittenSoFar, Committed
  <2>3. OpenTransaction' /\ NothingCommitted' /\ WrittenSoFar' /\ ResultWhenIdle' /\ ErrnoOfAttempt'
    BY <2>1 DEF IInv, OpenTransaction, NothingCommitted, WrittenSoFar, ResultWhenIdle, ErrnoOfAttempt
  <2>4. SuccessIsComplete'
    BY <2>1, <2>2 DEF SuccessIsComplete
  <2>5. QED BY <1>1, <2>3, <2>4 DEF IInv
<1>3. CASE link # "up"
  <2>1. /\ pc = "commit" /\ pc' = "rollback" /\ lastErrno' = "lost" /\ disturbed
        /\ UNCHANGED <<link, disturbed, result>>
    BY <1>3 DEF CommitTransaction, Fail, IInv, OpenTransaction
  <2>2. QED
    BY <1>1, <2>1 DEF IInv, OpenTransaction, NothingCommitted, WrittenSoFar, ErrnoOfAttempt,
                      IsRetryableError, ResultWhenIdle, SuccessIsComplete
<1>4. QED BY <1>2, <1>3

(* ROLLBACK leaves no transaction, whether another attempt follows or not.  *)
LEMMA RollbackInvariant == IInv /\ (RollbackTransaction \/ RollbackOnNull) => IInv'
<1> SUFFICES ASSUME IInv, RollbackTransaction \/ RollbackOnNull PROVE IInv'
  OBVIOUS
<1>1. TypeOK'
  BY StepType DEF IInv, Next, Transaction
<1>2. CASE RollbackTransaction
  <2>1. /\ pc = "rollback" /\ ~inTrans' /\ pc' \in {"idle", "begin"}
        /\ UNCHANGED <<link, tables, before, disturbed, job>>
        /\ pc' = "begin" => result' = result
        /\ pc' = "idle" => result' = "false"
    BY <1>2 DEF RollbackTransaction
  <2>2. OpenTransaction' /\ WrittenSoFar' /\ ErrnoOfAttempt'
    BY <2>1 DEF IInv, OpenTransaction, WrittenSoFar, ErrnoOfAttempt
  <2>3. NothingCommitted' /\ ResultWhenIdle' /\ SuccessIsComplete'
    BY <2>1 DEF IInv, NothingCommitted, ResultWhenIdle, SuccessIsComplete
  <2>4. QED BY <1>1, <2>2, <2>3 DEF IInv
<1>3. CASE RollbackOnNull
  BY <1>1, <1>3 DEF RollbackOnNull, IInv, OpenTransaction, NothingCommitted, WrittenSoFar,
                    ErrnoOfAttempt, ResultWhenIdle, SuccessIsComplete
<1>4. QED BY <1>2, <1>3

(* No step breaks the invariant. *)
LEMMA StepInvariant == IInv /\ [Next]_vars => IInv'
<1> SUFFICES ASSUME IInv, [Next]_vars PROVE IInv'
  OBVIOUS
<1>1. TypeOK'
  BY StepType DEF IInv
<1>2. CASE StartTransaction
  <2>1. OpenTransaction' /\ NothingCommitted' /\ WrittenSoFar'
    BY <1>2 DEF StartTransaction, IInv, OpenTransaction, NothingCommitted, WrittenSoFar
  <2>2. ErrnoOfAttempt' /\ ResultWhenIdle' /\ SuccessIsComplete'
    BY <1>2 DEF StartTransaction, ErrnoOfAttempt, ResultWhenIdle, SuccessIsComplete
  <2>3. QED BY <1>1, <2>1, <2>2 DEF IInv
<1>3. CASE Transaction
  <2>1. CASE ReconnectAndRepeat
    <3>1. /\ disturbed /\ pc = "stmt"
          /\ UNCHANGED <<inTrans, tables, pc, lastErrno, cause, disturbed, result>>
      BY <2>1 DEF ReconnectAndRepeat, Reconnected, IInv, OpenTransaction
    <3>2. QED
      BY <1>1, <3>1 DEF IInv, OpenTransaction, NothingCommitted, WrittenSoFar, ErrnoOfAttempt,
                        ResultWhenIdle, SuccessIsComplete
  <2>2. QED
    BY <1>3, <2>1, BeginInvariant, ExecuteInvariant, FailureInvariant, CommitInvariant,
       RollbackInvariant DEF Transaction
<1>4. CASE PlainRequest \/ Query
  <2>1. /\ pc = "idle" /\ disturbed
        /\ UNCHANGED <<inTrans, tables, pc, cause, disturbed, result>>
    BY <1>4 DEF PlainRequest, Query, Reconnected, ReconnectFailed, IInv, OpenTransaction
  <2>2. QED
    BY <1>1, <2>1 DEF IInv, OpenTransaction, NothingCommitted, WrittenSoFar, ErrnoOfAttempt,
                      ResultWhenIdle, SuccessIsComplete
<1>5. CASE Server
  <2>1. disturbed' /\ ~inTrans' /\ UNCHANGED <<pc, lastErrno, cause, result>>
    BY <1>5 DEF Server, LoseConnection, LoseAnswer, LoseCommitAnswer, Drop
  <2>2. QED
    BY <1>1, <2>1 DEF IInv, OpenTransaction, NothingCommitted, WrittenSoFar, ErrnoOfAttempt,
                      ResultWhenIdle, SuccessIsComplete
<1>6. CASE UNCHANGED vars
  BY <1>1, <1>6 DEF IInv, OpenTransaction, NothingCommitted, WrittenSoFar, ErrnoOfAttempt,
                    ResultWhenIdle, SuccessIsComplete, View
<1>7. QED
  BY <1>2, <1>3, <1>4, <1>5, <1>6 DEF Next, Terminated

-----------------------------------------------------------------------------
(* Every variable of the connection and of the operation on it keeps its    *)
(* type (SqlTransaction::Execute, MySQLConnection).                         *)
THEOREM TypeCorrect == Spec => []TypeOK
BY InitInvariant, StepType, PTL DEF Spec, IInv

(* The inductive invariant of SqlTransaction::Execute on its connection.    *)
THEOREM Invariant == Spec => []IInv
BY InitInvariant, StepInvariant, PTL DEF Spec

(* A save that returned true on a connection that held wrote all its rows,  *)
(* however often it was run (SqlTransaction::Execute).                      *)
THEOREM SuccessCompletes == Spec => []SuccessIsComplete
<1>1. IInv => SuccessIsComplete
  BY DEF IInv
<1>2. QED BY <1>1, Invariant, PTL

(* One that returned false left the InnoDB tables as they were              *)
(* (RollbackTransaction).                                                   *)
THEOREM FailureLeavesNothing == Spec => []FailureChangesNothing
<1>1. IInv => FailureChangesNothing
  BY DEF IInv, NothingCommitted, FailureChangesNothing
<1>2. QED BY <1>1, Invariant, PTL

(* No operation leaves a transaction open behind it, whatever happened to   *)
(* the connection (SqlTransaction::Execute).                                *)
THEOREM NoTransactionStaysOpen == Spec => []NoTransactionLeftOpen
<1>1. IInv => NoTransactionLeftOpen
  BY DEF IInv, OpenTransaction, NoTransactionLeftOpen
<1>2. QED BY <1>1, Invariant, PTL

(* Only a deadlock or a lock wait timeout of this very attempt is followed  *)
(* by another one (SetLastErrno, IsRetryableError).                         *)
THEOREM RetriesAreSafe == Spec => OnlyLocksAreRetried
<1>1. IInv /\ [Next]_vars
      => [pc = "rollback" /\ pc' = "begin" => cause \in {"deadlock", "timeout"}]_vars
  <2> SUFFICES ASSUME IInv, Next, pc = "rollback", pc' = "begin"
               PROVE  cause \in {"deadlock", "timeout"}
    OBVIOUS
  <2>1. RollbackTransaction
    BY DEF Next, StartTransaction, Transaction, BeginTransaction, ExecuteStatement, StatementFails,
           ReconnectAndRepeat, ReconnectFails, PreparedFails, CommitTransaction, RollbackOnNull,
           PlainRequest, Query, Server, LoseConnection, LoseAnswer, LoseCommitAnswer, Terminated
  <2>2. IsRetryableError(lastErrno)
    BY <2>1 DEF RollbackTransaction
  <2>3. QED BY <2>2 DEF IInv, ErrnoOfAttempt
<1>2. QED BY <1>1, Invariant, PTL DEF Spec, OnlyLocksAreRetried
=================================================================================
