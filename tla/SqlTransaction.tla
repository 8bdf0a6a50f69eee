----------------------------- MODULE SqlTransaction -----------------------------
(***************************************************************************)
(* One SqlConnection of a delay thread and what SqlOperation::Execute does  *)
(* with it: SqlTransaction::Execute with its retries, SqlPlainRequest and   *)
(* the keep-alive query, over MySQLConnection with its reconnection.        *)
(*                                                                          *)
(* A transaction saves a character: for every table a DELETE of its rows    *)
(* and an INSERT of the new ones.  The rows a table holds are abstracted to *)
(* the number of the operation that wrote them.  Writes to InnoDB tables    *)
(* wait for COMMIT, writes to MyISAM tables take effect at once.  The       *)
(* server answers a statement, ends it with an error, or the connection is  *)
(* lost before or after the statement took effect.                          *)
(***************************************************************************)
EXTENDS Integers, Sequences, FiniteSets

CONSTANTS
    NumTables,     \* the tables a save writes
    MyISAM,        \* those of them that are MyISAM tables
    Prepared,      \* the statements that are SqlPreparedRequests
    MaxJobs,       \* bound: operations executed
    MaxLosses,     \* bound: connections lost
    NoRow          \* a table with the rows of the character deleted

Tables == 1 .. NumTables
InnoDB == Tables \ MyISAM
NumStmts == 2 * NumTables
Stmts == 1 .. NumStmts

ASSUME TablesAssumption == NumTables \in Nat \ {0} /\ MyISAM \subseteq Tables
ASSUME PreparedAssumption == Prepared \subseteq Stmts
ASSUME BoundsAssumption == MaxJobs \in Nat /\ MaxLosses \in Nat
ASSUME NoRowAssumption == NoRow \notin Nat

(* The m_queue of a save: DELETE FROM table 1, INSERT INTO table 1, ... *)
Table(k) == (k + 1) \div 2
IsDelete(k) == k % 2 = 1

Errors == {"none", "deadlock", "timeout", "other", "lost"}

VARIABLES
    link,        \* mMysql: "up", "lost" (the client has not noticed), "null"
    inTrans,     \* the server has a transaction open for this connection
    tables,      \* the rows other connections see
    shadow,      \* the rows the open transaction sees, for InnoDB tables
    registered,  \* m_holder: the statements prepared on this connection
    pc,          \* where Execute is
    stmt,        \* i, the statement it is at
    attempt,     \* attempt
    lastErrno,   \* m_lastErrno
    result,      \* what the last operation returned, or "none"
    job,         \* the number of the operation
    before,      \* history: tables when the operation began
    cause,       \* history: the error that ended the attempt
    disturbed,   \* history: the connection was not up throughout the operation
    losses       \* bound: connections lost so far

serverVars == <<inTrans, tables, shadow>>
historyVars == <<job, before>>
vars == <<link, serverVars, registered, pc, stmt, attempt, lastErrno, result,
          historyVars, cause, disturbed, losses>>

Init ==
    /\ link = "up"
    /\ inTrans = FALSE
    /\ tables = [t \in Tables |-> 0]
    /\ shadow = [t \in Tables |-> 0]
    /\ registered = {}
    /\ pc = "idle"
    /\ stmt = 1
    /\ attempt = 0
    /\ lastErrno = "none"
    /\ result = "none"
    /\ job = 0
    /\ before = tables
    /\ cause = "none"
    /\ disturbed = FALSE
    /\ losses = 0

-----------------------------------------------------------------------------
(* The server (external). *)

(* The rows statement k leaves in its table. *)
Written(k) == IF IsDelete(k) THEN NoRow ELSE job

(* The rows of a table as a statement of this connection sees them. *)
View(t) == IF inTrans /\ t \in InnoDB THEN shadow[t] ELSE tables[t]

(* An INSERT of rows that are there already ends with ER_DUP_ENTRY. *)
Duplicate(k) == ~IsDelete(k) /\ View(Table(k)) # NoRow

(* Statement k takes effect. *)
Apply(k) ==
    IF inTrans /\ Table(k) \in InnoDB
    THEN /\ shadow' = [shadow EXCEPT ![Table(k)] = Written(k)]
         /\ UNCHANGED <<tables, inTrans>>
    ELSE /\ tables' = [tables EXCEPT ![Table(k)] = Written(k)]
         /\ UNCHANGED <<shadow, inTrans>>

(* The rows that become visible when the open transaction commits. *)
Committed == [t \in Tables |-> View(t)]

(* The connection ends: the server rolls its transaction back. *)
Drop ==
    /\ link' = "lost"
    /\ losses < MaxLosses
    /\ losses' = losses + 1
    /\ disturbed' = TRUE

LoseConnection ==
    /\ link = "up"
    /\ Drop
    /\ inTrans' = FALSE
    /\ UNCHANGED <<tables, shadow, registered, pc, stmt, attempt, lastErrno, result,
                   historyVars, cause>>

(* The server executes the statement and the answer does not arrive.  An    *)
(* open transaction is rolled back; without one the effect stays.           *)
LoseAnswer ==
    /\ link = "up"
    /\ pc = "stmt"
    /\ ~Duplicate(stmt)
    /\ Drop
    /\ tables' = IF inTrans /\ Table(stmt) \in InnoDB
                 THEN tables
                 ELSE [tables EXCEPT ![Table(stmt)] = Written(stmt)]
    /\ inTrans' = FALSE
    /\ UNCHANGED <<shadow, registered, pc, stmt, attempt, lastErrno, result, historyVars, cause>>

(* The same for COMMIT. *)
LoseCommitAnswer ==
    /\ link = "up"
    /\ pc = "commit"
    /\ Drop
    /\ tables' = Committed
    /\ inTrans' = FALSE
    /\ UNCHANGED <<shadow, registered, pc, stmt, attempt, lastErrno, result, historyVars, cause>>

-----------------------------------------------------------------------------
(* MySQLConnection. *)

(* MySQLConnection::IsRetryableError. *)
IsRetryableError(e) == e \in {"deadlock", "timeout"}

(* HandleMySQLError for a lost connection: mysql_close, then Reconnect.  It *)
(* succeeds with a new session that has no transaction and no prepared      *)
(* statement, or leaves mMysql null.                                        *)
Reconnected == link' = "up" /\ registered' = {}
ReconnectFailed == link' = "null" /\ UNCHANGED registered

(* A statement or a command failed; the transaction goes to its rollback. *)
Fail(e) == pc' = "rollback" /\ lastErrno' = e /\ cause' = e

-----------------------------------------------------------------------------
(* SqlTransaction::Execute. *)

(* The delay thread takes the next operation, which is a save. *)
StartTransaction ==
    /\ pc = "idle"
    /\ job < MaxJobs
    /\ job' = job + 1
    /\ before' = tables
    /\ disturbed' = (link # "up")
    /\ pc' = "begin"
    /\ attempt' = 1
    /\ result' = "none"
    /\ cause' = "none"
    /\ UNCHANGED <<link, serverVars, registered, stmt, lastErrno, losses>>

(* Mutant: the transaction goes on at the statement that failed. *)
BeginTransactionResumes ==
    /\ pc = "begin"
    /\ pc' = IF link = "null" THEN "crashed" ELSE "stmt"
    /\ stmt' = IF attempt = 1 THEN 1 ELSE stmt
    /\ lastErrno' = IF link = "lost" THEN "lost" ELSE "none"
    /\ IF link = "up"
       THEN inTrans' = TRUE /\ tables' = Committed /\ shadow' = Committed
       ELSE UNCHANGED serverVars
    /\ UNCHANGED <<link, registered, attempt, result, historyVars, cause, disturbed, losses>>

(* Mutant: no SetLastErrno(0). *)
BeginTransactionKeepsErrno ==
    /\ pc = "begin"
    /\ pc' = IF link = "null" THEN "crashed" ELSE "stmt"
    /\ stmt' = 1
    /\ lastErrno' = IF link = "lost" THEN "lost" ELSE lastErrno
    /\ IF link = "up"
       THEN inTrans' = TRUE /\ tables' = Committed /\ shadow' = Committed
       ELSE UNCHANGED serverVars
    /\ UNCHANGED <<link, registered, attempt, result, historyVars, cause, disturbed, losses>>

(* SetLastErrno(0) and START TRANSACTION, whose result is not looked at.    *)
(* It commits a transaction left open.  mysql_query(NULL) ends the process. *)
BeginTransaction ==
    /\ pc = "begin"
    /\ pc' = IF link = "null" THEN "crashed" ELSE "stmt"
    /\ stmt' = 1
    /\ lastErrno' = IF link = "lost" THEN "lost" ELSE "none"
    /\ IF link = "up"
       THEN inTrans' = TRUE /\ tables' = Committed /\ shadow' = Committed
       ELSE UNCHANGED serverVars
    /\ UNCHANGED <<link, registered, attempt, result, historyVars, cause, disturbed, losses>>

(* The statement succeeded: the next one, or COMMIT. *)
Advance == IF stmt = NumStmts THEN pc' = "commit" /\ UNCHANGED stmt
                              ELSE stmt' = stmt + 1 /\ UNCHANGED pc

(* m_queue[i]->Execute(conn), answered by the server. *)
ExecuteStatement ==
    /\ pc = "stmt"
    /\ link = "up"
    /\ ~Duplicate(stmt)
    /\ Apply(stmt)
    /\ Advance
    /\ registered' = registered \cup (Prepared \cap {stmt})
    /\ UNCHANGED <<link, attempt, lastErrno, result, historyVars, cause, disturbed, losses>>

(* It meets an error.  A deadlock, which only rows of InnoDB tables meet,   *)
(* rolls the whole transaction back on the server; the others end the       *)
(* statement alone.                                                         *)
StatementFails(e) ==
    /\ pc = "stmt"
    /\ link = "up"
    /\ e \in {"deadlock", "timeout"} => Table(stmt) \in InnoDB
    /\ inTrans' = (inTrans /\ e # "deadlock")
    /\ Fail(e)
    /\ registered' = registered \cup (Prepared \cap {stmt})
    /\ UNCHANGED <<link, tables, shadow, stmt, attempt, result, historyVars, disturbed,
                   losses>>

(* A plain statement finds the connection lost, reconnects and is executed  *)
(* again, by MySQLConnection::Execute calling itself.                       *)
ReconnectAndRepeat ==
    /\ pc = "stmt"
    /\ link = "lost"
    /\ stmt \notin Prepared
    /\ Reconnected
    /\ UNCHANGED <<serverVars, pc, stmt, attempt, lastErrno, result, historyVars, cause, disturbed,
                   losses>>

(* It cannot reconnect. *)
ReconnectFails ==
    /\ pc = "stmt"
    /\ link = "lost"
    /\ stmt \notin Prepared
    /\ ReconnectFailed
    /\ Fail("lost")
    /\ UNCHANGED <<serverVars, stmt, attempt, result, historyVars, disturbed, losses>>

(* A prepared statement finds the connection lost: MySqlPreparedStatement   *)
(* does not reconnect.  When it was not prepared before, prepare() fails    *)
(* and no error number is set.                                              *)
PreparedFails ==
    /\ pc = "stmt"
    /\ link = "lost"
    /\ stmt \in Prepared
    /\ pc' = "rollback"
    /\ cause' = "lost"
    /\ lastErrno' = IF stmt \in registered THEN "lost" ELSE lastErrno
    /\ UNCHANGED <<link, serverVars, registered, stmt, attempt, result, historyVars,
                   disturbed, losses>>

(* COMMIT. *)
CommitTransaction ==
    /\ pc = "commit"
    /\ IF link = "up"
       THEN /\ tables' = Committed
            /\ inTrans' = FALSE
            /\ pc' = "idle"
            /\ result' = "true"
            /\ UNCHANGED <<lastErrno, cause>>
       ELSE /\ Fail("lost")
            /\ UNCHANGED <<tables, inTrans, result>>
    /\ UNCHANGED <<link, shadow, registered, stmt, attempt, historyVars, disturbed, losses>>

maxAttempts == 3

(* Mutant: the transaction is not rolled back before it is run again. *)
RollbackTransactionOmitted ==
    /\ pc = "rollback"
    /\ IF attempt >= maxAttempts \/ ~IsRetryableError(lastErrno)
       THEN pc' = "idle" /\ result' = "false" /\ UNCHANGED attempt
       ELSE pc' = "begin" /\ attempt' = attempt + 1 /\ UNCHANGED result
    /\ UNCHANGED <<link, serverVars, registered, stmt, lastErrno, historyVars, cause, disturbed,
                   losses>>

(* Mutant: the loop has no last attempt. *)
RollbackTransactionUnbounded ==
    /\ pc = "rollback"
    /\ inTrans' = FALSE
    /\ IF ~IsRetryableError(lastErrno)
       THEN pc' = "idle" /\ result' = "false" /\ UNCHANGED attempt
       ELSE pc' = "begin" /\ UNCHANGED <<attempt, result>>
    /\ UNCHANGED <<link, tables, shadow, registered, stmt, lastErrno, historyVars, cause, disturbed,
                   losses>>

(* The error number is read, then ROLLBACK; the whole transaction runs      *)
(* again after a retryable error.                                           *)
RollbackTransaction ==
    /\ pc = "rollback"
    /\ link # "null"
    /\ inTrans' = FALSE
    /\ lastErrno' = IF link = "lost" THEN "lost" ELSE lastErrno
    /\ IF attempt >= maxAttempts \/ ~IsRetryableError(lastErrno)
       THEN pc' = "idle" /\ result' = "false" /\ UNCHANGED attempt
       ELSE pc' = "begin" /\ attempt' = attempt + 1 /\ UNCHANGED result
    /\ UNCHANGED <<link, tables, shadow, registered, stmt, historyVars, cause, disturbed, losses>>

(* ROLLBACK on the null connection Reconnect left: mysql_query(NULL). *)
RollbackOnNull ==
    /\ pc = "rollback"
    /\ link = "null"
    /\ pc' = "crashed"
    /\ UNCHANGED <<link, serverVars, registered, stmt, attempt, lastErrno, result,
                   historyVars, cause, disturbed, losses>>

-----------------------------------------------------------------------------
(* The other users of the connection, between two transactions. *)

(* SqlPlainRequest::Execute of a statement on some other table: it          *)
(* reconnects like the statements of a transaction, and fails on a null     *)
(* connection.                                                              *)
PlainRequest ==
    /\ pc = "idle"
    /\ job < MaxJobs
    /\ link = "lost"
    /\ \/ Reconnected /\ UNCHANGED lastErrno
       \/ ReconnectFailed /\ lastErrno' = "lost"
    /\ UNCHANGED <<serverVars, pc, stmt, attempt, result, historyVars, cause, disturbed, losses>>

(* Any Query, the SELECT 1 of SqlDelayThread::run included: it reconnects   *)
(* from a null connection too.                                              *)
Query ==
    /\ pc = "idle"
    /\ job < MaxJobs
    /\ link # "up"
    /\ Reconnected \/ (link = "lost" /\ ReconnectFailed)
    /\ UNCHANGED <<serverVars, pc, stmt, attempt, lastErrno, result, historyVars, cause, disturbed,
                   losses>>

(* The operations of the bounded run are done, or the process ended. *)
Terminated ==
    /\ pc = "crashed" \/ (pc = "idle" /\ job = MaxJobs)
    /\ UNCHANGED vars

-----------------------------------------------------------------------------
Transaction ==
    \/ BeginTransaction
    \/ ExecuteStatement
    \/ \E e \in {"deadlock", "timeout", "other"} : StatementFails(e)
    \/ ReconnectAndRepeat
    \/ ReconnectFails
    \/ PreparedFails
    \/ CommitTransaction
    \/ RollbackTransaction
    \/ RollbackOnNull

Server == LoseConnection \/ LoseAnswer \/ LoseCommitAnswer

Next ==
    \/ StartTransaction
    \/ Transaction
    \/ PlainRequest
    \/ Query
    \/ Server
    \/ Terminated

Spec == Init /\ [][Next]_vars

(* The delay thread runs; the server answers every statement. *)
FairSpec == Spec /\ WF_vars(Transaction)

-----------------------------------------------------------------------------
(* Properties. *)

(* Every variable has the type the code gives it. *)
TypeOK ==
    /\ link \in {"up", "lost", "null"}
    /\ inTrans \in BOOLEAN
    /\ tables \in [Tables -> Nat \cup {NoRow}]
    /\ shadow \in [Tables -> Nat \cup {NoRow}]
    /\ registered \subseteq Prepared
    /\ pc \in {"idle", "begin", "stmt", "commit", "rollback", "crashed"}
    /\ stmt \in Stmts
    /\ attempt \in 0 .. maxAttempts
    /\ lastErrno \in Errors
    /\ cause \in Errors
    /\ result \in {"none", "true", "false"}
    /\ job \in Nat
    /\ before \in [Tables -> Nat \cup {NoRow}]
    /\ disturbed \in BOOLEAN
    /\ losses \in 0 .. MaxLosses

(* A transaction that returned true wrote all of its rows, those in MyISAM  *)
(* tables that an attempt before the last had written already included      *)
(* (SqlTransaction::Execute, the loop over attempts).                       *)
SuccessIsComplete ==
    result = "true" /\ ~disturbed => \A t \in Tables : tables[t] = job

(* A transaction that returned false changed no InnoDB table, however many  *)
(* times it was run (SqlTransaction::Execute, RollbackTransaction).         *)
FailureChangesNothing ==
    result = "false" /\ ~disturbed => \A t \in InnoDB : tables[t] = before[t]

(* Only a deadlock or a lock wait timeout is followed by another attempt:   *)
(* no error of an earlier operation or attempt is mistaken for it           *)
(* (SetLastErrno(0), IsRetryableError).                                     *)
OnlyLocksAreRetried ==
    [][pc = "rollback" /\ pc' = "begin" => cause \in {"deadlock", "timeout"}]_vars

(* Between operations no transaction is open on the connection, whatever    *)
(* happened to it: the statements that follow take effect by themselves     *)
(* (SqlTransaction::Execute on every path out of it).                       *)
NoTransactionLeftOpen == pc = "idle" => ~inTrans

(* The operation ends: its retries and the reconnections of its statements  *)
(* are bounded (maxAttempts).                                               *)
TransactionEnds == pc # "idle" ~> pc \in {"idle", "crashed"}

-----------------------------------------------------------------------------
(* The invariant the proofs use. *)

(* Before START TRANSACTION no transaction is open; while nothing happens   *)
(* to the connection, statements are executed inside one.                   *)
OpenTransaction ==
    /\ pc \in {"idle", "begin"} => ~inTrans
    /\ ~disturbed => link = "up"
    /\ ~disturbed /\ pc \in {"stmt", "commit"} => inTrans

(* Up to COMMIT the other connections see the InnoDB rows of before.        *)
NothingCommitted ==
    ~disturbed /\ (pc \in {"begin", "stmt", "commit", "rollback"} \/ result = "false")
    => \A t \in InnoDB : tables[t] = before[t]

(* The tables whose INSERT is behind the transaction hold its rows.         *)
WrittenSoFar ==
    ~disturbed =>
        /\ pc = "stmt" => \A t \in Tables : 2 * t < stmt => View(t) = job
        /\ pc = "commit" => \A t \in Tables : View(t) = job

(* Inside the transaction the error number is that of START TRANSACTION; a  *)
(* retryable one at the rollback is the cause of it.                        *)
ErrnoOfAttempt ==
    /\ pc \in {"stmt", "commit"} => lastErrno \in {"none", "lost"}
    /\ pc = "rollback" /\ IsRetryableError(lastErrno) => cause \in {"deadlock", "timeout"}

ResultWhenIdle == result # "none" => pc = "idle"

IInv ==
    /\ TypeOK
    /\ OpenTransaction
    /\ NothingCommitted
    /\ WrittenSoFar
    /\ ErrnoOfAttempt
    /\ ResultWhenIdle
    /\ SuccessIsComplete
=================================================================================
