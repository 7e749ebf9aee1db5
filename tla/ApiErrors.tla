----------------------------- MODULE ApiErrors ------------------------------
(***************************************************************************)
(* What an HTTP handler answers when an exception leaves its try block, and *)
(* which database exceptions with_db_retry tries again.                    *)
(***************************************************************************)

(* The exceptions the handlers meet, by class.  DBAPIError stands for the  *)
(* generic driver error a deadlock victim gets (SQLSTATE 40001);           *)
(* TimeoutError for a connection pool that stays exhausted; DataError for  *)
(* an amount the column cannot hold.                                       *)
Exceptions ==
    {"ValidationError", "ValueError", "StudentNotFoundError",
     "ConcurrencyConflictError", "FeeConstraintError", "OperationalError",
     "DBAPIError", "TimeoutError", "DataError"}

(* The isinstance tests of the mapping, in their order.                    *)
MapException(exc) ==
    IF exc = "ValidationError" THEN "VALIDATION_ERROR"
    ELSE IF exc = "StudentNotFoundError" THEN "STUDENT_NOT_FOUND"
    ELSE IF exc = "ConcurrencyConflictError" THEN "CONCURRENCY_CONFLICT"
    ELSE IF exc = "FeeConstraintError" THEN "INVALID_FEE_AMOUNTS"
    ELSE IF exc = "OperationalError" THEN "SERVICE_UNAVAILABLE"
    ELSE IF exc = "ValueError" THEN "INVALID_REQUEST"
    ELSE "INTERNAL_ERROR"

(* A lost or refused connection, and a deadlock victim.                    *)
Transient == {"OperationalError", "DBAPIError"}

(* What the database or the driver may raise at any statement, whether or  *)
(* not the request is right.  A pool that is exhausted shows when the      *)
(* connection is taken, before the first statement.                        *)
StatementFailures == {"OperationalError", "DBAPIError"}
ConnectFailures   == StatementFailures \cup {"TimeoutError"}

(* A request stopped before the handler reads the database: no valid       *)
(* token, a role that is not enough, an id that is not a positive integer. *)
EarlyRefusals == {"UNAUTHORIZED", "FORBIDDEN", "INVALID_STUDENT_ID"}

Codes == EarlyRefusals \cup {MapException(exc) : exc \in Exceptions}
=============================================================================
