------------------------------ MODULE DBMS_NI ------------------------------
(***************************************************************************)
(* DBMS_NI (DBMS_NI.cpp): the one statement handle and the one return code *)
(* through which all workers send their statements to the database.  What  *)
(* a statement says, and whether it parses, is the database's matter.      *)
(***************************************************************************)

VARIABLES
  rc,      \* the return code that was assigned last
  hstmt    \* the statement handle: with no cursor, with one open, or freed

databaseVars == <<rc, hstmt>>

RETCODE == {"SQL_SUCCESS", "SQL_SUCCESS_WITH_INFO", "SQL_ERROR"}

DatabaseTypeOK == rc \in RETCODE /\ hstmt \in {"closed", "open", "freed"}

(* sqlconn has succeeded, or the server has not come up.                   *)
DatabaseInit == rc = "SQL_SUCCESS" /\ hstmt = "closed"

StrictSuccess(r) == r = "SQL_SUCCESS"   \* mutant: information is a failure

MYSQLSUCCESS(r) == r \in {"SQL_SUCCESS", "SQL_SUCCESS_WITH_INFO"}

(* ODBC takes no statement on a handle with an open cursor, nor on one     *)
(* that is freed.  Nothing here closes the cursor that a query leaves.     *)
CanReturn(r) == hstmt # "closed" => r = "SQL_ERROR"

SQLExecDirect(r, isQuery) ==
  /\ CanReturn(r)
  /\ hstmt' = IF isQuery /\ MYSQLSUCCESS(r) THEN "open" ELSE hstmt
  /\ UNCHANGED rc

AssignReturn(r) == rc' = r /\ UNCHANGED hstmt

SQLFreeStmt == hstmt' = "freed" /\ UNCHANGED rc
=============================================================================
