------------------------------- MODULE HpMysql -------------------------------
(***************************************************************************)
(* Statements and transactions of hp_mysql.c.  hp_mysql_query runs a       *)
(* statement and, if it fails, once more; between the two it frees a       *)
(* result nobody read or, when g_connect_cb is set, replaces the           *)
(* connection.  hp_mysql_query_all and hp_mysql_tmpl run several with      *)
(* autocommit off.                                                         *)
(*                                                                         *)
(* The session is the server's: a connection that ends rolls its open      *)
(* transaction back, and a new one starts with autocommit on.  Statement s *)
(* of a call adds 1 to db[s]; in hp_mysql_tmpl the last one is sql_count.  *)
(***************************************************************************)
EXTENDS Integers, FiniteSets

CONSTANTS
  MaxStmts,     \* statements of a call
  MaxSqlCalls   \* bound: calls

ASSUME MysqlAssumption == MaxStmts \in Nat \ {0} /\ MaxSqlCalls \in Nat

VARIABLES
  g_connect_cb, \* whether it is set
  sess,         \* the server's session: up, auto (autocommit), txn (open statements)
  db,           \* how often each statement of the call was committed
  call,         \* the call under way: kind, n statements, statement i, try
  sqlpc,        \* where it is
  sqlrc,        \* "ok" or "failed", of the latest call
  dropped,      \* the connection ended or was replaced since the call began
  rows,         \* statements whose result the caller was given
  sqlcalls      \* number of calls so far

sqlVars == <<g_connect_cb, sess, db, call, sqlpc, sqlrc, dropped, rows, sqlcalls>>
Stmts == 1..MaxStmts
NewSession(up) == [up |-> up, auto |-> TRUE, txn |-> {}]
NoCommit == [s \in Stmts |-> 0]

SqlInit ==
  /\ g_connect_cb \in BOOLEAN
  /\ sess = NewSession(~g_connect_cb)
  /\ db = NoCommit
  /\ call = [kind |-> "none", n |-> 0, i |-> 0, try |-> 0]
  /\ sqlpc = "idle" /\ sqlrc = "ok" /\ dropped = FALSE /\ rows = {} /\ sqlcalls = 0

\* hp_mysql_connect_addr and hp_mysql_connect; either may fail.
hp_mysql_connect ==
  /\ sqlpc = "idle" /\ ~sess.up
  /\ g_connect_cb' = TRUE
  /\ \E up \in BOOLEAN : sess' = NewSession(up)
  /\ UNCHANGED <<db, call, sqlpc, sqlrc, dropped, rows, sqlcalls>>

\* A call begins; hp_mysql_tmpl returns before it touched anything when check_cb
\* or sql_cb fail.
Begin(kind, n) ==
  /\ sqlpc = "idle" /\ sqlcalls < MaxSqlCalls
  /\ sqlcalls' = sqlcalls + 1
  /\ call' = [kind |-> kind, n |-> n, i |-> 1, try |-> 1]
  /\ db' = NoCommit /\ dropped' = ~sess.up /\ rows' = {}
  /\ \/ sqlrc' = "ok" /\ sqlpc' = IF kind = "query" THEN "run" ELSE "begin"
     \/ kind = "tmpl" /\ sqlrc' = "failed" /\ UNCHANGED sqlpc
  /\ UNCHANGED <<g_connect_cb, sess>>

Committed(S) == [s \in Stmts |-> IF s \in S THEN db[s] + 1 ELSE db[s]]

\* On a broken connection mysql_autocommit does nothing.
mysql_autocommit(on) ==
  IF sess.up
    THEN /\ db' = IF on THEN Committed(sess.txn) ELSE db
         /\ sess' = [sess EXCEPT !.auto = on, !.txn = IF on THEN {} ELSE @]
    ELSE UNCHANGED <<db, sess>>

DisableAutocommit ==
  /\ sqlpc = "begin"
  /\ mysql_autocommit(FALSE)
  /\ sqlpc' = "run"
  /\ UNCHANGED <<g_connect_cb, call, sqlrc, dropped, rows, sqlcalls>>

\* The server runs the statement; in autocommit mode it is committed at once.
Execute(s) ==
  /\ sess.up
  /\ db' = IF sess.auto THEN Committed({s}) ELSE db
  /\ sess' = IF sess.auto THEN sess ELSE [sess EXCEPT !.txn = @ \cup {s}]

\* hp_mysql_query succeeds; hp_mysql_tmpl keeps the rows of the first query and
\* of the first sql_count.
QueryDone ==
  /\ sqlpc = "run" /\ Execute(call.i)
  /\ rows' = IF call.kind = "tmpl" /\ call.i \notin {1, call.n} THEN rows
             ELSE rows \cup {call.i}
  /\ IF call.i < call.n
       THEN call' = [call EXCEPT !.i = @ + 1, !.try = 1] /\ UNCHANGED sqlpc
       ELSE sqlpc' = "end" /\ UNCHANGED call
  /\ UNCHANGED <<g_connect_cb, sqlrc, dropped, sqlcalls>>

NextTry ==
  IF call.try < 2 THEN call' = [call EXCEPT !.try = @ + 1] /\ UNCHANGED sqlpc
  ELSE sqlpc' = "failed" /\ UNCHANGED call

\* CR_COMMANDS_OUT_OF_SYNC: the result is freed, the connection stays.
OutOfSync ==
  /\ sqlpc = "run" /\ sess.up
  /\ NextTry
  /\ UNCHANGED <<g_connect_cb, sess, db, sqlrc, dropped, rows, sqlcalls>>

\* Any other error, of the statement or of the connection; the statement may
\* have been executed when the connection broke.  mysql_close, g_connect_cb.
QueryFails ==
  /\ sqlpc = "run"
  /\ NextTry
  /\ \E executed \in BOOLEAN :
       /\ executed => sess.up
       /\ db' = IF executed /\ sess.auto THEN Committed({call.i}) ELSE db
       /\ IF g_connect_cb THEN \E up \in BOOLEAN : sess' = NewSession(up)
          ELSE sess' = IF executed THEN NewSession(FALSE) ELSE sess
       /\ dropped' = (dropped \/ g_connect_cb \/ executed)
  /\ UNCHANGED <<g_connect_cb, sqlrc, rows, sqlcalls>>

\* Roll back; hp_mysql_query_all deletes the rows and resets autocommit,
\* hp_mysql_tmpl goes to its end.
CallFails ==
  /\ sqlpc = "failed"
  /\ sqlrc' = "failed"
  /\ sess' = IF call.kind = "query" THEN sess ELSE [sess EXCEPT !.txn = {}]
  /\ rows' = IF call.kind = "query_all" THEN {} ELSE rows
  /\ sqlpc' = IF call.kind = "query_all" THEN "end" ELSE "idle"
  /\ UNCHANGED <<g_connect_cb, db, call, dropped, sqlcalls>>

\* Mutant: hp_mysql_tmpl commits, and leaves autocommit as it is.
Bad_ResetAutocommit ==
  /\ sqlpc = "end"
  /\ IF call.kind # "tmpl" THEN mysql_autocommit(TRUE)
     ELSE /\ db' = Committed(sess.txn)
          /\ sess' = [sess EXCEPT !.txn = {}]
  /\ sqlpc' = "idle"
  /\ UNCHANGED <<g_connect_cb, call, sqlrc, dropped, rows, sqlcalls>>

\* mysql_commit (hp_mysql_tmpl) and mysql_autocommit(1), whose results nobody
\* looks at.
ResetAutocommit ==
  /\ sqlpc = "end"
  /\ IF call.kind = "query" THEN UNCHANGED <<sess, db>> ELSE mysql_autocommit(TRUE)
  /\ sqlpc' = "idle"
  /\ UNCHANGED <<g_connect_cb, call, sqlrc, dropped, rows, sqlcalls>>

ServerDrops ==
  /\ sess.up
  /\ sess' = NewSession(FALSE)
  /\ dropped' = TRUE
  /\ UNCHANGED <<g_connect_cb, db, call, sqlpc, sqlrc, rows, sqlcalls>>

hp_mysql_query ==
  QueryDone \/ OutOfSync \/ QueryFails \/ (call.kind = "query" /\ (CallFails \/ ResetAutocommit))
hp_mysql_query_all ==
  call.kind = "query_all" /\ (DisableAutocommit \/ CallFails \/ ResetAutocommit)
hp_mysql_tmpl ==
  call.kind = "tmpl" /\ (DisableAutocommit \/ CallFails \/ ResetAutocommit)
SqlNext ==
  \/ hp_mysql_connect \/ Begin("query", 1)
  \/ \E n \in Stmts : Begin("query_all", n) \/ Begin("tmpl", n)
  \/ hp_mysql_query \/ hp_mysql_query_all \/ hp_mysql_tmpl
  \/ ServerDrops
SqlSpec == SqlInit /\ [][SqlNext]_sqlVars
-----------------------------------------------------------------------------
\* A transaction is open only while autocommit is off, a session that is down has
\* none, and the caller has rows of statements that ran.
SqlTypeOK ==
  /\ sess.auto \/ ~sess.up => sess.txn = {}
  /\ \A s \in Stmts : db[s] \in 0..2
  /\ call.i \in 0..call.n /\ call.try \in 0..2
  /\ rows \subseteq 1..call.i

Transaction == call.kind \in {"query_all", "tmpl"} /\ sqlpc = "idle"
AllOrNone ==
  \A s \in 1..call.n : db[s] = IF sqlrc = "ok" THEN 1 ELSE 0

\* What hp_mysql_query_all and hp_mysql_tmpl ran is committed once if they
\* report success and not at all if they report an error, also after a retry
\* (CR_COMMANDS_OUT_OF_SYNC), as long as the connection was the same all the time.
SameConnectionAllOrNone == Transaction /\ ~dropped => AllOrNone

\* Whatever fails on the way, autocommit is on again after a call, except after
\* an hp_mysql_tmpl that failed, or a plain query after it.
AutocommitBack ==
  sqlpc = "idle" /\ sess.up /\ ~sess.auto =>
    call.kind # "query_all" /\ (call.kind = "tmpl" => sqlrc = "failed")

\* A transaction is all or nothing and leaves the session as it found it, whichever
\* statement fails, is tried again or loses its connection, with the exceptions
\* named at the parts.
SqlSound == SqlTypeOK /\ SameConnectionAllOrNone /\ AutocommitBack
=============================================================================
