--------------------------- MODULE HpPartsProofs ---------------------------
(***************************************************************************)
(* Proofs about the parts that share no state: transactions of hp_mysql.c  *)
(* for any number of statements, the state of hp_mqtt.c for any topics,    *)
(* both for any number of calls and of lost connections; the framed and    *)
(* the HTTP parser for any stream cut anywhere; the calls of hp_net.c for  *)
(* any buffers; the file cache and the configuration table for any files;  *)
(* the queries of hp_cjson.c for any documents and paths; the functions on *)
(* strings for any texts.                                                  *)
(***************************************************************************)
EXTENDS HpMysql, HpMqtt, HpMsg, HpHttp, HpNet, HpCache, HpConf, HpJson, HpStrings,
        SequenceTheorems, WellFoundedInduction, NaturalsInduction, TLAPS

-----------------------------------------------------------------------------
(* Naturals and sequences *)

\* Every nonempty set of naturals has a least element.
LEMMA NatMin ==
  ASSUME NEW T, T \subseteq Nat, T # {}
  PROVE  \E m \in T : \A k \in T : m <= k
<1>1. IsWellFoundedOn(OpToRel(<, Nat), Nat)
  BY NatLessThanWellFounded
<1>2. PICK m \in T : \A k \in T : ~(<<k, m>> \in OpToRel(<, Nat))
  BY <1>1, WFMin, Zenon
<1>3. \A k \in T : ~(k < m)
  BY <1>2 DEF OpToRel
<1> QED BY <1>3

\* What is left of a sequence when the first n elements are taken off.
LEMMA CutFront ==
  ASSUME NEW S, NEW s \in Seq(S), NEW n \in 0..Len(s)
  PROVE  /\ Len(s) \in Nat
         /\ SubSeq(s, n + 1, Len(s)) \in Seq(S)
         /\ Len(SubSeq(s, n + 1, Len(s))) = Len(s) - n
         /\ \A j \in 1..Len(s) - n : SubSeq(s, n + 1, Len(s))[j] = s[n + j]
<1>1. Len(s) \in Nat /\ \A j \in 1..Len(s) : s[j] \in S
  BY LenProperties, ElementOfSeq
<1>2. /\ SubSeq(s, n + 1, Len(s)) \in Seq(S)
      /\ Len(SubSeq(s, n + 1, Len(s))) =
           IF n + 1 <= Len(s) THEN Len(s) - (n + 1) + 1 ELSE 0
      /\ \A j \in 1..Len(s) - (n + 1) + 1 :
           SubSeq(s, n + 1, Len(s))[j] = s[n + 1 + j - 1]
  BY <1>1, SubSeqProperties
<1> QED BY <1>1, <1>2

\* Taking n elements off the front of s takes them off s \o t.
LEMMA CutConcat ==
  ASSUME NEW s \in Seq(Nat), NEW t \in Seq(Nat), NEW n \in 0..Len(s)
  PROVE  /\ Len(s \o t) \in Nat /\ n \in 0..Len(s \o t)
         /\ SubSeq(s, n + 1, Len(s)) \o t = SubSeq(s \o t, n + 1, Len(s \o t))
<1> DEFINE a == SubSeq(s, n + 1, Len(s))
           b == SubSeq(s \o t, n + 1, Len(s \o t))
<1>1. /\ Len(s) \in Nat /\ Len(t) \in Nat /\ s \o t \in Seq(Nat)
      /\ Len(s \o t) = Len(s) + Len(t)
      /\ \A i \in 1..Len(s) + Len(t) :
           (s \o t)[i] = IF i <= Len(s) THEN s[i] ELSE t[i - Len(s)]
  BY LenProperties, ConcatProperties
<1>2. a \in Seq(Nat) /\ Len(a) = Len(s) - n /\ \A j \in 1..Len(s) - n : a[j] = s[n + j]
  BY CutFront
<1>3. n \in 0..Len(s \o t)
  BY <1>1
<1>4. /\ b \in Seq(Nat) /\ Len(b) = Len(s \o t) - n
      /\ \A j \in 1..Len(s \o t) - n : b[j] = (s \o t)[n + j]
  BY <1>1, <1>3, CutFront
<1> HIDE DEF a, b
<1>5. /\ a \o t \in Seq(Nat) /\ Len(a \o t) = Len(a) + Len(t)
      /\ \A i \in 1..Len(a) + Len(t) :
           (a \o t)[i] = IF i <= Len(a) THEN a[i] ELSE t[i - Len(a)]
  BY <1>2, ConcatProperties
<1>6. Len(a \o t) = Len(b)
  BY <1>1, <1>2, <1>4, <1>5
<1>7. ASSUME NEW i \in 1..Len(b) PROVE (a \o t)[i] = b[i]
  <2>1. /\ i \in 1..Len(a) + Len(t) /\ n + i \in 1..Len(s) + Len(t)
        /\ i \in 1..Len(s \o t) - n
    BY <1>1, <1>2, <1>4
  <2>2. b[i] = IF n + i <= Len(s) THEN s[n + i] ELSE t[n + i - Len(s)]
    BY <2>1, <1>1, <1>4
  <2>3. CASE i <= Len(a)
    <3>1. i \in 1..Len(s) - n /\ n + i <= Len(s)
      BY <2>1, <2>3, <1>1, <1>2
    <3> QED BY <3>1, <2>1, <2>2, <2>3, <1>2, <1>5, SMTT(30)
  <2>4. CASE ~(i <= Len(a))
    <3>1. i - Len(a) = n + i - Len(s) /\ ~(n + i <= Len(s))
      BY <2>1, <2>4, <1>1, <1>2
    <3> QED BY <3>1, <2>1, <2>2, <2>4, <1>5
  <2> QED BY <2>3, <2>4
<1>8. a \o t = b
  BY <1>4, <1>5, <1>6, <1>7, SeqEqual
<1>9. Len(s \o t) \in Nat
  BY <1>1
<1> QED BY <1>3, <1>8, <1>9, Zenon DEF a, b

-----------------------------------------------------------------------------
(* HpMysql *)

\* What a call and its session are; the result is an error only after the call
\* has ended, or while hp_mysql_query_all still resets autocommit.
SqlCalls ==
  /\ sess \in [up : BOOLEAN, auto : BOOLEAN, txn : SUBSET Stmts]
  /\ call \in [kind : {"none", "query", "query_all", "tmpl"}, n : 0..MaxStmts,
               i : Nat, try : 0..2]
  /\ db \in [Stmts -> 0..2] /\ sqlpc \in {"idle", "begin", "run", "failed", "end"}
  /\ sqlrc \in {"ok", "failed"} /\ dropped \in BOOLEAN /\ g_connect_cb \in BOOLEAN
  /\ call.i <= call.n /\ rows \subseteq 1..call.i
  /\ sqlpc # "idle" => call.kind # "none" /\ call.i >= 1 /\ call.try >= 1
  /\ call.kind = "query" => call.n = 1
  /\ sqlpc \in {"begin", "run", "failed"} => sqlrc = "ok"
  /\ sqlpc = "end" /\ sqlrc = "failed" => call.kind = "query_all"
  /\ sqlpc = "begin" => call.i = 1 /\ call.try = 1

\* A statement was committed at most once per try, and none while autocommit is off.
CommitInv ==
  /\ sqlpc \in {"begin", "run"} =>
       \A s \in Stmts : /\ s = call.i => db[s] <= call.try - 1
                        /\ s > call.i => db[s] = 0
  /\ sqlpc = "begin" \/ (sqlpc # "idle" /\ ~sess.auto) => db = NoCommit

\* The open transaction is of statements of the call, or of a plain query that ran
\* while autocommit was off.
SessInv ==
  /\ sess.auto \/ ~sess.up => sess.txn = {}
  /\ sess.txn \subseteq (IF sqlpc \in {"idle", "begin"} THEN {1} ELSE 1..call.n)

\* On a connection that is the same all the time, the open transaction has all
\* that was run.
WholeInv ==
  call.kind \in {"query_all", "tmpl"} /\ ~dropped =>
    /\ sqlpc \in {"begin", "run", "failed"} => sess.up
    /\ sqlpc \in {"run", "failed", "end"} => sess.up /\ ~sess.auto
    /\ sqlpc = "run" => 1..call.i - 1 \subseteq sess.txn
    /\ sqlpc = "end" => sess.txn = IF sqlrc = "ok" THEN 1..call.n ELSE {}
    /\ sqlpc = "idle" => AllOrNone

SqlInv == SqlCalls /\ CommitInv /\ SessInv /\ WholeInv /\ AutocommitBack

\* mysql_autocommit and a rollback only touch the session and db; committing a set
\* of statements adds 1 to each.
LEMMA CommittedType ==
  ASSUME db \in [Stmts -> 0..2], NEW S,
         \A s \in Stmts : s \in S => db[s] <= 1
  PROVE  /\ Committed(S) \in [Stmts -> 0..2]
         /\ \A s \in Stmts : Committed(S)[s] = IF s \in S THEN db[s] + 1 ELSE db[s]
<1>1. \A s \in Stmts : (IF s \in S THEN db[s] + 1 ELSE db[s]) \in 0..2
  OBVIOUS
<1> QED BY <1>1 DEF Committed

\* The program starts outside of a call, with autocommit on.
LEMMA SqlStarts == SqlInit => SqlInv
<1> SUFFICES ASSUME SqlInit PROVE SqlInv
  OBVIOUS
<1>1. PICK up \in BOOLEAN : sess = [up |-> up, auto |-> TRUE, txn |-> {}]
  <2>1. (~g_connect_cb) \in BOOLEAN
    OBVIOUS
  <2> QED BY <2>1, Zenon DEF SqlInit, NewSession
<1>2. SqlCalls
  <2>1. sess \in [up : BOOLEAN, auto : BOOLEAN, txn : SUBSET Stmts]
    BY <1>1
  <2>2. call \in [kind : {"none", "query", "query_all", "tmpl"}, n : 0..MaxStmts,
                  i : Nat, try : 0..2]
    BY MysqlAssumption DEF SqlInit
  <2>3. call.i <= call.n /\ call.kind = "none" /\ rows = {} /\ sqlpc = "idle"
    BY DEF SqlInit
  <2>4. db \in [Stmts -> 0..2] /\ sqlrc = "ok" /\ dropped = FALSE /\ g_connect_cb \in BOOLEAN
    BY DEF SqlInit, NoCommit
  <2> QED BY <2>1, <2>2, <2>3, <2>4 DEF SqlCalls
<1> QED BY <1>1, <1>2
        DEF SqlInit, SqlInv, CommitInv, SessInv, WholeInv, AutocommitBack

\* hp_mysql_connect and a connection the server ends: the session is new.
LEMMA SessionLost ==
  ASSUME SqlInv, hp_mysql_connect \/ ServerDrops
  PROVE  SqlInv'
<1>1. PICK up \in BOOLEAN : sess' = [up |-> up, auto |-> TRUE, txn |-> {}]
  BY DEF hp_mysql_connect, ServerDrops, NewSession
<1>2. /\ UNCHANGED <<db, call, sqlpc, sqlrc, rows>>
      /\ g_connect_cb' \in BOOLEAN /\ dropped' \in BOOLEAN
      /\ dropped' \/ (dropped' = dropped /\ sqlpc = "idle")
  BY DEF hp_mysql_connect, ServerDrops, SqlInv, SqlCalls
<1>3. SqlCalls'
  BY <1>1, <1>2 DEF SqlInv, SqlCalls
<1>4. CommitInv' /\ SessInv' /\ AutocommitBack'
  BY <1>1, <1>2 DEF SqlInv, CommitInv, SessInv, AutocommitBack
<1>5. WholeInv'
  BY <1>1, <1>2 DEF SqlInv, WholeInv, AllOrNone
<1> QED BY <1>3, <1>4, <1>5 DEF SqlInv

\* A call begins.
LEMMA CallBegins ==
  ASSUME SqlInv, NEW kind \in {"query", "query_all", "tmpl"}, NEW n \in Stmts,
         kind = "query" => n = 1, Begin(kind, n)
  PROVE  SqlInv'
<1>1. /\ call' = [kind |-> kind, n |-> n, i |-> 1, try |-> 1]
      /\ db' = [s \in Stmts |-> 0] /\ dropped' = (~sess.up) /\ rows' = {}
      /\ sqlpc = "idle" /\ UNCHANGED <<g_connect_cb, sess>>
      /\ \/ sqlrc' = "ok" /\ sqlpc' = (IF kind = "query" THEN "run" ELSE "begin")
         \/ kind = "tmpl" /\ sqlrc' = "failed" /\ sqlpc' = "idle"
  BY DEF Begin, NoCommit
<1>2. n \in 1..MaxStmts /\ MaxStmts \in Nat /\ 1 \in Stmts /\ (~sess.up) \in BOOLEAN
  BY MysqlAssumption DEF Stmts
<1>3. dropped' \in BOOLEAN
  BY <1>1, <1>2, Zenon
<1>4. SqlCalls'
  <2>1. /\ sess' \in [up : BOOLEAN, auto : BOOLEAN, txn : SUBSET Stmts]
        /\ g_connect_cb' \in BOOLEAN /\ db' \in [Stmts -> 0..2]
    BY <1>1 DEF SqlInv, SqlCalls
  <2>2. call' \in [kind : {"none", "query", "query_all", "tmpl"}, n : 0..MaxStmts,
                   i : Nat, try : 0..2]
    BY <1>1, <1>2
  <2> QED BY <2>1, <2>2, <1>1, <1>2, <1>3 DEF SqlCalls
<1>5. CommitInv'
  BY <1>1, <1>2 DEF CommitInv, Stmts, NoCommit
<1>6. SessInv'
  BY <1>1, <1>2 DEF SqlInv, SessInv
<1>7. WholeInv' /\ AutocommitBack'
  <2>1. WholeInv'
    <3> SUFFICES ASSUME ~dropped', kind # "query"
                 PROVE  /\ sess'.up /\ sqlpc' \in {"begin", "idle"}
                        /\ sqlpc' = "idle" => AllOrNone'
      BY <1>1 DEF WholeInv
    <3>1. sess'.up
      BY <1>1, Zenon
    <3>2. sqlpc' = "idle" => AllOrNone'
      <4>1. 1..n \subseteq Stmts
        BY <1>2 DEF Stmts
      <4> QED BY <4>1, <1>1 DEF AllOrNone
    <3> QED BY <3>1, <3>2, <1>1
  <2> QED BY <2>1, <1>1 DEF AutocommitBack
<1> QED BY <1>4, <1>5, <1>6, <1>7 DEF SqlInv

\* DisableAutocommit: what was open stays open.
LEMMA AutocommitOff ==
  ASSUME SqlInv, DisableAutocommit, call.kind # "query"
  PROVE  SqlInv'
<1>1. /\ sqlpc = "begin" /\ sqlpc' = "run" /\ db' = db
      /\ UNCHANGED <<g_connect_cb, call, sqlrc, dropped, rows>>
      /\ IF sess.up THEN sess' = [sess EXCEPT !.auto = FALSE, !.txn = sess.txn]
         ELSE sess' = sess
  BY DEF DisableAutocommit, mysql_autocommit
<1>2. /\ sess' \in [up : BOOLEAN, auto : BOOLEAN, txn : SUBSET Stmts]
      /\ sess'.up = sess.up /\ sess'.txn = sess.txn
      /\ sess.up => sess'.auto = FALSE
      /\ ~sess.up => sess'.auto = sess.auto
  BY <1>1 DEF SqlInv, SqlCalls
<1>3. SqlCalls'
  BY <1>1, <1>2 DEF SqlInv, SqlCalls
<1>4. CommitInv'
  BY <1>1, <1>2 DEF SqlInv, CommitInv
<1>5. SessInv'
  <2>1. call.n \in Nat /\ 1 <= call.n
    BY <1>1, MysqlAssumption DEF SqlInv, SqlCalls
  <2> QED BY <2>1, <1>1, <1>2 DEF SqlInv, SessInv
<1>6. WholeInv'
  <2>1. call.i = 1 /\ 1..1 - 1 = {}
    BY <1>1 DEF SqlInv, SqlCalls
  <2> QED BY <2>1, <1>1, <1>2 DEF SqlInv, WholeInv
<1>7. AutocommitBack'
  BY <1>1 DEF AutocommitBack
<1> QED BY <1>3, <1>4, <1>5, <1>6, <1>7 DEF SqlInv

\* What may be committed while a statement runs: its own effect, in autocommit mode,
\* or nothing.
LEMMA RunCommits ==
  ASSUME SqlInv, sqlpc = "run",
         \/ db' = db
         \/ sess.auto /\ db' = Committed({call.i})
  PROVE  /\ db' \in [Stmts -> 0..2]
         /\ \A s \in Stmts : /\ s = call.i => db'[s] <= call.try
                             /\ s > call.i => db'[s] = 0
         /\ ~sess.auto => db' = NoCommit
<1>1. /\ db \in [Stmts -> 0..2] /\ call.try \in 0..2 /\ call.i \in Nat
      /\ \A s \in Stmts : /\ s \in Nat
                          /\ s = call.i => db[s] <= call.try - 1
                          /\ s > call.i => db[s] = 0
      /\ ~sess.auto => db = NoCommit
  BY MysqlAssumption DEF SqlInv, SqlCalls, CommitInv, Stmts
<1>2. CASE db' = db
  BY <1>1, <1>2
<1>3. CASE sess.auto /\ db' = Committed({call.i})
  <2>1. \A s \in Stmts : s \in {call.i} => db[s] <= 1
    BY <1>1
  <2>2. /\ db' \in [Stmts -> 0..2]
        /\ \A s \in Stmts : db'[s] = IF s \in {call.i} THEN db[s] + 1 ELSE db[s]
    BY <2>1, <1>1, <1>3, CommittedType
  <2>3. ASSUME NEW s \in Stmts
        PROVE  /\ s = call.i => db'[s] <= call.try
               /\ s > call.i => db'[s] = 0
    <3>1. s = call.i => db'[s] = db[s] + 1 /\ db[s] \in 0..2
      BY <2>2, <1>1
    <3>2. s > call.i => s # call.i
      BY <1>1
    <3> QED BY <3>1, <3>2, <2>2, <1>1
  <2> QED BY <2>2, <2>3, <1>3
<1> QED BY <1>2, <1>3

\* A statement runs and is the next one's turn, or the last one was it.
LEMMA StatementRuns ==
  ASSUME SqlInv, QueryDone
  PROVE  SqlInv'
<1>1. /\ sqlpc = "run" /\ sess.up
      /\ db' = (IF sess.auto THEN Committed({call.i}) ELSE db)
      /\ sess' = IF sess.auto THEN sess ELSE [sess EXCEPT !.txn = sess.txn \cup {call.i}]
      /\ rows' = rows \/ rows' = rows \cup {call.i}
      /\ UNCHANGED <<g_connect_cb, sqlrc, dropped>>
      /\ \/ /\ call.i < call.n /\ sqlpc' = "run"
            /\ call' = [call EXCEPT !.i = call.i + 1, !.try = 1]
         \/ ~(call.i < call.n) /\ sqlpc' = "end" /\ call' = call
  BY DEF QueryDone, Execute
<1>2. /\ call.i \in Nat /\ call.n \in 0..MaxStmts /\ MaxStmts \in Nat
      /\ 1 <= call.i /\ call.i <= call.n /\ call.try \in 0..2 /\ 1 <= call.try
      /\ call.i \in Stmts /\ rows \subseteq 1..call.i /\ sqlrc = "ok"
  BY <1>1, MysqlAssumption DEF SqlInv, SqlCalls, Stmts
<1>3. /\ db' \in [Stmts -> 0..2]
      /\ \A s \in Stmts : s > call.i => db'[s] = 0
      /\ ~sess.auto => db' = NoCommit
  BY <1>1, RunCommits
<1>4. /\ sess' \in [up : BOOLEAN, auto : BOOLEAN, txn : SUBSET Stmts]
      /\ sess'.up = sess.up /\ sess'.auto = sess.auto
      /\ sess'.txn = IF sess.auto THEN {} ELSE sess.txn \cup {call.i}
  BY <1>1, <1>2 DEF SqlInv, SqlCalls, SessInv
<1>5. CASE call.i < call.n
  <2>1. /\ call' \in [kind : {"none", "query", "query_all", "tmpl"}, n : 0..MaxStmts,
                      i : Nat, try : 0..2]
        /\ call'.kind = call.kind /\ call'.n = call.n /\ call'.i = call.i + 1
        /\ call'.try = 1 /\ sqlpc' = "run"
    <3>1. /\ call \in [kind : {"none", "query", "query_all", "tmpl"}, n : 0..MaxStmts,
                        i : Nat, try : 0..2]
          /\ call.i + 1 \in Nat /\ 1 \in 0..2
      BY <1>2 DEF SqlInv, SqlCalls
    <3>2. call' = [call EXCEPT !.i = call.i + 1, !.try = 1] /\ sqlpc' = "run"
      BY <1>1, <1>5
    <3> QED BY <3>1, <3>2
  <2>2. call'.i <= call'.n /\ rows' \subseteq 1..call'.i
    BY <2>1, <1>1, <1>2, <1>5
  <2>3. SqlCalls'
    <3>1. 1 <= call'.i /\ call.kind # "none" /\ call'.n = call.n
          /\ (call.kind = "query" => call.n = 1)
      BY <2>1, <1>1, <1>2 DEF SqlInv, SqlCalls
    <3>2. /\ g_connect_cb' \in BOOLEAN /\ dropped' \in BOOLEAN
          /\ sqlrc' = "ok" /\ sqlpc' = "run"
      BY <2>1, <1>1, <1>2 DEF SqlInv, SqlCalls
    <3> QED BY <3>1, <3>2, <2>1, <2>2, <1>3, <1>4 DEF SqlCalls
  <2>4. CommitInv'
    <3>1. \A s \in Stmts : /\ s \in Nat
                           /\ s = call.i + 1 => s > call.i
                           /\ s > call.i + 1 => s > call.i
      BY <1>2 DEF Stmts
    <3> QED BY <3>1, <2>1, <1>3, <1>4 DEF CommitInv
  <2>5. SessInv'
    BY <2>1, <1>1, <1>2, <1>4 DEF SqlInv, SessInv
  <2>6. WholeInv'
    <3>1. 1..call'.i - 1 = 1..call.i - 1 \cup {call.i}
      BY <2>1, <1>2
    <3> QED BY <3>1, <2>1, <1>1, <1>4 DEF SqlInv, WholeInv
  <2>7. AutocommitBack'
    BY <2>1 DEF AutocommitBack
  <2> QED BY <2>3, <2>4, <2>5, <2>6, <2>7 DEF SqlInv
<1>6. CASE ~(call.i < call.n)
  <2>1. sqlpc' = "end" /\ call' = call /\ rows' \subseteq 1..call.i /\ call.i = call.n
    BY <1>1, <1>2, <1>6
  <2>2. SqlCalls'
    BY <2>1, <1>1, <1>2, <1>3, <1>4 DEF SqlInv, SqlCalls
  <2>3. CommitInv'
    BY <2>1, <1>3, <1>4 DEF CommitInv
  <2>4. SessInv'
    BY <2>1, <1>1, <1>2, <1>4 DEF SqlInv, SessInv
  <2>5. WholeInv'
    <3>1. 1..call.n = 1..call.i - 1 \cup {call.i}
      BY <2>1, <1>2
    <3> QED BY <3>1, <2>1, <1>1, <1>2, <1>4 DEF SqlInv, WholeInv, SessInv
  <2>6. AutocommitBack'
    BY <2>1 DEF AutocommitBack
  <2> QED BY <2>2, <2>3, <2>4, <2>5, <2>6 DEF SqlInv
<1> QED BY <1>5, <1>6

\* A statement fails: the session is as before, or a new one that rolled back what
\* was open; there is one more try.
LEMMA StatementFails ==
  ASSUME SqlInv, OutOfSync \/ QueryFails
  PROVE  SqlInv'
<1>1. /\ sqlpc = "run" /\ UNCHANGED <<g_connect_cb, sqlrc, rows>>
      /\ \/ /\ call.try < 2 /\ sqlpc' = "run"
            /\ call' = [call EXCEPT !.try = call.try + 1]
         \/ ~(call.try < 2) /\ sqlpc' = "failed" /\ call' = call
  BY DEF OutOfSync, QueryFails, NextTry
<1>2. /\ \/ db' = db
         \/ sess.auto /\ db' = Committed({call.i})
      /\ \/ sess' = sess /\ dropped' = dropped
         \/ \E up \in BOOLEAN :
              sess' = [up |-> up, auto |-> TRUE, txn |-> {}] /\ dropped' = TRUE
  <2>1. CASE OutOfSync
    BY <2>1 DEF OutOfSync
  <2>2. CASE QueryFails
    <3>1. PICK executed \in BOOLEAN :
            /\ db' = IF executed /\ sess.auto THEN Committed({call.i}) ELSE db
            /\ IF g_connect_cb THEN \E up \in BOOLEAN : sess' = NewSession(up)
               ELSE sess' = IF executed THEN NewSession(FALSE) ELSE sess
            /\ dropped' = (dropped \/ g_connect_cb \/ executed)
      BY <2>2 DEF QueryFails
    <3>2. g_connect_cb \in BOOLEAN /\ dropped \in BOOLEAN
      BY DEF SqlInv, SqlCalls
    <3>3. CASE g_connect_cb \/ executed
      <4>1. dropped' = TRUE
        BY <3>1, <3>2, <3>3
      <4> QED BY <4>1, <3>1, <3>3 DEF NewSession
    <3>4. CASE ~g_connect_cb /\ ~executed
      <4>1. dropped' = dropped
        BY <3>1, <3>2, <3>4
      <4> QED BY <4>1, <3>1, <3>4
    <3> QED BY <3>3, <3>4
  <2> QED BY <2>1, <2>2
<1>3. /\ db' \in [Stmts -> 0..2]
      /\ \A s \in Stmts : /\ s = call.i => db'[s] <= call.try
                          /\ s > call.i => db'[s] = 0
      /\ ~sess.auto => db' = NoCommit
  BY <1>1, <1>2, RunCommits
<1>4. /\ call.try \in 0..2 /\ 1 <= call.try
      /\ call' \in [kind : {"none", "query", "query_all", "tmpl"}, n : 0..MaxStmts,
                    i : Nat, try : 0..2]
      /\ call'.kind = call.kind /\ call'.n = call.n /\ call'.i = call.i
      /\ 1 <= call'.try /\ sqlpc' = "run" => call'.try - 1 = call.try
      /\ sqlpc' \in {"run", "failed"}
  <2>1. /\ call.try \in 0..2 /\ 1 <= call.try
        /\ call \in [kind : {"none", "query", "query_all", "tmpl"}, n : 0..MaxStmts,
                     i : Nat, try : 0..2]
    BY <1>1 DEF SqlInv, SqlCalls
  <2> QED BY <2>1, <1>1
<1>5. 1 <= call'.try
  BY <1>1, <1>4
<1>6. /\ sess' \in [up : BOOLEAN, auto : BOOLEAN, txn : SUBSET Stmts]
      /\ dropped' \in BOOLEAN
      /\ \/ sess' = sess /\ dropped' = dropped
         \/ sess'.auto /\ sess'.txn = {} /\ dropped'
  <2>1. CASE sess' = sess /\ dropped' = dropped
    BY <2>1 DEF SqlInv, SqlCalls
  <2>2. CASE \E up \in BOOLEAN :
               sess' = [up |-> up, auto |-> TRUE, txn |-> {}] /\ dropped' = TRUE
    <3>1. PICK up \in BOOLEAN :
                 sess' = [up |-> up, auto |-> TRUE, txn |-> {}] /\ dropped' = TRUE
      BY <2>2
    <3>2. sess' \in [up : BOOLEAN, auto : BOOLEAN, txn : SUBSET Stmts]
      BY <3>1
    <3> QED BY <3>1, <3>2
  <2> QED BY <1>2, <2>1, <2>2
<1>7. SqlCalls'
  BY <1>1, <1>3, <1>4, <1>5, <1>6 DEF SqlInv, SqlCalls
<1>8. CommitInv'
  BY <1>3, <1>4, <1>5, <1>6 DEF CommitInv
<1>9. SessInv'
  BY <1>1, <1>4, <1>6 DEF SqlInv, SessInv
<1>10. WholeInv'
  BY <1>1, <1>4, <1>6 DEF SqlInv, WholeInv
<1>11. AutocommitBack'
  BY <1>4 DEF AutocommitBack
<1> QED BY <1>7, <1>8, <1>9, <1>10, <1>11 DEF SqlInv

\* The call fails: what was open is rolled back, and nothing else was committed.
LEMMA CallRollsBack ==
  ASSUME SqlInv, CallFails
  PROVE  SqlInv'
<1>1. /\ sqlpc = "failed" /\ sqlrc' = "failed"
      /\ UNCHANGED <<g_connect_cb, db, call, dropped>>
      /\ rows' \subseteq rows
      /\ sqlpc' = IF call.kind = "query_all" THEN "end" ELSE "idle"
      /\ sess' = IF call.kind = "query" THEN sess ELSE [sess EXCEPT !.txn = {}]
  BY DEF CallFails
<1>2. /\ sess' \in [up : BOOLEAN, auto : BOOLEAN, txn : SUBSET Stmts]
      /\ sess'.up = sess.up /\ sess'.auto = sess.auto
      /\ sess'.txn = IF call.kind = "query" THEN sess.txn ELSE {}
  BY <1>1 DEF SqlInv, SqlCalls
<1>3. SqlCalls'
  BY <1>1, <1>2 DEF SqlInv, SqlCalls
<1>4. CommitInv'
  BY <1>1, <1>2 DEF SqlInv, CommitInv
<1>5. SessInv'
  <2>1. call.kind = "query" => 1..call.n = {1}
    BY DEF SqlInv, SqlCalls
  <2> QED BY <2>1, <1>1, <1>2 DEF SqlInv, SessInv
<1>6. WholeInv'
  <2> SUFFICES ASSUME call.kind \in {"query_all", "tmpl"}, ~dropped
               PROVE  /\ sess'.up /\ ~sess'.auto /\ sess'.txn = {}
                      /\ AllOrNone'
    BY <1>1 DEF WholeInv
  <2>1. sess.up /\ ~sess.auto /\ sess'.txn = {}
    BY <1>1, <1>2 DEF SqlInv, WholeInv
  <2>2. db = NoCommit
    BY <2>1, <1>1 DEF SqlInv, CommitInv
  <2>3. 1..call.n \subseteq Stmts
    BY MysqlAssumption DEF SqlInv, SqlCalls, Stmts
  <2> QED BY <2>1, <2>2, <2>3, <1>1, <1>2 DEF AllOrNone, NoCommit
<1>7. AutocommitBack'
  BY <1>1 DEF AutocommitBack
<1> QED BY <1>3, <1>4, <1>5, <1>6, <1>7 DEF SqlInv

\* The call ends: what is open is committed, and autocommit is on again.
LEMMA CallCommits ==
  ASSUME SqlInv, ResetAutocommit
  PROVE  SqlInv'
<1>1. /\ sqlpc = "end" /\ sqlpc' = "idle"
      /\ UNCHANGED <<g_connect_cb, call, sqlrc, dropped, rows>>
      /\ IF call.kind # "query" /\ sess.up
           THEN /\ db' = Committed(sess.txn)
                /\ sess' = [sess EXCEPT !.auto = TRUE, !.txn = {}]
           ELSE UNCHANGED <<sess, db>>
  BY DEF ResetAutocommit, mysql_autocommit
<1>2. /\ \A s \in Stmts : s \in sess.txn => db[s] <= 1
      /\ db \in [Stmts -> 0..2]
  <2>1. sess.txn # {} => db = NoCommit
    BY <1>1 DEF SqlInv, SessInv, CommitInv
  <2> QED BY <2>1 DEF SqlInv, SqlCalls, NoCommit
<1>3. /\ Committed(sess.txn) \in [Stmts -> 0..2]
      /\ \A s \in Stmts : Committed(sess.txn)[s] = IF s \in sess.txn THEN db[s] + 1 ELSE db[s]
  BY <1>2, CommittedType
<1>4. /\ db' \in [Stmts -> 0..2]
      /\ sess' \in [up : BOOLEAN, auto : BOOLEAN, txn : SUBSET Stmts]
      /\ sess'.up = sess.up
      /\ \/ sess'.auto /\ sess'.txn = {}
         \/ sess' = sess /\ (call.kind = "query" \/ ~sess.up)
  BY <1>1, <1>2, <1>3 DEF SqlInv, SqlCalls
<1>5. SqlCalls'
  BY <1>1, <1>4 DEF SqlInv, SqlCalls
<1>6. CommitInv'
  BY <1>1 DEF CommitInv
<1>7. SessInv'
  <2>1. call.kind = "query" => 1..call.n = {1}
    BY DEF SqlInv, SqlCalls
  <2> QED BY <2>1, <1>1, <1>4 DEF SqlInv, SessInv
<1>8. WholeInv'
  <2> SUFFICES ASSUME call.kind \in {"query_all", "tmpl"}, ~dropped
               PROVE  AllOrNone'
    BY <1>1 DEF WholeInv
  <2>1. sess.up /\ ~sess.auto /\ sess.txn = IF sqlrc = "ok" THEN 1..call.n ELSE {}
    BY <1>1 DEF SqlInv, WholeInv
  <2>2. db = NoCommit
    BY <2>1, <1>1 DEF SqlInv, CommitInv
  <2>3. 1..call.n \subseteq Stmts
    BY MysqlAssumption DEF SqlInv, SqlCalls, Stmts
  <2>4. \A s \in Stmts : db'[s] = IF s \in sess.txn THEN 1 ELSE 0
    BY <2>1, <2>2, <1>1, <1>3 DEF NoCommit
  <2> QED BY <2>1, <2>3, <2>4, <1>1 DEF AllOrNone
<1>9. AutocommitBack'
  BY <1>1, <1>4 DEF AutocommitBack
<1> QED BY <1>5, <1>6, <1>7, <1>8, <1>9 DEF SqlInv

\* hp_mysql_query_all and hp_mysql_tmpl commit all they ran or nothing, whichever
\* statement fails and is tried again, as long as the connection is the same; and
\* autocommit is on again afterwards, but for a failed hp_mysql_tmpl.
THEOREM SqlIsSound == SqlSpec => []SqlSound
<1>1. SqlInv /\ [SqlNext]_sqlVars => SqlInv'
  <2> SUFFICES ASSUME SqlInv, [SqlNext]_sqlVars PROVE SqlInv'
    OBVIOUS
  <2>1. CASE hp_mysql_connect \/ ServerDrops
    BY <2>1, SessionLost
  <2>2. CASE Begin("query", 1) \/ \E n \in Stmts : Begin("query_all", n) \/ Begin("tmpl", n)
    <3>1. 1 \in Stmts
      BY MysqlAssumption DEF Stmts
    <3> QED BY <3>1, <2>2, CallBegins
  <2>3. CASE DisableAutocommit /\ call.kind # "query"
    BY <2>3, AutocommitOff
  <2>4. CASE QueryDone
    BY <2>4, StatementRuns
  <2>5. CASE OutOfSync \/ QueryFails
    BY <2>5, StatementFails
  <2>6. CASE CallFails
    BY <2>6, CallRollsBack
  <2>7. CASE ResetAutocommit
    BY <2>7, CallCommits
  <2>8. CASE UNCHANGED sqlVars
    BY <2>8 DEF sqlVars, SqlInv, SqlCalls, CommitInv, SessInv, WholeInv,
                AutocommitBack, AllOrNone
  <2> QED BY <2>1, <2>2, <2>3, <2>4, <2>5, <2>6, <2>7, <2>8
          DEF SqlNext, hp_mysql_query, hp_mysql_query_all, hp_mysql_tmpl
<1>2. SqlInv => SqlSound
  <2> SUFFICES ASSUME SqlInv PROVE SqlSound
    OBVIOUS
  <2>1. SqlTypeOK
    BY MysqlAssumption DEF SqlInv, SqlCalls, SessInv, SqlTypeOK
  <2>2. SameConnectionAllOrNone
    BY DEF SqlInv, WholeInv, SameConnectionAllOrNone, Transaction
  <2> QED BY <2>1, <2>2 DEF SqlInv, SqlSound
<1> QED BY <1>1, <1>2, SqlStarts, PTL DEF SqlSpec

-----------------------------------------------------------------------------
(* HpMqtt *)

AllTopics == UNION {ToSet(t) : t \in TopicLists}
LibRequest ==
  [op : {"connect", "subscribe", "publish", "disconnect"}, arg : SUBSET AllTopics]

MqttTypes ==
  /\ MqttTypeOK /\ topics \in Seq(AllTopics) /\ qoses \in Seq(0..2)
  /\ lib \in Seq(LibRequest) /\ broker \subseteq AllTopics
  /\ mpc \in {"idle", "CON_ING", "SUB_ING", "DISCON_ING", "freed"}
  /\ online \in {"no", "yes", "lost"}
  /\ raced \in BOOLEAN /\ failed \in BOOLEAN /\ overlapped \in BOOLEAN
  /\ missed = FALSE

\* The request of a call is still unanswered, also between the request and the
\* assignment; any answer but that of a message changes the state or is a failure.
AnswerInv ==
  ~raced /\ ~failed =>
    \/ mpc = "idle" /\ state \notin {"CON_ING", "SUB_ING", "DISCON_ING"}
    \/ mpc = "freed"
    \/ \E k \in 1..Len(lib) : lib[k].op # "publish"

\* The library connects before it does anything else, and while it does no client
\* takes itself for subscribed.
ConnectInv ==
  /\ \A k \in 1..Len(lib) : lib[k].op = "connect" =>
       /\ k = 1 /\ online = "no"
       /\ \A j \in 1..Len(lib) : lib[j].op = "publish" => lib[j].arg = {}
  /\ state = "SUB_OK" => online # "no"
  /\ mpc = "freed" => lib = <<>>

\* There is one subscribe under way, for the topics of the client; SUB_OK means that
\* it was answered.
SubscribeInv ==
  ~overlapped =>
    /\ \A k \in Subscribing : lib[k].arg = ToSet(topics)
    /\ \A j, k \in Subscribing : j = k
    /\ state = "SUB_OK" /\ mpc = "idle" => Subscribing = {} /\ ToSet(topics) \subseteq broker

\* The messages that come before a disconnect are about topics the broker knows.
PublishInv ==
  ~overlapped /\ online # "no" =>
    \A k \in 1..Len(lib) :
      lib[k].op = "publish" /\ (\A j \in 1..k - 1 : lib[j].op # "disconnect")
        => lib[k].arg \subseteq broker

MqttInv == MqttTypes /\ AnswerInv /\ ConnectInv /\ SubscribeInv /\ PublishInv

\* What the library has after a request was queued.
LEMMA LibAppend ==
  ASSUME lib \in Seq(LibRequest), NEW r \in LibRequest, lib' = Append(lib, r)
  PROVE  /\ lib' \in Seq(LibRequest) /\ Len(lib) \in Nat /\ Len(lib') = Len(lib) + 1
         /\ \A k \in 1..Len(lib) : k \in 1..Len(lib') /\ lib'[k] = lib[k]
         /\ Len(lib) + 1 \in 1..Len(lib') /\ lib'[Len(lib) + 1] = r
         /\ \A k \in 1..Len(lib') : k = Len(lib) + 1 \/ k \in 1..Len(lib)
         /\ lib' # lib
<1>1. /\ lib' \in Seq(LibRequest) /\ Len(lib') = Len(lib) + 1 /\ Len(lib) \in Nat
      /\ \A k \in 1..Len(lib) : lib'[k] = lib[k]
      /\ lib'[Len(lib) + 1] = r
  OBVIOUS
<1>2. lib' # lib
  BY <1>1
<1>3. /\ \A k \in 1..Len(lib) : k \in 1..Len(lib')
      /\ Len(lib) + 1 \in 1..Len(lib')
      /\ \A k \in 1..Len(lib') : k = Len(lib) + 1 \/ k \in 1..Len(lib)
  BY <1>1
<1> QED BY <1>1, <1>2, <1>3

\* And after the first one was answered.
LEMMA LibTail ==
  ASSUME lib \in Seq(LibRequest), lib # <<>>, lib' = Tail(lib)
  PROVE  /\ lib' \in Seq(LibRequest) /\ Len(lib) \in Nat /\ 1 \in 1..Len(lib)
         /\ Len(lib') = Len(lib) - 1 /\ lib[1] = Head(lib) /\ Head(lib) \in LibRequest
         /\ \A k \in 1..Len(lib') : k + 1 \in 1..Len(lib) /\ lib'[k] = lib[k + 1] /\ k + 1 # 1
         /\ \A k \in 1..Len(lib) : k = 1 \/ (k - 1 \in 1..Len(lib') /\ lib'[k - 1] = lib[k])
<1>1. /\ lib' \in Seq(LibRequest) /\ Len(lib) \in Nat /\ Len(lib) # 0
      /\ Len(lib') = Len(lib) - 1 /\ lib[1] = Head(lib)
      /\ \A k \in 1..Len(lib) - 1 : lib'[k] = lib[k + 1]
  OBVIOUS
<1>2. 1 \in 1..Len(lib)
  BY <1>1
<1>3. lib[1] \in LibRequest
  BY <1>2
<1>4. ASSUME NEW k \in 1..Len(lib')
      PROVE  k + 1 \in 1..Len(lib) /\ lib'[k] = lib[k + 1] /\ k + 1 # 1
  BY <1>1
<1>5. ASSUME NEW k \in 1..Len(lib), k # 1
      PROVE  k - 1 \in 1..Len(lib') /\ lib'[k - 1] = lib[k]
  <2>1. k - 1 \in 1..Len(lib) - 1 /\ (k - 1) + 1 = k
    BY <1>1, <1>5
  <2> QED BY <2>1, <1>1
<1> QED BY <1>1, <1>2, <1>3, <1>4, <1>5

\* A list of topics is a sequence of topics.
LEMMA TopicListType ==
  ASSUME NEW t \in TopicLists
  PROVE  /\ t \in Seq(AllTopics) /\ ToSet(t) \subseteq AllTopics
         /\ \A k \in 1..Len(t) : t[k] \in ToSet(t)
<1>1. t \in Seq(ToSet(t)) /\ ToSet(t) \subseteq AllTopics
  BY TopicListsAssumption DEF AllTopics
<1>2. DOMAIN t = 1..Len(t)
  BY <1>1
<1>3. \A k \in 1..Len(t) : t[k] \in ToSet(t)
  BY <1>2 DEF ToSet
<1>4. t \in Seq(AllTopics)
  BY <1>1
<1> QED BY <1>1, <1>3, <1>4

\* Nothing is under way in the beginning.
LEMMA MqttStarts == MqttInit => MqttInv
<1> SUFFICES ASSUME MqttInit PROVE MqttInv
  OBVIOUS
<1>1. lib = <<>> /\ <<>> \in Seq(LibRequest) /\ topics = <<>> /\ <<>> \in Seq(AllTopics)
      /\ qoses = <<>> /\ <<>> \in Seq(0..2) /\ Len(<<>>) = 0 /\ 1..0 = {}
  BY DEF MqttInit
<1>2. MqttTypes
  <2>1. MqttTypeOK
    BY <1>1 DEF MqttInit, MqttTypeOK
  <2>2. /\ topics \in Seq(AllTopics) /\ qoses \in Seq(0..2) /\ lib \in Seq(LibRequest)
        /\ broker = {} /\ mpc = "idle" /\ online = "no" /\ raced = FALSE
        /\ failed = FALSE /\ overlapped = FALSE /\ missed = FALSE
    BY <1>1 DEF MqttInit
  <2> QED BY <2>1, <2>2 DEF MqttTypes
<1>3. Subscribing = {}
  BY <1>1 DEF Subscribing
<1> QED BY <1>1, <1>2, <1>3
        DEF MqttInit, MqttInv, AnswerInv, ConnectInv, SubscribeInv, PublishInv

\* Steps that leave the client and the requests as they are; what the broker knows
\* may change if that is noted.
LEMMA MqttQuiet ==
  ASSUME MqttInv, UNCHANGED <<client, lib, raced, failed, missed>>,
         online' \in {"no", "yes", "lost"}, online' = "no" <=> online = "no",
         broker' \subseteq AllTopics, overlapped' \in BOOLEAN, overlapped => overlapped',
         overlapped' \/ broker' = broker
  PROVE  MqttInv'
<1>1. UNCHANGED <<state, topics, qoses, mpc, lib, raced, failed, missed>>
  BY DEF client
<1>2. Subscribing' = Subscribing
  BY <1>1 DEF Subscribing
<1>3. MqttTypes'
  BY <1>1 DEF MqttInv, MqttTypes, MqttTypeOK
<1>4. AnswerInv' /\ ConnectInv'
  BY <1>1 DEF MqttInv, AnswerInv, ConnectInv
<1>5. SubscribeInv' /\ PublishInv'
  BY <1>1, <1>2 DEF MqttInv, SubscribeInv, PublishInv
<1> QED BY <1>3, <1>4, <1>5 DEF MqttInv

\* hp_mqtt_connect queues the first request, or fails.
LEMMA ConnectKeeps ==
  ASSUME MqttInv, hp_mqtt_connect
  PROVE  MqttInv'
<1>1. UNCHANGED <<online, broker, missed, cuts>> /\ mpc = "idle" /\ online = "no" /\ lib = <<>>
  BY DEF hp_mqtt_connect, MqttCalls
<1>2. CASE ConnectNotStarted
  BY <1>1, <1>2, MqttQuiet DEF ConnectNotStarted, MqttInv, MqttTypes
<1>3. CASE Request("connect", {}) /\ mpc' = "CON_ING" /\ UNCHANGED <<state, topics, qoses, overlapped>>
  <2> DEFINE r == [op |-> "connect", arg |-> {}]
  <2>1. r \in LibRequest /\ lib' = Append(lib, r) /\ lib \in Seq(LibRequest)
        /\ raced' = FALSE /\ failed' = FALSE /\ Len(lib) = 0
    BY <1>1, <1>3 DEF Request, LibRequest, MqttInv, MqttTypes
  <2>2. /\ lib' \in Seq(LibRequest) /\ Len(lib') = 1
        /\ lib'[1] = r /\ 1 \in 1..Len(lib') /\ \A k \in 1..Len(lib') : k = 1
    BY <2>1, LibAppend
  <2>3. MqttTypes'
    BY <2>1, <2>2, <1>1, <1>3 DEF MqttInv, MqttTypes, MqttTypeOK
  <2>4. AnswerInv' /\ ConnectInv'
    BY <2>2, <1>1, <1>3 DEF MqttInv, AnswerInv, ConnectInv
  <2>5. Subscribing' = {}
    BY <2>2 DEF Subscribing
  <2>6. SubscribeInv' /\ PublishInv'
    BY <2>5, <1>1, <1>3 DEF SubscribeInv, PublishInv
  <2> QED BY <2>3, <2>4, <2>6 DEF MqttInv
<1> QED BY <1>2, <1>3 DEF hp_mqtt_connect

\* The assignment after the call.
LEMMA StoredKeeps ==
  ASSUME MqttInv, StateStored
  PROVE  MqttInv'
<1>1. /\ mpc \in {"CON_ING", "SUB_ING", "DISCON_ING"} /\ state' = mpc /\ mpc' = "idle"
      /\ UNCHANGED <<topics, qoses, lib, online, broker, raced, failed, overlapped, missed>>
  BY DEF StateStored, MqttInv, MqttTypes, answers
<1>2. Subscribing' = Subscribing
  BY <1>1 DEF Subscribing
<1>3. MqttTypes'
  BY <1>1 DEF MqttInv, MqttTypes, MqttTypeOK
<1>4. AnswerInv' /\ ConnectInv'
  BY <1>1 DEF MqttInv, AnswerInv, ConnectInv
<1>5. SubscribeInv' /\ PublishInv'
  BY <1>1, <1>2 DEF MqttInv, SubscribeInv, PublishInv
<1> QED BY <1>3, <1>4, <1>5 DEF MqttInv

\* The qoses are only ever appended to, as many as there are topics.
LEMMA UpdateTopicsType ==
  ASSUME MqttTypes, NEW t \in TopicLists, NEW q, UpdateTopics(t, q)
  PROVE  /\ topics' = t /\ topics' \in Seq(AllTopics)
         /\ qoses' \in Seq(0..2) /\ Len(qoses') >= Len(topics')
<1> DEFINE new == [k \in 1..Len(t) |-> ValidQos(q)]
<1>1. topics' = t /\ qoses' = qoses \o new
  BY DEF UpdateTopics
<1>2. t \in Seq(AllTopics) /\ Len(t) \in Nat
  BY TopicListType
<1>3. ValidQos(q) \in 0..2
  BY DEF ValidQos
<1>4. new \in Seq(0..2) /\ Len(new) = Len(t)
  BY <1>2, <1>3
<1>5. qoses \in Seq(0..2) /\ Len(qoses) \in Nat
  BY DEF MqttTypes
<1> HIDE DEF new
<1>6. qoses \o new \in Seq(0..2) /\ Len(qoses \o new) = Len(qoses) + Len(new)
  BY <1>4, <1>5
<1> QED BY <1>1, <1>2, <1>4, <1>5, <1>6

\* hp_mqtt_sub: with other topics, it is the only subscribe under way or the overlap
\* is noted.
LEMMA SubKeeps ==
  ASSUME MqttInv, NEW t \in TopicLists, NEW q, hp_mqtt_sub(t, q)
  PROVE  MqttInv'
<1>1. UNCHANGED <<online, broker, missed, cuts>> /\ mpc = "idle" /\ overlapped \in BOOLEAN
      /\ online \in {"no", "yes", "lost"} /\ broker \subseteq AllTopics
  BY DEF hp_mqtt_sub, MqttCalls, MqttInv, MqttTypes
<1>2. CASE SameTopics(t)
  <2>1. UNCHANGED <<client, lib, raced, failed, overlapped>>
    BY <1>2 DEF hp_mqtt_sub
  <2> QED BY <2>1, <1>1, MqttQuiet
<1>3. CASE ~SameTopics(t)
  <2>1. /\ UpdateTopics(t, q) /\ hp_mqtt_do_sub(t)
        /\ overlapped' = (overlapped \/ Subscribing # {} \/ lib' = lib)
        /\ state' = state
    BY <1>3 DEF hp_mqtt_sub
  <2>2. /\ topics' = t /\ topics' \in Seq(AllTopics)
        /\ qoses' \in Seq(0..2) /\ Len(qoses') >= Len(topics')
    BY <2>1, UpdateTopicsType DEF MqttInv
  <2>3. overlapped' \in BOOLEAN
    <3>1. (overlapped \/ Subscribing # {} \/ lib' = lib) \in BOOLEAN
      OBVIOUS
    <3> QED BY <3>1, <2>1, Zenon
  <2>4. ~overlapped' => ~overlapped /\ Subscribing = {} /\ lib' # lib
    BY <2>1, Zenon
  <2>5. MqttTypeOK'
    <3>1. qoses' \in Seq(0..2)
      BY <2>2
    <3>2. \A k \in 1..Len(qoses') : qoses'[k] \in 0..2
      BY <3>1
    <3> QED BY <3>2, <2>1, <2>2 DEF MqttInv, MqttTypes, MqttTypeOK
  <2>6. CASE UNCHANGED <<lib, raced, failed, mpc>>
    <3>1. MqttTypes'
      BY <2>2, <2>3, <2>5, <2>6, <1>1 DEF MqttInv, MqttTypes
    <3>2. AnswerInv' /\ ConnectInv'
      BY <2>1, <2>6, <1>1 DEF MqttInv, AnswerInv, ConnectInv
    <3>3. SubscribeInv' /\ PublishInv'
      BY <2>4, <2>6 DEF SubscribeInv, PublishInv
    <3> QED BY <3>1, <3>2, <3>3 DEF MqttInv
  <2>7. CASE Request("subscribe", ToSet(t)) /\ mpc' = "SUB_ING"
    <3> DEFINE r == [op |-> "subscribe", arg |-> ToSet(t)]
    <3>1. r \in LibRequest /\ lib' = Append(lib, r) /\ lib \in Seq(LibRequest)
          /\ raced' = FALSE /\ failed' = FALSE
      BY <2>7, TopicListType DEF Request, LibRequest, MqttInv, MqttTypes
    <3>2. /\ lib' \in Seq(LibRequest) /\ Len(lib) \in Nat /\ Len(lib') = Len(lib) + 1
          /\ \A k \in 1..Len(lib) : k \in 1..Len(lib') /\ lib'[k] = lib[k]
          /\ Len(lib) + 1 \in 1..Len(lib') /\ lib'[Len(lib) + 1] = r
          /\ \A k \in 1..Len(lib') : k = Len(lib) + 1 \/ k \in 1..Len(lib)
      BY <3>1, LibAppend
    <3>3. r.op = "subscribe" /\ r.arg = ToSet(t)
      OBVIOUS
    <3> HIDE DEF r
    <3>4. MqttTypes'
      BY <3>1, <3>2, <2>2, <2>3, <2>5, <2>7, <1>1 DEF MqttInv, MqttTypes
    <3>5. AnswerInv'
      BY <3>2, <3>3 DEF AnswerInv
    <3>6. ConnectInv'
      BY <3>2, <3>3, <2>1, <2>7, <1>1 DEF MqttInv, ConnectInv
    <3>7. ~overlapped' => Subscribing' = {Len(lib) + 1}
      BY <3>2, <3>3, <2>4 DEF Subscribing
    <3>8. SubscribeInv'
      BY <3>7, <3>2, <3>3, <2>2, <2>7 DEF SubscribeInv
    <3>9. PublishInv'
      <4> SUFFICES ASSUME ~overlapped', online' # "no", NEW k \in 1..Len(lib'),
                          lib'[k].op = "publish",
                          \A j \in 1..k - 1 : lib'[j].op # "disconnect"
                   PROVE  lib'[k].arg \subseteq broker'
        BY DEF PublishInv
      <4>1. k \in 1..Len(lib) /\ lib'[k] = lib[k]
        BY <3>2, <3>3
      <4>2. \A j \in 1..k - 1 : lib[j].op # "disconnect"
        <5>1. \A j \in 1..k - 1 : j \in 1..Len(lib)
          BY <4>1, <3>2
        <5> QED BY <5>1, <3>2
      <4> QED BY <4>1, <4>2, <2>4, <1>1 DEF MqttInv, PublishInv
    <3> QED BY <3>4, <3>5, <3>6, <3>8, <3>9 DEF MqttInv
  <2> QED BY <2>1, <2>6, <2>7 DEF hp_mqtt_do_sub
<1> QED BY <1>2, <1>3

\* hp_mqtt_pub: if the client takes itself for subscribed, the broker knows the topic.
LEMMA PubKeeps ==
  ASSUME MqttInv, NEW n \in 1..Len(topics), hp_mqtt_pub(topics[n])
  PROVE  MqttInv'
<1>1. /\ UNCHANGED <<online, broker, missed, cuts>> /\ mpc = "idle"
      /\ UNCHANGED <<client, raced, failed, overlapped>>
      /\ online \in {"no", "yes", "lost"} /\ broker \subseteq AllTopics
      /\ overlapped \in BOOLEAN
  BY DEF hp_mqtt_pub, MqttCalls, MqttInv, MqttTypes
<1>2. CASE lib' = lib
  BY <1>1, <1>2, MqttQuiet
<1>3. CASE lib' # lib
  <2> DEFINE sure == state = "SUB_OK" /\ ~overlapped
             r == [op |-> "publish", arg |-> IF sure THEN {topics[n]} ELSE {}]
  <2>1. lib' = Append(lib, r) /\ lib \in Seq(LibRequest)
    BY <1>3 DEF hp_mqtt_pub, MqttInv, MqttTypes
  <2>2. topics[n] \in AllTopics /\ topics[n] \in ToSet(topics)
    <3>1. topics \in Seq(AllTopics) /\ DOMAIN topics = 1..Len(topics)
      BY DEF MqttInv, MqttTypes
    <3> QED BY <3>1 DEF ToSet
  <2>3. /\ r \in LibRequest /\ r.op = "publish"
        /\ r.arg = IF sure THEN {topics[n]} ELSE {}
    BY <2>2 DEF LibRequest
  <2>4. sure => r.arg \subseteq broker /\ online # "no"
    BY <2>2, <2>3, <1>1 DEF MqttInv, SubscribeInv, ConnectInv
  <2>u. ~sure => r.arg = {}
    BY <2>3
  <2> HIDE DEF r, sure
  <2>5. /\ lib' \in Seq(LibRequest) /\ Len(lib) \in Nat /\ Len(lib') = Len(lib) + 1
        /\ \A k \in 1..Len(lib) : k \in 1..Len(lib') /\ lib'[k] = lib[k]
        /\ Len(lib) + 1 \in 1..Len(lib') /\ lib'[Len(lib) + 1] = r
        /\ \A k \in 1..Len(lib') : k = Len(lib) + 1 \/ k \in 1..Len(lib)
    BY <2>1, <2>3, LibAppend
  <2>6. UNCHANGED <<state, topics, qoses, mpc, raced, failed, overlapped, missed, online, broker>>
    BY <1>1 DEF client
  <2>7. MqttTypes'
    BY <2>5, <2>6 DEF MqttInv, MqttTypes, MqttTypeOK
  <2>8. AnswerInv'
    BY <2>5, <2>6 DEF MqttInv, AnswerInv
  <2>9. ConnectInv'
    <3>1. ASSUME NEW k \in 1..Len(lib'), lib'[k].op = "connect"
          PROVE  /\ k = 1 /\ online = "no"
                 /\ \A j \in 1..Len(lib') : lib'[j].op = "publish" => lib'[j].arg = {}
      <4>1. k \in 1..Len(lib) /\ lib[k].op = "connect"
        BY <3>1, <2>5, <2>3
      <4>2. /\ k = 1 /\ online = "no"
            /\ \A j \in 1..Len(lib) : lib[j].op = "publish" => lib[j].arg = {}
        BY <4>1 DEF MqttInv, ConnectInv
      <4>3. r.arg = {}
        BY <4>2, <2>4, <2>u
      <4> QED BY <4>2, <4>3, <2>5
    <3> QED BY <3>1, <2>6, <1>1 DEF MqttInv, ConnectInv
  <2>10. Subscribing' = Subscribing /\ \A k \in Subscribing : lib'[k] = lib[k]
    BY <2>3, <2>5 DEF Subscribing
  <2>11. SubscribeInv'
    BY <2>6, <2>10 DEF MqttInv, SubscribeInv
  <2>12. PublishInv'
    <3> SUFFICES ASSUME ~overlapped, online # "no", NEW k \in 1..Len(lib'),
                        lib'[k].op = "publish",
                        \A j \in 1..k - 1 : lib'[j].op # "disconnect"
                 PROVE  lib'[k].arg \subseteq broker
      BY <2>6 DEF PublishInv
    <3>1. CASE k = Len(lib) + 1
      BY <3>1, <2>4, <2>5, <2>u
    <3>2. CASE k \in 1..Len(lib)
      <4>1. lib'[k] = lib[k]
        BY <3>2, <2>5
      <4>2. \A j \in 1..k - 1 : lib[j].op # "disconnect"
        <5>1. \A j \in 1..k - 1 : j \in 1..Len(lib)
          BY <3>2, <2>5
        <5> QED BY <5>1, <2>5
      <4> QED BY <3>2, <4>1, <4>2 DEF MqttInv, PublishInv
    <3> QED BY <3>1, <3>2, <2>5
  <2> QED BY <2>7, <2>8, <2>9, <2>11, <2>12 DEF MqttInv
<1> QED BY <1>2, <1>3

\* hp_mqtt_disconnect queues a request, or there is no connection.
LEMMA DisconnectKeeps ==
  ASSUME MqttInv, hp_mqtt_disconnect
  PROVE  MqttInv'
<1>1. UNCHANGED <<online, broker, missed, topics, qoses, overlapped>> /\ mpc = "idle"
  BY DEF hp_mqtt_disconnect, MqttCalls
<1>2. CASE online = "no"
  <2>1. state' = "0" /\ UNCHANGED <<lib, raced, failed, mpc>>
    BY <1>2 DEF hp_mqtt_disconnect
  <2>2. Subscribing' = Subscribing
    BY <2>1 DEF Subscribing
  <2>3. MqttTypes'
    BY <2>1, <1>1 DEF MqttInv, MqttTypes, MqttTypeOK
  <2>4. AnswerInv' /\ ConnectInv'
    BY <2>1, <1>1 DEF MqttInv, AnswerInv, ConnectInv
  <2>5. SubscribeInv' /\ PublishInv'
    BY <2>1, <2>2, <1>1 DEF MqttInv, SubscribeInv, PublishInv
  <2> QED BY <2>3, <2>4, <2>5 DEF MqttInv
<1>3. CASE online # "no"
  <2> DEFINE r == [op |-> "disconnect", arg |-> {}]
  <2>1. /\ r \in LibRequest /\ lib' = Append(lib, r) /\ lib \in Seq(LibRequest)
        /\ raced' = FALSE /\ failed' = FALSE /\ mpc' = "DISCON_ING" /\ state' = state
        /\ r.op = "disconnect"
    BY <1>3 DEF hp_mqtt_disconnect, Request, LibRequest, MqttInv, MqttTypes
  <2> HIDE DEF r
  <2>2. /\ lib' \in Seq(LibRequest) /\ Len(lib) \in Nat /\ Len(lib') = Len(lib) + 1
        /\ \A k \in 1..Len(lib) : k \in 1..Len(lib') /\ lib'[k] = lib[k]
        /\ Len(lib) + 1 \in 1..Len(lib') /\ lib'[Len(lib) + 1] = r
        /\ \A k \in 1..Len(lib') : k = Len(lib) + 1 \/ k \in 1..Len(lib)
    BY <2>1, LibAppend
  <2>3. MqttTypes'
    BY <2>1, <2>2, <1>1 DEF MqttInv, MqttTypes, MqttTypeOK
  <2>4. AnswerInv' /\ ConnectInv'
    BY <2>1, <2>2, <1>1 DEF MqttInv, AnswerInv, ConnectInv
  <2>5. Subscribing' = Subscribing /\ \A k \in Subscribing : lib'[k] = lib[k]
    BY <2>1, <2>2 DEF Subscribing
  <2>6. SubscribeInv'
    BY <2>1, <2>5, <1>1 DEF MqttInv, SubscribeInv
  <2>7. PublishInv'
    <3> SUFFICES ASSUME ~overlapped, NEW k \in 1..Len(lib'),
                        lib'[k].op = "publish",
                        \A j \in 1..k - 1 : lib'[j].op # "disconnect"
                 PROVE  lib'[k].arg \subseteq broker
      BY <1>1 DEF PublishInv
    <3>1. k \in 1..Len(lib) /\ lib'[k] = lib[k]
      BY <2>1, <2>2
    <3>2. \A j \in 1..k - 1 : lib[j].op # "disconnect"
      <4>1. \A j \in 1..k - 1 : j \in 1..Len(lib)
        BY <3>1, <2>2
      <4> QED BY <4>1, <2>2
    <3> QED BY <3>1, <3>2, <1>3 DEF MqttInv, PublishInv
  <2> QED BY <2>3, <2>4, <2>6, <2>7 DEF MqttInv
<1> QED BY <1>2, <1>3

\* hp_mqtt_uninit: nothing is left.
LEMMA UninitKeeps ==
  ASSUME MqttInv, hp_mqtt_uninit
  PROVE  MqttInv'
<1>1. /\ mpc' = "freed" /\ lib' = <<>> /\ topics' = <<>> /\ qoses' = <<>> /\ state' = "0"
      /\ online' = "no" /\ UNCHANGED <<broker, raced, failed, overlapped, missed>>
  BY DEF hp_mqtt_uninit, answers
<1>2. /\ <<>> \in Seq(LibRequest) /\ <<>> \in Seq(AllTopics) /\ <<>> \in Seq(0..2)
      /\ Len(<<>>) = 0 /\ 1..0 = {}
  OBVIOUS
<1>3. MqttTypeOK'
  BY <1>1, <1>2 DEF MqttTypeOK
<1>4. MqttTypes'
  BY <1>1, <1>2, <1>3 DEF MqttInv, MqttTypes
<1>5. Subscribing' = {}
  BY <1>1, <1>2 DEF Subscribing
<1> QED BY <1>1, <1>2, <1>4, <1>5
        DEF MqttInv, AnswerInv, ConnectInv, SubscribeInv, PublishInv

\* What an answer leaves: the other requests, in their order.
LEMMA AnswerFacts ==
  ASSUME MqttInv, NEW op \in {"connect", "subscribe", "publish", "disconnect"}, Answer(op)
  PROVE  /\ lib' \in Seq(LibRequest) /\ 1 \in 1..Len(lib) /\ lib[1] = Head(lib)
         /\ Head(lib).op = op /\ Head(lib) \in LibRequest /\ Len(lib) \in Nat /\ Len(lib') \in Nat
         /\ \A k \in 1..Len(lib') : k + 1 \in 1..Len(lib) /\ lib'[k] = lib[k + 1] /\ k + 1 # 1
         /\ \A k \in 1..Len(lib) : k = 1 \/ (k - 1 \in 1..Len(lib') /\ lib'[k - 1] = lib[k])
         /\ mpc # "freed" /\ UNCHANGED <<topics, qoses, mpc, overlapped>>
         /\ \A k \in 1..Len(lib') : lib'[k].op # "connect"
         /\ \A k \in Subscribing' : k + 1 \in Subscribing /\ lib'[k] = lib[k + 1] /\ k \in Nat
         /\ op = "subscribe" => 1 \in Subscribing
<1>1. /\ lib # <<>> /\ Head(lib).op = op /\ lib' = Tail(lib) /\ lib \in Seq(LibRequest)
      /\ UNCHANGED <<topics, qoses, mpc, overlapped>>
  BY DEF Answer, MqttInv, MqttTypes
<1>2. /\ lib' \in Seq(LibRequest) /\ Len(lib) \in Nat /\ 1 \in 1..Len(lib)
      /\ Len(lib') = Len(lib) - 1 /\ lib[1] = Head(lib) /\ Head(lib) \in LibRequest
      /\ \A k \in 1..Len(lib') : k + 1 \in 1..Len(lib) /\ lib'[k] = lib[k + 1] /\ k + 1 # 1
      /\ \A k \in 1..Len(lib) : k = 1 \/ (k - 1 \in 1..Len(lib') /\ lib'[k - 1] = lib[k])
  BY <1>1, LibTail
<1>3. mpc # "freed"
  BY <1>1 DEF MqttInv, ConnectInv
<1>4. \A k \in 1..Len(lib') : lib'[k].op # "connect"
  BY <1>2 DEF MqttInv, ConnectInv
<1>5. /\ \A k \in Subscribing' : k + 1 \in Subscribing /\ lib'[k] = lib[k + 1] /\ k \in Nat
      /\ op = "subscribe" => 1 \in Subscribing
  BY <1>1, <1>2 DEF Subscribing
<1>6. Len(lib') \in Nat
  BY <1>2
<1> QED BY <1>1, <1>2, <1>3, <1>4, <1>5, <1>6

\* The messages that are not behind a disconnect were not before the answer either,
\* unless it is that of a disconnect.
LEMMA AnswerPublish ==
  ASSUME MqttInv, NEW op \in {"connect", "subscribe", "publish", "disconnect"}, Answer(op),
         op # "disconnect", NEW k \in 1..Len(lib'), lib'[k].op = "publish",
         \A j \in 1..k - 1 : lib'[j].op # "disconnect",
         ~overlapped, online # "no"
  PROVE  lib'[k].arg \subseteq broker
<1>1. /\ 1 \in 1..Len(lib) /\ lib[1].op = op /\ Len(lib) \in Nat /\ Len(lib') \in Nat
      /\ \A m \in 1..Len(lib') : m + 1 \in 1..Len(lib) /\ lib'[m] = lib[m + 1]
      /\ \A m \in 1..Len(lib) : m = 1 \/ (m - 1 \in 1..Len(lib') /\ lib'[m - 1] = lib[m])
  BY AnswerFacts
<1>2. ASSUME NEW j \in 1..(k + 1) - 1
      PROVE  lib[j].op # "disconnect"
  <2>1. CASE j = 1
    BY <2>1, <1>1
  <2>2. CASE j # 1
    <3>1. j \in 1..Len(lib) /\ j - 1 \in 1..k - 1
      BY <2>2, <1>1
    <3> QED BY <3>1, <2>2, <1>1
  <2> QED BY <2>1, <2>2
<1>3. k + 1 \in 1..Len(lib) /\ lib'[k] = lib[k + 1]
  BY <1>1
<1> QED BY <1>2, <1>3 DEF MqttInv, PublishInv

\* The answer of a connect.
LEMMA OnConnectKeeps ==
  ASSUME MqttInv, onConnect \/ onConnectFailure
  PROVE  MqttInv'
<1>1. Answer("connect")
  BY DEF onConnect, onConnectFailure
<1>2. /\ UNCHANGED <<broker, missed>>
      /\ online' \in {"no", "yes", "lost"} /\ raced' \in BOOLEAN /\ failed' \in BOOLEAN
      /\ \/ /\ state' = "CON_OK" /\ online' = "yes" /\ raced' = (mpc # "idle")
         \/ /\ failed' = TRUE /\ state' = state /\ online' = online
  <2>1. (mpc # "idle") \in BOOLEAN
    OBVIOUS
  <2>2. CASE onConnect
    <3>1. raced' \in BOOLEAN
      BY <2>1, <2>2, Zenon DEF onConnect, SetState
    <3> QED BY <3>1, <2>2 DEF onConnect, SetState, MqttInv, MqttTypes
  <2>3. CASE onConnectFailure
    BY <2>3 DEF onConnectFailure, MqttInv, MqttTypes
  <2> QED BY <2>2, <2>3
<1>3. /\ lib' \in Seq(LibRequest) /\ 1 \in 1..Len(lib) /\ lib[1].op = "connect"
      /\ \A k \in 1..Len(lib') : k + 1 \in 1..Len(lib) /\ lib'[k] = lib[k + 1]
      /\ mpc # "freed" /\ UNCHANGED <<topics, qoses, mpc, overlapped>>
      /\ \A k \in 1..Len(lib') : lib'[k].op # "connect"
      /\ \A k \in Subscribing' : k + 1 \in Subscribing /\ lib'[k] = lib[k + 1] /\ k \in Nat
  BY <1>1, AnswerFacts
<1>4. /\ online = "no" /\ state # "SUB_OK"
      /\ \A j \in 1..Len(lib) : lib[j].op = "publish" => lib[j].arg = {}
  BY <1>3 DEF MqttInv, ConnectInv
<1>5. MqttTypes'
  BY <1>2, <1>3 DEF MqttInv, MqttTypes, MqttTypeOK
<1>6. AnswerInv' /\ ConnectInv'
  BY <1>2, <1>3, <1>4 DEF AnswerInv, ConnectInv
<1>7. SubscribeInv'
  BY <1>2, <1>3, <1>4 DEF MqttInv, SubscribeInv
<1>8. PublishInv'
  BY <1>3, <1>4 DEF PublishInv
<1> QED BY <1>5, <1>6, <1>7, <1>8 DEF MqttInv

\* The answer of a subscribe.
LEMMA OnSubscribeKeeps ==
  ASSUME MqttInv, onSubscribe
  PROVE  MqttInv'
<1>1. Answer("subscribe") /\ online = "yes" /\ UNCHANGED <<online, missed>>
  BY DEF onSubscribe
<1>2. /\ lib' \in Seq(LibRequest) /\ 1 \in 1..Len(lib) /\ lib[1].op = "subscribe"
      /\ Head(lib) = lib[1] /\ lib[1] \in LibRequest
      /\ \A k \in 1..Len(lib') : k + 1 \in 1..Len(lib) /\ lib'[k] = lib[k + 1]
      /\ mpc # "freed" /\ UNCHANGED <<topics, qoses, mpc, overlapped>>
      /\ \A k \in 1..Len(lib') : lib'[k].op # "connect"
      /\ \A k \in Subscribing' : k + 1 \in Subscribing /\ lib'[k] = lib[k + 1] /\ k \in Nat
      /\ 1 \in Subscribing
  BY <1>1, AnswerFacts
<1>3. /\ raced' \in BOOLEAN /\ failed' \in BOOLEAN
      /\ \/ /\ state' = "SUB_OK" /\ broker' = broker \cup lib[1].arg
            /\ raced' = (mpc # "idle") /\ failed' = failed
         \/ failed' = TRUE /\ UNCHANGED <<state, broker>>
  <2>1. (mpc # "idle") \in BOOLEAN
    OBVIOUS
  <2>2. CASE onSubscribeFailure
    BY <2>2 DEF onSubscribeFailure, MqttInv, MqttTypes
  <2>3. CASE broker' = broker \cup Head(lib).arg /\ SetState("SUB_OK") /\ UNCHANGED failed
    <3>1. raced' \in BOOLEAN
      BY <2>1, <2>3, Zenon DEF SetState
    <3> QED BY <3>1, <2>3, <1>2 DEF SetState, MqttInv, MqttTypes
  <2> QED BY <2>2, <2>3 DEF onSubscribe
<1>4. broker \subseteq broker' /\ broker' \subseteq AllTopics
  BY <1>2, <1>3 DEF MqttInv, MqttTypes, LibRequest
<1>5. MqttTypes'
  BY <1>1, <1>2, <1>3, <1>4 DEF MqttInv, MqttTypes, MqttTypeOK
<1>6. AnswerInv' /\ ConnectInv'
  BY <1>1, <1>2, <1>3 DEF AnswerInv, ConnectInv
<1>7. SubscribeInv'
  <2> SUFFICES ASSUME ~overlapped
               PROVE  Subscribing' = {}
                      /\ (state' = "SUB_OK" /\ mpc' = "idle" => ToSet(topics) \subseteq broker')
    BY <1>2 DEF SubscribeInv
  <2>1. /\ lib[1].arg = ToSet(topics) /\ \A j \in Subscribing : j = 1
        /\ (state = "SUB_OK" /\ mpc = "idle" => ToSet(topics) \subseteq broker)
    BY <1>2 DEF MqttInv, SubscribeInv
  <2>2. Subscribing' = {}
    <3>1. \A k \in Subscribing' : k + 1 # 1
      BY <1>1, AnswerFacts DEF Subscribing
    <3> QED BY <3>1, <2>1, <1>2
  <2> QED BY <2>1, <2>2, <1>2, <1>3, <1>4
<1>8. PublishInv'
  BY <1>1, <1>2, <1>4, AnswerPublish DEF PublishInv
<1> QED BY <1>5, <1>6, <1>7, <1>8 DEF MqttInv

\* A message comes back, if its topic is one the broker knows.
LEMMA MessageKeeps ==
  ASSUME MqttInv, messageArrived
  PROVE  MqttInv'
<1>1. /\ Answer("publish") /\ online = "yes"
      /\ UNCHANGED <<state, online, broker, raced, failed>>
      /\ missed' = (missed \/ ~(overlapped \/ Head(lib).arg \subseteq broker))
  BY DEF messageArrived
<1>2. /\ lib' \in Seq(LibRequest) /\ 1 \in 1..Len(lib) /\ lib[1].op = "publish"
      /\ Head(lib) = lib[1]
      /\ \A k \in 1..Len(lib') : k + 1 \in 1..Len(lib) /\ lib'[k] = lib[k + 1]
      /\ \A k \in 1..Len(lib) : k = 1 \/ (k - 1 \in 1..Len(lib') /\ lib'[k - 1] = lib[k])
      /\ mpc # "freed" /\ UNCHANGED <<topics, qoses, mpc, overlapped>>
      /\ \A k \in 1..Len(lib') : lib'[k].op # "connect"
      /\ \A k \in Subscribing' : k + 1 \in Subscribing /\ lib'[k] = lib[k + 1] /\ k \in Nat
  BY <1>1, AnswerFacts
<1>3. missed' = FALSE
  <2>1. overlapped \/ lib[1].arg \subseteq broker
    <3>1. \A j \in 1..1 - 1 : lib[j].op # "disconnect"
      OBVIOUS
    <3> QED BY <3>1, <1>1, <1>2 DEF MqttInv, PublishInv
  <2>2. missed = FALSE /\ overlapped \in BOOLEAN
    BY DEF MqttInv, MqttTypes
  <2> QED BY <2>1, <2>2, <1>1, <1>2, Zenon
<1>4. MqttTypes'
  BY <1>1, <1>2, <1>3 DEF MqttInv, MqttTypes, MqttTypeOK
<1>5. AnswerInv'
  <2> SUFFICES ASSUME ~raced, ~failed,
                      mpc # "idle" \/ state \in {"CON_ING", "SUB_ING", "DISCON_ING"}
               PROVE  \E k \in 1..Len(lib') : lib'[k].op # "publish"
    BY <1>1, <1>2 DEF AnswerInv
  <2>1. PICK k \in 1..Len(lib) : lib[k].op # "publish"
    BY <1>2 DEF MqttInv, AnswerInv
  <2>2. k - 1 \in 1..Len(lib') /\ lib'[k - 1] = lib[k]
    BY <2>1, <1>2
  <2> QED BY <2>1, <2>2
<1>6. ConnectInv'
  BY <1>1, <1>2 DEF MqttInv, ConnectInv
<1>7. SubscribeInv'
  BY <1>1, <1>2 DEF MqttInv, SubscribeInv
<1>8. PublishInv'
  BY <1>1, <1>2, AnswerPublish DEF PublishInv
<1> QED BY <1>4, <1>5, <1>6, <1>7, <1>8 DEF MqttInv

\* The answer of a disconnect.
LEMMA OnDisconnectKeeps ==
  ASSUME MqttInv, onDisconnect
  PROVE  MqttInv'
<1>1. /\ Answer("disconnect") /\ online' = "no" /\ state' = "0" /\ raced' = (mpc # "idle")
      /\ broker' \in {broker, {}} /\ UNCHANGED <<failed, missed>>
  BY DEF onDisconnect, SetState
<1>2. /\ lib' \in Seq(LibRequest)
      /\ \A k \in 1..Len(lib') : k + 1 \in 1..Len(lib) /\ lib'[k] = lib[k + 1]
      /\ mpc # "freed" /\ UNCHANGED <<topics, qoses, mpc, overlapped>>
      /\ \A k \in 1..Len(lib') : lib'[k].op # "connect"
      /\ \A k \in Subscribing' : k + 1 \in Subscribing /\ lib'[k] = lib[k + 1] /\ k \in Nat
  BY <1>1, AnswerFacts
<1>3. raced' \in BOOLEAN
  <2>1. (mpc # "idle") \in BOOLEAN
    OBVIOUS
  <2> QED BY <2>1, <1>1, Zenon
<1>4. MqttTypes'
  BY <1>1, <1>2, <1>3 DEF MqttInv, MqttTypes, MqttTypeOK
<1>5. AnswerInv' /\ ConnectInv' /\ PublishInv'
  BY <1>1, <1>2 DEF AnswerInv, ConnectInv, PublishInv
<1>6. SubscribeInv'
  BY <1>1, <1>2 DEF MqttInv, SubscribeInv
<1> QED BY <1>4, <1>5, <1>6 DEF MqttInv

\* Cut and reconnected: what the broker forgot is noted.
LEMMA ConnectionChanges ==
  ASSUME MqttInv, Cut \/ onConnected
  PROVE  MqttInv'
<1>1. online # "no" /\ online' \in {"yes", "lost"} /\ UNCHANGED <<client, lib, raced, failed, missed>>
  BY DEF Cut, onConnected, answers
<1>2. /\ broker' \subseteq AllTopics /\ overlapped' \in BOOLEAN
      /\ (overlapped => overlapped') /\ (overlapped' \/ broker' = broker)
  <2>1. overlapped \in BOOLEAN /\ broker \subseteq AllTopics
    BY DEF MqttInv, MqttTypes
  <2>2. CASE Cut
    BY <2>1, <2>2 DEF Cut, answers
  <2>3. CASE onConnected
    <3>1. broker' \in {broker, {}} /\ overlapped' = (overlapped \/ broker' # broker)
      BY <2>3 DEF onConnected
    <3>2. (overlapped \/ broker' # broker) \in BOOLEAN
      OBVIOUS
    <3>3. overlapped' \in BOOLEAN
      BY <3>1, <3>2, Zenon
    <3> QED BY <3>1, <3>3, <2>1
  <2> QED BY <2>2, <2>3
<1> QED BY <1>1, <1>2, MqttQuiet

\* While the program polls an "..._ING" the answer is still to come, and SUB_OK means
\* that the broker sends what is published, although two threads set cli->state.
THEOREM MqttIsSound == MqttSpec => []MqttSound
<1>1. MqttInv /\ [MqttNext]_mqttVars => MqttInv'
  <2> SUFFICES ASSUME MqttInv, [MqttNext]_mqttVars PROVE MqttInv'
    OBVIOUS
  <2>1. CASE hp_mqtt_connect
    BY <2>1, ConnectKeeps
  <2>2. CASE StateStored
    BY <2>2, StoredKeeps
  <2>3. CASE hp_mqtt_disconnect
    BY <2>3, DisconnectKeeps
  <2>4. CASE hp_mqtt_uninit
    BY <2>4, UninitKeeps
  <2>5. ASSUME NEW t \in TopicLists, NEW q \in QosArgs, hp_mqtt_sub(t, q)
        PROVE  MqttInv'
    BY <2>5, SubKeeps
  <2>6. ASSUME NEW k \in 1..Len(topics), hp_mqtt_pub(topics[k])
        PROVE  MqttInv'
    BY <2>6, PubKeeps
  <2>7. CASE Callback
    BY <2>7, OnConnectKeeps, OnSubscribeKeeps, MessageKeeps, OnDisconnectKeeps DEF Callback
  <2>8. CASE Cut \/ onConnected
    BY <2>8, ConnectionChanges
  <2>9. CASE UNCHANGED mqttVars
    <3>1. UNCHANGED <<client, lib, raced, failed, missed, online, broker, overlapped>>
      BY <2>9 DEF mqttVars, client
    <3> QED BY <3>1, MqttQuiet DEF MqttInv, MqttTypes
  <2> QED BY <2>1, <2>2, <2>3, <2>4, <2>5, <2>6, <2>7, <2>8, <2>9 DEF MqttNext
<1>2. MqttInv => MqttSound
  <2> SUFFICES ASSUME MqttInv PROVE MqttSound
    OBVIOUS
  <2>1. WaitsForAnswer
    <3> SUFFICES ASSUME state \in {"CON_ING", "SUB_ING", "DISCON_ING"}, mpc = "idle",
                        ~raced, ~failed
                 PROVE  lib # <<>>
      BY DEF WaitsForAnswer
    <3>1. PICK k \in 1..Len(lib) : lib[k].op # "publish"
      BY DEF MqttInv, AnswerInv
    <3>2. Len(<<>>) = 0 /\ 1..0 = {}
      OBVIOUS
    <3> QED BY <3>1, <3>2
  <2> QED BY <2>1 DEF MqttInv, MqttTypes, MqttSound, SubscribedMeansDelivered
<1> QED BY <1>1, <1>2, MqttStarts, PTL DEF MqttSpec

-----------------------------------------------------------------------------
(* HpMsg *)

\* f solves the recursion of UnpackableOf(fs) up to k.
UnpackRec(fs, f, k) ==
  f = [n \in 0..k |-> IF n = 0 THEN <<>>
                      ELSE IF fs[n].z THEN f[n - 1] ELSE Append(f[n - 1], n)]

\* The recursion has a solution.
LEMMA UnpackExists ==
  ASSUME NEW fs, Len(fs) \in Nat
  PROVE  \A k \in 0..Len(fs) : \E f : UnpackRec(fs, f, k)
<1> DEFINE T == {k \in 0..Len(fs) : ~ \E f : UnpackRec(fs, f, k)}
<1> SUFFICES ASSUME T # {} PROVE FALSE
  OBVIOUS
<1>1. PICK m \in T : \A k \in T : m <= k
  BY NatMin, T \subseteq Nat
<1>2. m # 0
  <2> SUFFICES ASSUME m = 0 PROVE FALSE
    OBVIOUS
  <2> DEFINE g == [n \in 0..0 |-> <<>>]
  <2>1. UnpackRec(fs, g, 0)
    BY DEF UnpackRec
  <2> QED BY <2>1, <1>1
<1>3. PICK f : UnpackRec(fs, f, m - 1)
  BY <1>1, <1>2
<1> DEFINE g == [n \in 0..m |-> IF n < m THEN f[n]
                                ELSE IF fs[m].z THEN f[m - 1] ELSE Append(f[m - 1], m)]
<1>4. UnpackRec(fs, g, m)
  <2> SUFFICES ASSUME NEW n \in 0..m
               PROVE  g[n] = IF n = 0 THEN <<>>
                             ELSE IF fs[n].z THEN g[n - 1] ELSE Append(g[n - 1], n)
    BY DEF UnpackRec
  <2>0. m \in Nat
    BY <1>1
  <2> HIDE DEF T
  <2>1. \A j \in 0..m-1 : f[j] = IF j = 0 THEN <<>>
                                 ELSE IF fs[j].z THEN f[j - 1] ELSE Append(f[j - 1], j)
    BY <1>3 DEF UnpackRec
  <2>2. CASE n = m
    BY <2>0, <2>2, <1>2
  <2>3. CASE n # m
    BY <2>0, <2>1, <2>3, <1>2
  <2> QED BY <2>2, <2>3
<1> QED BY <1>4, <1>1

\* UnpackableOf satisfies its recursive definition.
LEMMA UnpackStep ==
  ASSUME NEW fs, Len(fs) \in Nat
  PROVE  /\ UnpackableOf(fs)[0] = <<>>
         /\ \A n \in 1..Len(fs) :
              UnpackableOf(fs)[n] = IF fs[n].z THEN UnpackableOf(fs)[n - 1]
                                    ELSE Append(UnpackableOf(fs)[n - 1], n)
<1> DEFINE u == UnpackableOf(fs)
<1>1. PICK f : UnpackRec(fs, f, Len(fs))
  BY UnpackExists
<1>2. u = CHOOSE s : UnpackRec(fs, s, Len(fs))
  BY Zenon DEF UnpackableOf, UnpackRec
<1>3. UnpackRec(fs, u, Len(fs))
  BY <1>1, <1>2, Zenon
<1> HIDE DEF u
<1>4. \A n \in 0..Len(fs) : u[n] = IF n = 0 THEN <<>>
                                   ELSE IF fs[n].z THEN u[n - 1] ELSE Append(u[n - 1], n)
  BY <1>3 DEF UnpackRec
<1>5. u[0] = <<>> /\ \A n \in 1..Len(fs) : u[n] = IF fs[n].z THEN u[n - 1] ELSE Append(u[n - 1], n)
  BY <1>4
<1> QED BY <1>5 DEF u

\* The frames up to d that can be unpacked are the first of those up to n.
LEMMA UnpackPrefix ==
  ASSUME NEW fs, Len(fs) \in Nat, NEW d \in 0..Len(fs), NEW n \in d..Len(fs)
  PROVE  /\ UnpackableOf(fs)[d] \in Seq(Nat) /\ UnpackableOf(fs)[n] \in Seq(Nat)
         /\ Len(UnpackableOf(fs)[d]) <= Len(UnpackableOf(fs)[n])
         /\ \A i \in 1..Len(UnpackableOf(fs)[d]) :
              UnpackableOf(fs)[n][i] = UnpackableOf(fs)[d][i]
<1> DEFINE u == UnpackableOf(fs)
<1>0. /\ u[0] = <<>>
      /\ \A k \in 1..Len(fs) : u[k] = IF fs[k].z THEN u[k - 1] ELSE Append(u[k - 1], k)
  BY UnpackStep
<1> HIDE DEF u
<1>1. \A k \in 0..Len(fs) : u[k] \in Seq(Nat)
  <2> DEFINE T == {k \in 0..Len(fs) : u[k] \notin Seq(Nat)}
  <2> SUFFICES ASSUME T # {} PROVE FALSE
    OBVIOUS
  <2>1. PICK m \in T : \A k \in T : m <= k
    BY NatMin, T \subseteq Nat
  <2>2. m # 0
    BY <1>0, <2>1, EmptySeq, <<>> \in Seq(Nat)
  <2>3. m \in 1..Len(fs) /\ u[m - 1] \in Seq(Nat)
    BY <2>1, <2>2
  <2>4. Append(u[m - 1], m) \in Seq(Nat)
    BY <2>3, AppendProperties
  <2> QED BY <2>1, <2>3, <2>4, <1>0
<1> DEFINE Pre(k) == Len(u[d]) <= Len(u[k]) /\ \A i \in 1..Len(u[d]) : u[k][i] = u[d][i]
<1>2. \A k \in d..Len(fs) : Pre(k)
  <2> DEFINE T == {k \in d..Len(fs) : ~Pre(k)}
  <2> SUFFICES ASSUME T # {} PROVE FALSE
    OBVIOUS
  <2>1. PICK m \in T : \A k \in T : m <= k
    BY NatMin, T \subseteq Nat
  <2>2. u[d] \in Seq(Nat) /\ Len(u[d]) \in Nat
    BY <1>1, LenProperties
  <2>3. m # d
    BY <2>1, <2>2
  <2>4. m \in 1..Len(fs) /\ m - 1 \in d..Len(fs) /\ Pre(m - 1)
    BY <2>1, <2>3
  <2>5. u[m - 1] \in Seq(Nat) /\ Len(u[m - 1]) \in Nat /\ u[m] \in Seq(Nat)
    BY <2>4, <1>1, LenProperties
  <2>6. CASE fs[m].z
    <3>1. u[m] = u[m - 1]
      BY <2>4, <2>6, <1>0
    <3>2. Pre(m)
      BY <3>1, <2>4
    <3> QED BY <3>2, <2>1
  <2>7. CASE ~fs[m].z
    <3>1. u[m] = Append(u[m - 1], m)
      BY <2>4, <2>7, <1>0
    <3>2. Len(u[m]) = Len(u[m - 1]) + 1 /\ \A i \in 1..Len(u[m - 1]) : u[m][i] = u[m - 1][i]
      BY <3>1, <2>4, <2>5, AppendProperties
    <3>3. Len(u[d]) <= Len(u[m - 1]) /\ \A i \in 1..Len(u[d]) : u[m - 1][i] = u[d][i]
      BY <2>4
    <3>4. Len(u[d]) <= Len(u[m])
      BY <3>2, <3>3, <2>2, <2>5, SMTT(30)
    <3>5. ASSUME NEW i \in 1..Len(u[d]) PROVE u[m][i] = u[d][i]
      <4>1. i \in 1..Len(u[m - 1])
        BY <3>3, <2>2, <2>5
      <4> QED BY <4>1, <3>2, <3>3
    <3>6. Pre(m)
      BY <3>4, <3>5
    <3> QED BY <3>6, <2>1
  <2> QED BY <2>6, <2>7
<1> QED BY <1>1, <1>2 DEF u

\* One more frame changes nothing for those before it.
LEMMA UnpackSame ==
  ASSUME NEW fs, NEW gs, Len(fs) \in Nat, Len(gs) \in Nat, Len(fs) <= Len(gs),
         \A i \in 1..Len(fs) : gs[i] = fs[i], NEW n \in 0..Len(fs)
  PROVE  UnpackableOf(gs)[n] = UnpackableOf(fs)[n]
<1> DEFINE u == UnpackableOf(fs)  w == UnpackableOf(gs)
<1>0. /\ u[0] = <<>> /\ w[0] = <<>>
      /\ \A k \in 1..Len(fs) : u[k] = IF fs[k].z THEN u[k - 1] ELSE Append(u[k - 1], k)
      /\ \A k \in 1..Len(gs) : w[k] = IF gs[k].z THEN w[k - 1] ELSE Append(w[k - 1], k)
  BY UnpackStep
<1> HIDE DEF u, w
<1> DEFINE T == {k \in 0..Len(fs) : w[k] # u[k]}
<1> SUFFICES ASSUME T # {} PROVE FALSE
  BY DEF u, w
<1>1. PICK m \in T : \A k \in T : m <= k
  BY NatMin, T \subseteq Nat
<1>2. m # 0
  BY <1>0, <1>1
<1>3. m \in 1..Len(fs) /\ m \in 1..Len(gs) /\ w[m - 1] = u[m - 1]
  BY <1>1, <1>2
<1> QED BY <1>0, <1>1, <1>3

\* The place in the stream behind frame i, which begins at pos[i]; 0 is its beginning.
FrameEnd(fs, pos, i) == IF i = 0 THEN 0 ELSE pos[i] + 4 + Len(fs[i].body)

\* b has a magic number, or the header of frame i, behind its first p bytes.
HasMagic(b, p) == b[p + 1] = 101 /\ b[p + 2] = 102
HasHeader(b, p, fs, i) == HasMagic(b, p) /\ b[p + 3] = i /\ b[p + 4] = Len(fs[i].body)

\* rest is what follows the first c bytes of a stream, in which d frames of fs
\* have been passed and the others lie at pos, with no magic number between two.
Layout(fs, rest, pos, c, d) ==
  /\ rest \in Seq(Nat) /\ pos \in Seq(Nat) /\ c \in Nat /\ d \in 0..Len(fs)
  /\ Len(pos) = Len(fs) /\ Len(fs) \in Nat
  /\ \A i \in 1..Len(fs) : Len(fs[i].body) \in Nat
  /\ \A i, j \in 1..Len(fs) : i < j => FrameEnd(fs, pos, i) <= pos[j]
  /\ \A i \in 1..Len(fs) : FrameEnd(fs, pos, i) <= c + Len(rest)
  /\ \A i \in d + 1..Len(fs) : c <= pos[i] /\ HasHeader(rest, pos[i] - c, fs, i)
  /\ \A i \in d + 1..Len(fs) : \A o \in c..pos[i] - 1 :
       FrameEnd(fs, pos, i - 1) <= o => ~HasMagic(rest, o - c)
  /\ FrameEnd(fs, pos, d) <= c
  /\ FrameEnd(fs, pos, Len(fs)) = c + Len(rest)

\* What Layout says of its arguments' types.
LEMMA LayoutTypes ==
  ASSUME NEW fs, NEW rest, NEW pos, NEW c, NEW d, Layout(fs, rest, pos, c, d)
  PROVE  /\ rest \in Seq(Nat) /\ Len(rest) \in Nat /\ c \in Nat
         /\ Len(fs) \in Nat /\ d \in 0..Len(fs) /\ d \in Nat
         /\ \A i \in 1..Len(fs) : pos[i] \in Nat /\ Len(fs[i].body) \in Nat
         /\ \A i \in 0..Len(fs) : FrameEnd(fs, pos, i) \in Nat
<1>1. /\ rest \in Seq(Nat) /\ pos \in Seq(Nat) /\ c \in Nat /\ d \in 0..Len(fs)
      /\ Len(pos) = Len(fs) /\ Len(fs) \in Nat
      /\ \A i \in 1..Len(fs) : Len(fs[i].body) \in Nat
  BY DEF Layout
<1>2. Len(rest) \in Nat /\ \A i \in 1..Len(fs) : pos[i] \in Nat
  BY <1>1, LenProperties, ElementOfSeq
<1>3. \A i \in 0..Len(fs) : FrameEnd(fs, pos, i) \in Nat
  BY <1>1, <1>2, SMTT(30) DEF FrameEnd
<1> QED BY <1>1, <1>2, <1>3

\* The parts of Layout that the proofs below use.
LEMMA LayoutFacts ==
  ASSUME NEW fs, NEW rest, NEW pos, NEW c, NEW d, Layout(fs, rest, pos, c, d)
  PROVE  /\ pos \in Seq(Nat) /\ Len(pos) = Len(fs)
         /\ \A i, j \in 1..Len(fs) : i < j => FrameEnd(fs, pos, i) <= pos[j]
         /\ \A i \in 1..Len(fs) : FrameEnd(fs, pos, i) <= c + Len(rest)
         /\ \A i \in d + 1..Len(fs) : c <= pos[i] /\ HasHeader(rest, pos[i] - c, fs, i)
         /\ \A i \in d + 1..Len(fs) : \A o \in c..pos[i] - 1 :
              FrameEnd(fs, pos, i - 1) <= o => ~HasMagic(rest, o - c)
         /\ FrameEnd(fs, pos, d) <= c
         /\ FrameEnd(fs, pos, Len(fs)) = c + Len(rest)
         /\ \A i \in 1..Len(fs) : FrameEnd(fs, pos, i) = pos[i] + 4 + Len(fs[i].body)
<1>1. \A i \in 1..Len(fs) : FrameEnd(fs, pos, i) = pos[i] + 4 + Len(fs[i].body)
  BY LayoutTypes DEF FrameEnd
<1> QED BY <1>1 DEF Layout

\* Taking k bytes off the front moves what lies behind them.
LEMMA CutBytes ==
  ASSUME NEW rest \in Seq(Nat), NEW k \in 0..Len(rest), NEW p \in Nat, p + 4 <= Len(rest) - k
  PROVE  LET b == SubSeq(rest, k + 1, Len(rest))
         IN  /\ HasMagic(b, p) <=> HasMagic(rest, p + k)
             /\ b[p + 3] = rest[p + k + 3] /\ b[p + 4] = rest[p + k + 4]
<1> DEFINE b == SubSeq(rest, k + 1, Len(rest))
<1>1. Len(rest) \in Nat /\ \A j \in 1..Len(rest) - k : b[j] = rest[k + j]
  BY CutFront
<1> HIDE DEF b
<1>2. /\ p + 1 \in 1..Len(rest) - k /\ p + 2 \in 1..Len(rest) - k
      /\ p + 3 \in 1..Len(rest) - k /\ p + 4 \in 1..Len(rest) - k
  BY <1>1
<1>3. /\ k + (p + 1) = p + k + 1 /\ k + (p + 2) = p + k + 2
      /\ k + (p + 3) = p + k + 3 /\ k + (p + 4) = p + k + 4
  OBVIOUS
<1>4. /\ b[p + 1] = rest[p + k + 1] /\ b[p + 2] = rest[p + k + 2]
      /\ b[p + 3] = rest[p + k + 3] /\ b[p + 4] = rest[p + k + 4]
  BY <1>1, <1>2, <1>3, SMTT(30)
<1>5. HasMagic(b, p) <=> HasMagic(rest, p + k)
  BY <1>4 DEF HasMagic
<1> QED BY <1>4, <1>5 DEF b

\* Bytes can be taken off the front up to a frame that has not been passed.
LEMMA LayoutCut ==
  ASSUME NEW fs, NEW rest, NEW pos, NEW c, NEW d, Layout(fs, rest, pos, c, d),
         NEW e \in d..Len(fs), NEW k \in 0..Len(rest), FrameEnd(fs, pos, e) <= c + k,
         \A i \in e + 1..Len(fs) : c + k <= pos[i]
  PROVE  Layout(fs, SubSeq(rest, k + 1, Len(rest)), pos, c + k, e)
<1> DEFINE b == SubSeq(rest, k + 1, Len(rest))
<1>1. /\ rest \in Seq(Nat) /\ Len(rest) \in Nat /\ c \in Nat
      /\ Len(fs) \in Nat /\ d \in 0..Len(fs) /\ d \in Nat
      /\ \A i \in 1..Len(fs) : pos[i] \in Nat /\ Len(fs[i].body) \in Nat
      /\ \A i \in 0..Len(fs) : FrameEnd(fs, pos, i) \in Nat
  BY LayoutTypes
<1>2. /\ pos \in Seq(Nat) /\ Len(pos) = Len(fs)
      /\ \A i, j \in 1..Len(fs) : i < j => FrameEnd(fs, pos, i) <= pos[j]
      /\ \A i \in 1..Len(fs) : FrameEnd(fs, pos, i) <= c + Len(rest)
      /\ \A i \in d + 1..Len(fs) : c <= pos[i] /\ HasHeader(rest, pos[i] - c, fs, i)
      /\ \A i \in d + 1..Len(fs) : \A o \in c..pos[i] - 1 :
           FrameEnd(fs, pos, i - 1) <= o => ~HasMagic(rest, o - c)
      /\ FrameEnd(fs, pos, Len(fs)) = c + Len(rest)
      /\ \A i \in 1..Len(fs) : FrameEnd(fs, pos, i) = pos[i] + 4 + Len(fs[i].body)
  BY LayoutFacts
<1>3. b \in Seq(Nat) /\ Len(b) = Len(rest) - k
  BY <1>1, CutFront
<1>4. \A p \in Nat : p + 4 <= Len(b) =>
        /\ HasMagic(b, p) <=> HasMagic(rest, p + k)
        /\ b[p + 3] = rest[p + k + 3] /\ b[p + 4] = rest[p + k + 4]
  BY <1>1, <1>3, CutBytes
<1> HIDE DEF b
<1>5. e \in Nat /\ c + k \in Nat /\ e \in 0..Len(fs)
  BY <1>1
<1>n. Len(rest) \in Nat /\ c \in Nat /\ k \in Nat /\ Len(b) = Len(rest) - k
  BY <1>1, <1>3
<1>6. ASSUME NEW i \in e + 1..Len(fs)
      PROVE  /\ i \in 1..Len(fs) /\ i \in d + 1..Len(fs) /\ c + k <= pos[i]
             /\ pos[i] \in Nat /\ pos[i] + 4 <= c + Len(rest)
  <2>1. i \in 1..Len(fs) /\ i \in d + 1..Len(fs)
    BY <1>1, <1>5
  <2>5. /\ FrameEnd(fs, pos, i) = pos[i] + 4 + Len(fs[i].body)
        /\ pos[i] \in Nat /\ Len(fs[i].body) \in Nat
    BY <2>1, <1>1, <1>2
  <2>2. pos[i] + 4 <= FrameEnd(fs, pos, i)
    BY <2>5
  <2>3. FrameEnd(fs, pos, i) \in Nat /\ FrameEnd(fs, pos, i) <= c + Len(rest)
    BY <2>1, <1>1, <1>2
  <2>4. pos[i] \in Nat
    BY <2>1, <1>1
  <2> QED BY <2>1, <2>2, <2>3, <2>4, <1>1, SMTT(30)
<1>7. ASSUME NEW i \in e + 1..Len(fs)
      PROVE  c + k <= pos[i] /\ HasHeader(b, pos[i] - (c + k), fs, i)
  <2>1. /\ i \in 1..Len(fs) /\ i \in d + 1..Len(fs) /\ c + k <= pos[i]
        /\ pos[i] \in Nat /\ pos[i] + 4 <= c + Len(rest)
    BY <1>6
  <2> DEFINE p == pos[i] - (c + k)
  <2>2. p \in Nat /\ p + 4 <= Len(b) /\ p + k = pos[i] - c
    BY <2>1, <1>n, SMTT(30)
  <2> HIDE DEF p
  <2>3. HasHeader(rest, p + k, fs, i)
    BY <2>1, <2>2, <1>2
  <2>4. HasHeader(b, p, fs, i)
    BY <2>2, <2>3, <1>4 DEF HasHeader
  <2> QED BY <2>1, <2>4 DEF p
<1>8. ASSUME NEW i \in e + 1..Len(fs), NEW o \in c + k..pos[i] - 1,
             FrameEnd(fs, pos, i - 1) <= o
      PROVE  ~HasMagic(b, o - (c + k))
  <2>1. /\ i \in 1..Len(fs) /\ i \in d + 1..Len(fs) /\ c + k <= pos[i]
        /\ pos[i] \in Nat /\ pos[i] + 4 <= c + Len(rest)
    BY <1>6
  <2> DEFINE p == o - (c + k)
  <2>2. p \in Nat /\ p + 4 <= Len(b) /\ p + k = o - c /\ o \in c..pos[i] - 1
    BY <2>1, <1>n, SMTT(40)
  <2> HIDE DEF p
  <2>3. ~HasMagic(rest, p + k)
    BY <2>1, <2>2, <1>2, <1>8
  <2>4. ~HasMagic(b, p)
    BY <2>2, <2>3, <1>4
  <2> QED BY <2>4 DEF p
<1>9. c + k + Len(b) = c + Len(rest)
  BY <1>1, <1>3
<1>10. /\ \A i \in 1..Len(fs) : FrameEnd(fs, pos, i) <= c + k + Len(b)
       /\ FrameEnd(fs, pos, Len(fs)) = c + k + Len(b)
  BY <1>2, <1>9
<1>11. Layout(fs, b, pos, c + k, e)
  BY <1>1, <1>2, <1>3, <1>5, <1>7, <1>8, <1>10 DEF Layout
<1> QED BY <1>11 DEF b

\* gs is fs and one more frame; r is rest, g without a magic number, and that frame.
FrameAdded(fs, gs, rest, g, r) ==
  /\ Len(gs) = Len(fs) + 1 /\ \A i \in 1..Len(fs) : gs[i] = fs[i]
  /\ g \in Seq(Nat) /\ \A j \in 1..Len(g) - 1 : ~(g[j] = 101 /\ g[j + 1] = 102)
  /\ Len(gs[Len(fs) + 1].body) \in Nat
  /\ r \in Seq(Nat) /\ Len(r) = Len(rest) + Len(g) + 4 + Len(gs[Len(fs) + 1].body)
  /\ \A j \in 1..Len(rest) : r[j] = rest[j]
  /\ \A j \in 1..Len(g) : r[Len(rest) + j] = g[j]
  /\ HasHeader(r, Len(rest) + Len(g), gs, Len(fs) + 1)

\* One more frame at the end of the stream.
LEMMA LayoutSend ==
  ASSUME NEW fs, NEW rest, NEW pos, NEW c, NEW d, Layout(fs, rest, pos, c, d),
         NEW gs, NEW g, NEW r, FrameAdded(fs, gs, rest, g, r)
  PROVE  Layout(gs, r, Append(pos, c + Len(rest) + Len(g)), c, d)
<1> DEFINE at == c + Len(rest) + Len(g)
           ps == Append(pos, at)
           n == Len(fs) + 1
<1>1. /\ rest \in Seq(Nat) /\ Len(rest) \in Nat /\ c \in Nat
      /\ Len(fs) \in Nat /\ d \in 0..Len(fs) /\ d \in Nat
      /\ \A i \in 1..Len(fs) : pos[i] \in Nat /\ Len(fs[i].body) \in Nat
      /\ \A i \in 0..Len(fs) : FrameEnd(fs, pos, i) \in Nat
  BY LayoutTypes
<1>2. /\ pos \in Seq(Nat) /\ Len(pos) = Len(fs)
      /\ \A i, j \in 1..Len(fs) : i < j => FrameEnd(fs, pos, i) <= pos[j]
      /\ \A i \in 1..Len(fs) : FrameEnd(fs, pos, i) <= c + Len(rest)
      /\ \A i \in d + 1..Len(fs) : c <= pos[i] /\ HasHeader(rest, pos[i] - c, fs, i)
      /\ \A i \in d + 1..Len(fs) : \A o \in c..pos[i] - 1 :
           FrameEnd(fs, pos, i - 1) <= o => ~HasMagic(rest, o - c)
      /\ FrameEnd(fs, pos, d) <= c
      /\ FrameEnd(fs, pos, Len(fs)) = c + Len(rest)
      /\ \A i \in 1..Len(fs) : FrameEnd(fs, pos, i) = pos[i] + 4 + Len(fs[i].body)
  BY LayoutFacts
<1> DEFINE B == Len(gs[n].body)
<1>a. /\ Len(gs) = n /\ \A i \in 1..Len(fs) : gs[i] = fs[i]
      /\ g \in Seq(Nat) /\ B \in Nat
      /\ r \in Seq(Nat) /\ Len(r) = Len(rest) + Len(g) + 4 + B
      /\ HasHeader(r, Len(rest) + Len(g), gs, n)
  BY DEF FrameAdded
<1>b. \A j \in 1..Len(g) - 1 : ~(g[j] = 101 /\ g[j + 1] = 102)
  BY DEF FrameAdded
<1>c. \A j \in 1..Len(rest) : r[j] = rest[j]
  BY DEF FrameAdded
<1>d. \A j \in 1..Len(g) : r[Len(rest) + j] = g[j]
  BY DEF FrameAdded
<1>n. Len(rest) \in Nat /\ c \in Nat /\ Len(fs) \in Nat /\ d \in 0..Len(fs) /\ d \in Nat
  BY <1>1
<1> HIDE DEF B
<1>3. Len(g) \in Nat /\ at \in Nat /\ c + Len(rest) \in Nat /\ c + Len(rest) <= at
  BY <1>n, <1>a, LenProperties
<1>4. n \in Nat /\ n = Len(fs) + 1 /\ n - 1 = Len(fs) /\ n # 0
  BY <1>n
<1>5. /\ ps \in Seq(Nat) /\ Len(ps) = n /\ ps[n] = at
      /\ \A i \in 1..Len(fs) : ps[i] = pos[i]
  BY <1>2, <1>3, AppendProperties
<1> HIDE DEF ps
<1>6. \A i \in 1..n : i = n \/ i \in 1..Len(fs)
  BY <1>n
<1>7. \A i \in 1..Len(fs) : gs[i] = fs[i] /\ ps[i] = pos[i]
  BY <1>5, <1>a
<1>8. \A i \in 0..Len(fs) : FrameEnd(gs, ps, i) = FrameEnd(fs, pos, i)
  <2> TAKE i \in 0..Len(fs)
  <2>1. CASE i = 0
    BY <2>1 DEF FrameEnd
  <2>2. CASE i # 0
    <3>1. i \in 1..Len(fs)
      BY <2>2, <1>n
    <3> QED BY <3>1, <2>2, <1>7 DEF FrameEnd
  <2> QED BY <2>1, <2>2
<1>9. c + Len(r) = at + 4 + B /\ FrameEnd(gs, ps, n) = c + Len(r)
  <2>1. c + Len(r) = at + 4 + B
    BY <1>n, <1>3, <1>a
  <2> QED BY <2>1, <1>4, <1>5 DEF FrameEnd, B
<1>10. \A i \in 1..n : Len(gs[i].body) \in Nat
  BY <1>1, <1>6, <1>7, <1>a DEF B
<1> HIDE DEF n, at
<1>11. ASSUME NEW i \in 1..n, NEW j \in 1..n, i < j
       PROVE  FrameEnd(gs, ps, i) <= ps[j]
  <2>1. i \in 1..Len(fs)
    BY <1>4, <1>6, <1>11
  <2>2. CASE j = n
    <3>1. /\ FrameEnd(gs, ps, i) <= c + Len(rest) /\ FrameEnd(gs, ps, i) \in Nat
          /\ ps[j] = at
      BY <2>1, <2>2, <1>1, <1>2, <1>5, <1>8
    <3> QED BY <3>1, <1>3
  <2>3. CASE j \in 1..Len(fs)
    <3>1. FrameEnd(fs, pos, i) <= pos[j]
      BY <2>1, <2>3, <1>2, <1>11
    <3>2. FrameEnd(gs, ps, i) = FrameEnd(fs, pos, i) /\ ps[j] = pos[j]
      BY <2>1, <2>3, <1>n, <1>7, <1>8
    <3> QED BY <3>1, <3>2
  <2> QED BY <2>2, <2>3, <1>6
<1>12. ASSUME NEW i \in 1..n PROVE FrameEnd(gs, ps, i) <= c + Len(r)
  <2>1. c + Len(r) \in Nat /\ c + Len(rest) <= c + Len(r)
    BY <1>3, <1>9, <1>a
  <2>2. CASE i = n
    BY <2>1, <2>2, <1>9
  <2>3. CASE i \in 1..Len(fs)
    <3>1. FrameEnd(gs, ps, i) <= c + Len(rest) /\ FrameEnd(gs, ps, i) \in Nat
      BY <2>3, <1>1, <1>2, <1>8
    <3> QED BY <3>1, <2>1, <1>3
  <2> QED BY <2>2, <2>3, <1>6
\* Where the bytes of rest are looked at, r has the same.
<1>13. ASSUME NEW p \in Nat, p + 4 <= Len(rest)
       PROVE  /\ HasMagic(r, p) <=> HasMagic(rest, p)
              /\ r[p + 3] = rest[p + 3] /\ r[p + 4] = rest[p + 4]
  <2>1. p + 1 \in 1..Len(rest) /\ p + 2 \in 1..Len(rest)
        /\ p + 3 \in 1..Len(rest) /\ p + 4 \in 1..Len(rest)
    BY <1>n, <1>13
  <2>2. r[p + 1] = rest[p + 1] /\ r[p + 2] = rest[p + 2]
        /\ r[p + 3] = rest[p + 3] /\ r[p + 4] = rest[p + 4]
    BY <2>1, <1>c
  <2> QED BY <2>2 DEF HasMagic
<1>14. ASSUME NEW i \in d + 1..n, i # n
       PROVE  /\ i \in 1..Len(fs) /\ i \in d + 1..Len(fs)
              /\ pos[i] \in Nat /\ c <= pos[i] /\ pos[i] + 4 <= c + Len(rest)
  <2>1. i \in 1..Len(fs) /\ i \in d + 1..Len(fs)
    BY <1>n, <1>4, <1>14
  <2>2. /\ FrameEnd(fs, pos, i) = pos[i] + 4 + Len(fs[i].body)
        /\ pos[i] \in Nat /\ Len(fs[i].body) \in Nat /\ c <= pos[i]
        /\ FrameEnd(fs, pos, i) <= c + Len(rest)
    BY <2>1, <1>1, <1>2
  <2>3. pos[i] + 4 <= c + Len(rest)
    BY <2>2, <1>3, SMTT(30)
  <2> QED BY <2>1, <2>2, <2>3
<1>15. ASSUME NEW i \in d + 1..n
       PROVE  c <= ps[i] /\ HasHeader(r, ps[i] - c, gs, i)
  <2>1. CASE i = n
    <3>1. ps[i] - c = Len(rest) + Len(g) /\ c <= ps[i]
      BY <2>1, <1>n, <1>3, <1>5 DEF at
    <3> QED BY <3>1, <2>1, <1>a
  <2>2. CASE i # n
    <3>1. /\ i \in 1..Len(fs) /\ i \in d + 1..Len(fs)
          /\ pos[i] \in Nat /\ c <= pos[i] /\ pos[i] + 4 <= c + Len(rest)
      BY <2>2, <1>14
    <3> DEFINE p == pos[i] - c
    <3>2. p \in Nat /\ p + 4 <= Len(rest)
      BY <3>1, <1>n
    <3>3. HasHeader(rest, p, fs, i)
      BY <3>1, <1>2
    <3> HIDE DEF p
    <3>4. HasHeader(r, p, gs, i)
      BY <3>1, <3>2, <3>3, <1>7, <1>13 DEF HasHeader
    <3> QED BY <3>1, <3>4, <1>7 DEF p
  <2> QED BY <2>1, <2>2
<1>16. ASSUME NEW i \in d + 1..n, NEW o \in c..ps[i] - 1, FrameEnd(gs, ps, i - 1) <= o
       PROVE  ~HasMagic(r, o - c)
  <2>1. CASE i = n
    <3> DEFINE q == o - c - Len(rest) + 1
    <3>1. FrameEnd(gs, ps, i - 1) = c + Len(rest)
      BY <2>1, <1>1, <1>2, <1>4, <1>8
    <3>2. o \in c..at - 1 /\ c + Len(rest) <= o
      BY <3>1, <2>1, <1>5, <1>16
    <3>3. q \in 1..Len(g) /\ o - c + 1 = Len(rest) + q /\ o - c + 2 = Len(rest) + (q + 1)
      BY <3>2, <1>n, <1>3 DEF at
    <3> HIDE DEF q
    <3>4. r[o - c + 1] = g[q]
      BY <3>3, <1>d
    <3>5. CASE q # Len(g)
      <4>1. q + 1 \in 1..Len(g) /\ q \in 1..Len(g) - 1
        BY <3>3, <3>5, <1>3
      <4>2. r[o - c + 2] = g[q + 1]
        BY <4>1, <3>3, <1>d
      <4>3. ~(g[q] = 101 /\ g[q + 1] = 102)
        BY <4>1, <1>b
      <4> QED BY <4>2, <4>3, <3>4 DEF HasMagic
    <3>6. CASE q = Len(g)
      <4>1. o - c + 2 = Len(rest) + Len(g) + 1
        BY <3>3, <3>6, <1>n, <1>3
      <4>2. r[Len(rest) + Len(g) + 1] = 101
        BY <1>a DEF HasHeader, HasMagic
      <4> QED BY <4>1, <4>2 DEF HasMagic
    <3> QED BY <3>5, <3>6
  <2>2. CASE i # n
    <3>1. /\ i \in 1..Len(fs) /\ i \in d + 1..Len(fs)
          /\ pos[i] \in Nat /\ c <= pos[i] /\ pos[i] + 4 <= c + Len(rest)
      BY <2>2, <1>14
    <3>2. o \in c..pos[i] - 1 /\ i - 1 \in 0..Len(fs)
      <4>1. ps[i] = pos[i]
        BY <3>1, <1>7
      <4> QED BY <4>1, <3>1, <1>n
    <3>3. FrameEnd(fs, pos, i - 1) <= o
      BY <3>2, <1>8, <1>16
    <3>4. ~HasMagic(rest, o - c)
      BY <3>1, <3>2, <3>3, <1>2
    <3>5. o - c \in Nat /\ o - c + 4 <= Len(rest)
      BY <3>1, <3>2, <1>n
    <3> QED BY <3>4, <3>5, <1>13
  <2> QED BY <2>1, <2>2
<1>17. d \in 0..n /\ FrameEnd(gs, ps, d) <= c
  BY <1>n, <1>2, <1>4, <1>8
<1>18. Layout(gs, r, ps, c, d)
  BY <1>n, <1>a, <1>4, <1>5, <1>9, <1>10, <1>11, <1>12, <1>15, <1>16, <1>17 DEF Layout
<1> QED BY <1>18 DEF ps, at

\* Two sequences one behind the other.
LEMMA ConcatParts ==
  ASSUME NEW s \in Seq(Nat), NEW t \in Seq(Nat)
  PROVE  /\ s \o t \in Seq(Nat)
         /\ Len(s) \in Nat /\ Len(t) \in Nat /\ Len(s \o t) = Len(s) + Len(t)
         /\ \A i \in 1..Len(s) : (s \o t)[i] = s[i]
         /\ \A i \in 1..Len(t) : (s \o t)[Len(s) + i] = t[i]
<1>1. Len(s) \in Nat /\ Len(t) \in Nat
  BY LenProperties
<1>2. /\ s \o t \in Seq(Nat) /\ Len(s \o t) = Len(s) + Len(t)
      /\ \A i \in 1..Len(s) + Len(t) :
           (s \o t)[i] = IF i <= Len(s) THEN s[i] ELSE t[i - Len(s)]
  BY ConcatProperties
<1>3. ASSUME NEW i \in 1..Len(s) PROVE (s \o t)[i] = s[i]
  <2>1. i \in 1..Len(s) + Len(t) /\ i <= Len(s)
    BY <1>1
  <2> QED BY <2>1, <1>2
<1>4. ASSUME NEW i \in 1..Len(t) PROVE (s \o t)[Len(s) + i] = t[i]
  <2>1. /\ Len(s) + i \in 1..Len(s) + Len(t) /\ ~(Len(s) + i <= Len(s))
        /\ Len(s) + i - Len(s) = i
    BY <1>1
  <2> QED BY <2>1, <1>2
<1> QED BY <1>1, <1>2, <1>3, <1>4

\* Concatenation is associative.
LEMMA ConcatNat ==
  ASSUME NEW s \in Seq(Nat), NEW t \in Seq(Nat), NEW u \in Seq(Nat)
  PROVE  (s \o t) \o u = s \o (t \o u)
BY ConcatAssociative, SMTT(30)

\* p is the header of frame f with number id, and its body.
FrameBytes(id, f, p) ==
  /\ p \in Seq(Nat) /\ Len(f.body) \in Nat
  /\ Len(p) = 4 + Len(f.body)
  /\ p[1] = 101 /\ p[2] = 102 /\ p[3] = id /\ p[4] = Len(f.body)

\* The bytes of a frame.
LEMMA PackedBytes ==
  ASSUME NEW id \in Nat, NEW f \in Frames
  PROVE  FrameBytes(id, f, Packed(id, f))
<1>f. f.body \in Seq(Nat)
  BY MsgAssumption
<1>1. Len(f.body) \in Nat
  BY <1>f, LenProperties
<1> DEFINE u == Magic
           v == <<id, Len(f.body)>>
           h == u \o v
           p == h \o f.body
<1>2. /\ u \in Seq(Nat) /\ v \in Seq(Nat) /\ Len(u) = 2 /\ Len(v) = 2
      /\ u[1] = 101 /\ u[2] = 102 /\ v[1] = id /\ v[2] = Len(f.body)
  BY <1>1 DEF Magic
<1>3. p = Packed(id, f)
  BY DEF Packed
<1> HIDE DEF u, v
<1>0. u \in Seq(Nat) /\ v \in Seq(Nat)
  BY <1>2
<1>4. /\ h \in Seq(Nat) /\ Len(h) = Len(u) + Len(v)
      /\ \A i \in 1..Len(u) : h[i] = u[i]
      /\ \A i \in 1..Len(v) : h[Len(u) + i] = v[i]
  BY <1>0, ConcatParts
<1> HIDE DEF h
<1>5. /\ Len(h) = 4 /\ h[1] = 101 /\ h[2] = 102 /\ h[2 + 1] = id /\ h[2 + 2] = Len(f.body)
  BY <1>2, <1>4
<1>h. h \in Seq(Nat)
  BY <1>4
<1>6. /\ p \in Seq(Nat) /\ Len(p) = Len(h) + Len(f.body)
      /\ \A i \in 1..Len(h) : p[i] = h[i]
  BY <1>f, <1>h, ConcatParts
<1> HIDE DEF p
<1>7. p[1] = h[1] /\ p[2] = h[2] /\ p[3] = h[3] /\ p[4] = h[4]
  BY <1>5, <1>6
<1>8. FrameBytes(id, f, p)
  BY <1>1, <1>5, <1>6, <1>7 DEF FrameBytes
<1> QED BY <1>3, <1>8

\* Sending a frame adds it and the bytes before it to what is under way.
LEMMA SentBytes ==
  ASSUME NEW fs \in Seq(Frames), NEW m \in Seq(Nat), NEW w \in Seq(Nat),
         NEW g \in Garbage, NEW f \in Frames
  PROVE  /\ w \o g \o Packed(Len(fs) + 1, f) \in Seq(Nat)
         /\ FrameAdded(fs, Append(fs, f), m \o w, g, m \o (w \o g \o Packed(Len(fs) + 1, f)))
<1> DEFINE id == Len(fs) + 1
           x == m \o w
           p == Packed(id, f)
           y == g \o p
           r == x \o y
           gs == Append(fs, f)
<1>1. /\ g \in Seq(Nat) /\ f.body \in Seq(Nat)
      /\ \A k \in 1..Len(g) - 1 : ~(g[k] = 101 /\ g[k + 1] = 102)
  BY MsgAssumption
<1>2. Len(fs) \in Nat /\ id \in Nat
  BY LenProperties
<1>4. Len(gs) = id /\ (\A i \in 1..Len(fs) : gs[i] = fs[i]) /\ gs[id] = f
  BY <1>2, AppendProperties
<1> HIDE DEF id
<1>3. /\ p \in Seq(Nat) /\ Len(f.body) \in Nat /\ Len(p) = 4 + Len(f.body)
      /\ p[1] = 101 /\ p[2] = 102 /\ p[3] = id /\ p[4] = Len(f.body)
  <2>1. FrameBytes(id, f, p)
    BY <1>2, PackedBytes
  <2> HIDE DEF p
  <2> QED BY <2>1 DEF FrameBytes
<1> HIDE DEF p, gs
<1>5. /\ x \in Seq(Nat) /\ y \in Seq(Nat)
      /\ w \o g \in Seq(Nat) /\ w \o g \o p \in Seq(Nat)
  BY <1>1, <1>3, ConcatParts
<1>s. g \in Seq(Nat) /\ p \in Seq(Nat)
  BY <1>1, <1>3
<1>6. m \o (w \o g \o p) = r
  <2>1. w \o g \o p = w \o y
    BY <1>s, ConcatNat
  <2>m. m \in Seq(Nat) /\ w \in Seq(Nat) /\ y \in Seq(Nat)
    BY <1>5
  <2>2. (m \o w) \o y = m \o (w \o y)
    BY <2>m, ConcatNat, Zenon
  <2> QED BY <2>1, <2>2
<1>7. /\ Len(g) \in Nat /\ Len(p) \in Nat /\ Len(y) = Len(g) + Len(p)
      /\ \A i \in 1..Len(g) : y[i] = g[i]
      /\ \A i \in 1..Len(p) : y[Len(g) + i] = p[i]
  BY <1>s, ConcatParts
<1> HIDE DEF x, y
<1>8. /\ r \in Seq(Nat) /\ Len(x) \in Nat /\ Len(y) \in Nat /\ Len(r) = Len(x) + Len(y)
      /\ \A i \in 1..Len(x) : r[i] = x[i]
      /\ \A i \in 1..Len(y) : r[Len(x) + i] = y[i]
  BY <1>5, ConcatParts
<1> HIDE DEF r
<1>9. Len(y) = Len(g) + (4 + Len(f.body)) /\ Len(r) = Len(x) + Len(g) + 4 + Len(f.body)
  <2>1. /\ Len(p) = 4 + Len(f.body) /\ Len(f.body) \in Nat /\ Len(g) \in Nat
        /\ Len(y) = Len(g) + Len(p) /\ Len(r) = Len(x) + Len(y) /\ Len(x) \in Nat
    BY <1>3, <1>7, <1>8
  <2>2. Len(y) = Len(g) + (4 + Len(f.body))
    BY <2>1
  <2>3. Len(r) = Len(x) + (Len(g) + (4 + Len(f.body)))
    BY <2>1, <2>2
  <2>4. \A i, j, k \in Nat : i + (j + (4 + k)) = i + j + 4 + k
    OBVIOUS
  <2> QED BY <2>1, <2>2, <2>3, <2>4
<1>n. Len(g) \in Nat /\ Len(f.body) \in Nat /\ Len(p) = 4 + Len(f.body)
  BY <1>3, <1>7
<1>10. \A j \in 1..Len(g) : r[Len(x) + j] = g[j]
  <2> TAKE j \in 1..Len(g)
  <2>1. j \in 1..Len(y)
    BY <1>3, <1>7, <1>9
  <2> QED BY <2>1, <1>7, <1>8
<1>11. \A j \in 1..4 : r[Len(x) + Len(g) + j] = p[j]
  <2> TAKE j \in 1..4
  <2>1. Len(g) + j \in 1..Len(y) /\ j \in 1..Len(p)
    BY <1>n, <1>9
  <2>2. r[Len(x) + (Len(g) + j)] = p[j]
    BY <2>1, <1>7, <1>8
  <2>3. Len(x) + (Len(g) + j) = Len(x) + Len(g) + j
    BY <1>7, <1>8
  <2> QED BY <2>2, <2>3
<1>12. HasHeader(r, Len(x) + Len(g), gs, id)
  <2>1. /\ r[Len(x) + Len(g) + 1] = p[1] /\ r[Len(x) + Len(g) + 2] = p[2]
        /\ r[Len(x) + Len(g) + 3] = p[3] /\ r[Len(x) + Len(g) + 4] = p[4]
    BY <1>11
  <2> QED BY <2>1, <1>3, <1>4 DEF HasHeader, HasMagic
<1>13. FrameAdded(fs, gs, x, g, r)
  BY <1>1, <1>3, <1>4, <1>8, <1>9, <1>10, <1>12 DEF FrameAdded, id
<1> QED BY <1>5, <1>6, <1>13 DEF p, gs, x, id

\* Where bytes are left or a frame has not been passed, a frame comes next, and if
\* there is a magic number at the front it is there.
LEMMA NextFrame ==
  ASSUME NEW fs, NEW rest, NEW pos, NEW c, NEW d, Layout(fs, rest, pos, c, d),
         d < Len(fs) \/ Len(rest) > 0
  PROVE  /\ d \in Nat /\ d + 1 \in 1..Len(fs) /\ Len(rest) \in Nat /\ c \in Nat
         /\ pos[d + 1] \in Nat /\ c <= pos[d + 1] /\ Len(fs[d + 1].body) \in Nat
         /\ HasHeader(rest, pos[d + 1] - c, fs, d + 1)
         /\ FrameEnd(fs, pos, d + 1) = pos[d + 1] + 4 + Len(fs[d + 1].body)
         /\ FrameEnd(fs, pos, d + 1) <= c + Len(rest)
         /\ \A i \in d + 2..Len(fs) : FrameEnd(fs, pos, d + 1) <= pos[i]
         /\ FrameEnd(fs, pos, d) <= c
         /\ HasMagic(rest, 0) => pos[d + 1] = c
<1>1. /\ Len(rest) \in Nat /\ c \in Nat /\ Len(fs) \in Nat /\ d \in 0..Len(fs) /\ d \in Nat
  BY LayoutTypes
<1>2. FrameEnd(fs, pos, d) <= c /\ FrameEnd(fs, pos, Len(fs)) = c + Len(rest)
  BY LayoutFacts
<1>3. d # Len(fs)
  BY <1>1, <1>2
<1>4. d + 1 \in 1..Len(fs) /\ d + 1 \in d + 1..Len(fs) /\ d + 1 - 1 = d
  BY <1>1, <1>3
<1>5. pos[d + 1] \in Nat /\ Len(fs[d + 1].body) \in Nat
  BY <1>4, LayoutTypes
<1>6. c <= pos[d + 1] /\ HasHeader(rest, pos[d + 1] - c, fs, d + 1)
  BY <1>4, LayoutFacts
<1>7. /\ FrameEnd(fs, pos, d + 1) = pos[d + 1] + 4 + Len(fs[d + 1].body)
      /\ FrameEnd(fs, pos, d + 1) <= c + Len(rest)
  BY <1>4, LayoutFacts
<1>8. ASSUME NEW i \in d + 2..Len(fs) PROVE FrameEnd(fs, pos, d + 1) <= pos[i]
  <2>1. i \in 1..Len(fs) /\ d + 1 < i
    BY <1>1
  <2> QED BY <2>1, <1>4, LayoutFacts
<1>9. ASSUME HasMagic(rest, 0), pos[d + 1] # c PROVE FALSE
  <2>1. c \in c..pos[d + 1] - 1 /\ c - c = 0
    BY <1>1, <1>5, <1>6, <1>9
  <2> DEFINE e == d + 1
  <2>2. e \in d + 1..Len(fs) /\ e - 1 = d /\ e = d + 1
    BY <1>1, <1>3
  <2> HIDE DEF e
  <2>3. \A i \in d + 1..Len(fs) : \A o \in c..pos[i] - 1 :
          FrameEnd(fs, pos, i - 1) <= o => ~HasMagic(rest, o - c)
    BY LayoutFacts
  <2>4. \A o \in c..pos[e] - 1 : FrameEnd(fs, pos, e - 1) <= o => ~HasMagic(rest, o - c)
    BY <2>2, <2>3
  <2>5. c \in c..pos[e] - 1 /\ FrameEnd(fs, pos, e - 1) <= c
    BY <2>1, <2>2, <1>2
  <2>6. ~HasMagic(rest, c - c)
    BY <2>4, <2>5
  <2> QED BY <2>1, <2>6, <1>9
<1> QED BY <1>1, <1>2, <1>4, <1>5, <1>6, <1>7, <1>8, <1>9

\* The magic number behind the first n bytes of the buffer.
LEMMA MagicAtIs ==
  ASSUME mbuf \in Seq(Nat), NEW n \in Nat, n + 2 <= Len(mbuf)
  PROVE  MagicAt(n) <=> HasMagic(mbuf, n)
<1> DEFINE s == SubSeq(mbuf, n + 1, n + 2)
<1>1. Len(mbuf) \in Nat /\ \A j \in 1..Len(mbuf) : mbuf[j] \in Nat
  BY LenProperties, ElementOfSeq
<1>2. \A j \in n + 1..n + 2 : mbuf[j] \in Nat
  BY <1>1
<1>3. /\ s \in Seq(Nat) /\ Len(s) = IF n + 1 <= n + 2 THEN n + 2 - (n + 1) + 1 ELSE 0
      /\ \A j \in 1..n + 2 - (n + 1) + 1 : s[j] = mbuf[n + 1 + j - 1]
  BY <1>2, SubSeqProperties
<1>4. Len(Magic) = 2 /\ Magic[1] = 101 /\ Magic[2] = 102 /\ Magic \in Seq(Nat)
  BY DEF Magic
<1>5. MagicAt(n) <=> s = Magic
  BY <1>4 DEF MagicAt
<1> HIDE DEF s
<1>6. Len(s) = 2 /\ s[1] = mbuf[n + 1] /\ s[2] = mbuf[n + 2]
  <2>1. 1 \in 1..n + 2 - (n + 1) + 1 /\ 2 \in 1..n + 2 - (n + 1) + 1
    OBVIOUS
  <2>2. n + 1 + 1 - 1 = n + 1 /\ n + 1 + 2 - 1 = n + 2 /\ Len(s) = 2
    BY <1>3
  <2>3. s[1] = mbuf[n + 1 + 1 - 1] /\ s[2] = mbuf[n + 1 + 2 - 1]
    BY <2>1, <1>3
  <2> QED BY <2>2, <2>3
<1>7. s = Magic => HasMagic(mbuf, n)
  BY <1>4, <1>6 DEF HasMagic
<1>8. ASSUME HasMagic(mbuf, n) PROVE s = Magic
  <2>1. \A i \in 1..Len(s) : s[i] = Magic[i]
    BY <1>4, <1>6, <1>8 DEF HasMagic
  <2> QED BY <2>1, <1>3, <1>4, <1>6, SeqEqual, ZenonT(60)
<1> QED BY <1>5, <1>7, <1>8

\* What Resync drops has no magic number in it.
LEMMA ResyncBytes ==
  ASSUME mbuf \in Seq(Nat), Len(mbuf) >= 4, ~MagicAt(0),
         NEW k, k = IF noskip THEN 1 ELSE SkipTo
  PROVE  k \in 1..Len(mbuf) - 2 /\ \A p \in 0..k - 1 : ~HasMagic(mbuf, p)
<1>1. Len(mbuf) \in Nat /\ Len(Magic) = 2
  BY LenProperties DEF Magic
<1>2. ~HasMagic(mbuf, 0)
  BY <1>1, MagicAtIs
<1> DEFINE M == {n \in 1..Len(mbuf) - Len(Magic) - 1 : MagicAt(n)}
<1>3. SkipTo = IF M = {} THEN Len(mbuf) - 2 ELSE CHOOSE n \in M : \A j \in M : n <= j
  <2>1. Len(mbuf) - Len(Magic) = Len(mbuf) - 2
    BY <1>1
  <2>2. SkipTo = IF M = {} THEN Len(mbuf) - Len(Magic)
                 ELSE CHOOSE n \in M : \A j \in M : n <= j
    BY Zenon DEF SkipTo
  <2> QED BY <2>1, <2>2
<1>4. \A n \in 1..Len(mbuf) - 3 : n \in M <=> HasMagic(mbuf, n)
  <2> TAKE n \in 1..Len(mbuf) - 3
  <2>1. n \in Nat /\ n + 2 <= Len(mbuf) /\ n \in 1..Len(mbuf) - Len(Magic) - 1
    BY <1>1
  <2>2. MagicAt(n) <=> HasMagic(mbuf, n)
    BY <2>1, MagicAtIs
  <2>3. n \in M <=> MagicAt(n)
    BY <2>1
  <2> QED BY <2>2, <2>3
<1>5. M \subseteq Nat /\ M \subseteq 1..Len(mbuf) - 3
  BY <1>1
<1> HIDE DEF M
<1>6. CASE noskip
  BY <1>1, <1>2, <1>6
<1>7. CASE ~noskip /\ M = {}
  <2>1. k = Len(mbuf) - 2
    BY <1>3, <1>7
  <2>2. ASSUME NEW p \in 0..k - 1 PROVE ~HasMagic(mbuf, p)
    <3>1. p = 0 \/ p \in 1..Len(mbuf) - 3
      BY <2>1, <1>1
    <3> QED BY <3>1, <1>2, <1>4, <1>7
  <2> QED BY <2>1, <2>2, <1>1
<1>8. CASE ~noskip /\ M # {}
  <2>1. \E n \in M : \A j \in M : n <= j
    BY <1>5, <1>8, NatMin
  <2>2. k = CHOOSE n \in M : \A j \in M : n <= j
    BY <1>3, <1>8
  <2>3. k \in M /\ \A j \in M : k <= j
    BY <2>1, <2>2, Zenon
  <2>4. k \in 1..Len(mbuf) - 3
    BY <2>3, <1>5
  <2>5. ASSUME NEW p \in 0..k - 1 PROVE ~HasMagic(mbuf, p)
    <3>1. p = 0 \/ p \in 1..Len(mbuf) - 3
      BY <2>4, <1>1
    <3>2. p \notin M
      BY <2>3, <2>4
    <3> QED BY <3>1, <3>2, <1>2, <1>4
  <2> QED BY <2>4, <2>5, <1>1
<1> QED BY <1>6, <1>7, <1>8

MsgTypes ==
  /\ frames \in Seq(Frames) /\ wireb \in Seq(Nat) /\ mbuf \in Seq(Nat)
  /\ mpc2 \in {"read", "pack"} /\ noskip \in BOOLEAN /\ zdrop \in BOOLEAN

\* The buffer and the wire are what is left of the stream behind d frames, and the
\* caller has those of the d that can be unpacked.
InStream ==
  \E pos, c, d : Layout(frames, mbuf \o wireb, pos, c, d) /\ out = UnpackableOf(frames)[d]

\* The caller only reads on when no whole message is at the front of its buffer.
WaitsForMore ==
  mpc2 = "read" /\ ~zdrop =>
    Len(mbuf) < 4 \/ (HasMagic(mbuf, 0) /\ Len(mbuf) - 4 < mbuf[4])

MsgIInv == MsgTypes /\ InStream /\ WaitsForMore

\* Before anything has come the invariant holds.
LEMMA MsgInitInv == MsgInit => MsgIInv
<1> SUFFICES ASSUME MsgInit PROVE MsgIInv
  OBVIOUS
<1>2. <<>> \in Seq(Nat) /\ Len(<<>>) = 0 /\ frames = <<>> /\ mbuf = <<>>
  BY DEF MsgInit
<1>1. MsgTypes /\ WaitsForMore
  <2>1. MsgTypes
    <3>1. frames \in Seq(Frames) /\ wireb \in Seq(Nat) /\ mbuf \in Seq(Nat)
      BY EmptySeq DEF MsgInit
    <3> QED BY <3>1, Zenon DEF MsgInit, MsgTypes
  <2>2. Len(mbuf) < 4
    BY <1>2
  <2> QED BY <2>1, <2>2 DEF WaitsForMore
<1>3. mbuf \o wireb = <<>>
  BY DEF MsgInit
<1>4. Layout(frames, <<>>, <<>>, 0, 0)
  BY <1>2 DEF Layout, FrameEnd
<1>5. out = UnpackableOf(frames)[0]
  <2>1. Len(frames) \in Nat
    BY <1>2
  <2> QED BY <2>1, UnpackStep DEF MsgInit
<1>6. InStream
  BY <1>3, <1>4, <1>5 DEF InStream
<1> QED BY <1>1, <1>6 DEF MsgIInv

\* The client sends.
LEMMA FrameSentInv ==
  ASSUME MsgIInv, NEW g \in Garbage, NEW f \in Frames, FrameSent(g, f)
  PROVE  MsgIInv'
<1> DEFINE w == wireb \o g \o Packed(Len(frames) + 1, f)
<1>1. /\ frames \in Seq(Frames) /\ wireb \in Seq(Nat) /\ mbuf \in Seq(Nat)
      /\ Len(frames) \in Nat
  BY LenProperties DEF MsgIInv, MsgTypes
<1>2. /\ frames' = Append(frames, f) /\ wireb' = w
      /\ mbuf' = mbuf /\ mpc2' = mpc2 /\ noskip' = noskip /\ out' = out /\ zdrop' = zdrop
  BY DEF FrameSent, msgVars
<1>3. w \in Seq(Nat) /\ FrameAdded(frames, frames', mbuf \o wireb, g, mbuf' \o wireb')
  <2>1. w \in Seq(Nat) /\ FrameAdded(frames, Append(frames, f), mbuf \o wireb, g, mbuf \o w)
    BY <1>1, SentBytes
  <2> HIDE DEF w
  <2> QED BY <2>1, <1>2
<1> HIDE DEF w
<1>4. /\ frames' \in Seq(Frames) /\ Len(frames') = Len(frames) + 1
      /\ \A i \in 1..Len(frames) : frames'[i] = frames[i]
  BY <1>1, <1>2, AppendProperties
<1>5. MsgTypes'
  <2>1. mpc2' \in {"read", "pack"} /\ noskip' \in BOOLEAN /\ zdrop' \in BOOLEAN
    BY <1>2 DEF MsgIInv, MsgTypes
  <2>2. wireb' \in Seq(Nat) /\ mbuf' \in Seq(Nat)
    BY <1>1, <1>2, <1>3
  <2> QED BY <2>1, <2>2, <1>4 DEF MsgTypes
<1>6. InStream'
  <2>1. PICK pos, c, d : Layout(frames, mbuf \o wireb, pos, c, d)
                         /\ out = UnpackableOf(frames)[d]
    BY DEF MsgIInv, InStream
  <2>2. \E ps : Layout(frames', mbuf' \o wireb', ps, c, d)
    BY <2>1, <1>3, LayoutSend
  <2>3. d \in 0..Len(frames)
    BY <2>1, LayoutTypes
  <2>4. UnpackableOf(frames')[d] = UnpackableOf(frames)[d]
    <3>1. Len(frames') \in Nat /\ Len(frames) <= Len(frames')
      BY <1>1, <1>4
    <3> QED BY <3>1, <2>3, <1>1, <1>4, UnpackSame
  <2>5. out' = UnpackableOf(frames')[d]
    BY <2>1, <2>4, <1>2
  <2> QED BY <2>2, <2>5 DEF InStream
<1>7. WaitsForMore'
  BY <1>2 DEF MsgIInv, WaitsForMore, HasMagic
<1> QED BY <1>5, <1>6, <1>7 DEF MsgIInv

\* Bytes move from the wire to the buffer.
LEMMA SomeArriveInv == ASSUME MsgIInv, SomeArrive PROVE MsgIInv'
<1>1. wireb \in Seq(Nat) /\ mbuf \in Seq(Nat) /\ Len(wireb) \in Nat
  BY LenProperties DEF MsgIInv, MsgTypes
<1>2. PICK n \in 1..Len(wireb) : /\ mbuf' = mbuf \o SubSeq(wireb, 1, n)
                                 /\ wireb' = SubSeq(wireb, n + 1, Len(wireb))
  BY DEF SomeArrive
<1>3. frames' = frames /\ noskip' = noskip /\ out' = out /\ zdrop' = zdrop /\ mpc2' = "pack"
  BY DEF SomeArrive
<1> DEFINE a == SubSeq(wireb, 1, n)  b == SubSeq(wireb, n + 1, Len(wireb))
<1>4. b \in Seq(Nat)
  <2>1. n \in 0..Len(wireb)
    BY <1>1
  <2> QED BY <2>1, <1>1, CutFront
<1>5. a \in Seq(Nat) /\ Len(a) = n /\ \A j \in 1..n : a[j] = wireb[j]
  <2>1. \A j \in 1..n : wireb[j] \in Nat
    BY <1>1, ElementOfSeq
  <2>2. /\ a \in Seq(Nat) /\ Len(a) = IF 1 <= n THEN n - 1 + 1 ELSE 0
        /\ \A j \in 1..n - 1 + 1 : a[j] = wireb[1 + j - 1]
    BY <2>1, SubSeqProperties
  <2> HIDE DEF a
  <2>3. n - 1 + 1 = n /\ 1 <= n /\ \A j \in 1..n : 1 + j - 1 = j
    OBVIOUS
  <2> QED BY <2>2, <2>3
<1>6. a \o b = wireb
  <2>1. Len(b) = Len(wireb) - n /\ \A j \in 1..Len(wireb) - n : b[j] = wireb[n + j]
    <3>1. n \in 0..Len(wireb)
      BY <1>1
    <3> QED BY <3>1, <1>1, CutFront
  <2> HIDE DEF a, b
  <2>2. /\ a \o b \in Seq(Nat) /\ Len(a \o b) = Len(a) + Len(b)
        /\ \A j \in 1..Len(a) : (a \o b)[j] = a[j]
        /\ \A j \in 1..Len(b) : (a \o b)[Len(a) + j] = b[j]
    BY <1>4, <1>5, ConcatParts
  <2>3. Len(a \o b) = Len(wireb)
    BY <2>1, <2>2, <1>1, <1>5
  <2>4. ASSUME NEW j \in 1..Len(wireb) PROVE (a \o b)[j] = wireb[j]
    <3>1. CASE j <= n
      <4>1. j \in 1..n
        BY <3>1
      <4> QED BY <4>1, <2>2, <1>5
    <3>2. CASE ~(j <= n)
      <4> DEFINE k == j - n
      <4>1. k \in 1..Len(wireb) - n /\ n + k = j
        BY <3>2, <1>1
      <4> HIDE DEF k
      <4> QED BY <4>1, <2>1, <2>2, <1>5
    <3> QED BY <3>1, <3>2
  <2> QED BY <2>2, <2>3, <2>4, <1>1, SeqEqual
<1> HIDE DEF a, b
<1>7. mbuf' \in Seq(Nat) /\ mbuf' \o wireb' = mbuf \o wireb /\ wireb' \in Seq(Nat)
  <2>1. mbuf' = mbuf \o a /\ wireb' = b
    BY <1>2 DEF a, b
  <2>2. mbuf \o a \in Seq(Nat)
    BY <1>1, <1>5, ConcatParts
  <2>3. (mbuf \o a) \o b = mbuf \o (a \o b)
    BY <1>1, <1>4, <1>5, ConcatNat
  <2> QED BY <2>1, <2>2, <2>3, <1>4, <1>6
<1>8. MsgTypes'
  BY <1>3, <1>7 DEF MsgIInv, MsgTypes
<1>9. InStream'
  BY <1>3, <1>7 DEF MsgIInv, InStream
<1>10. WaitsForMore'
  BY <1>3 DEF WaitsForMore
<1> QED BY <1>8, <1>9, <1>10 DEF MsgIInv

\* Behind the bytes of the buffer come those of the wire.
LEMMA BufferFirst ==
  ASSUME MsgTypes, NEW n \in 0..Len(mbuf)
  PROVE  /\ Len(mbuf) \in Nat /\ Len(mbuf) <= Len(mbuf \o wireb) /\ Len(mbuf \o wireb) \in Nat
         /\ \A i \in 1..Len(mbuf) : (mbuf \o wireb)[i] = mbuf[i]
         /\ SubSeq(mbuf, n + 1, Len(mbuf)) \in Seq(Nat)
         /\ n \in 0..Len(mbuf \o wireb)
         /\ SubSeq(mbuf, n + 1, Len(mbuf)) \o wireb
              = SubSeq(mbuf \o wireb, n + 1, Len(mbuf \o wireb))
<1>1. mbuf \in Seq(Nat) /\ wireb \in Seq(Nat)
  BY DEF MsgTypes
<1>2. /\ Len(mbuf) \in Nat /\ Len(wireb) \in Nat /\ Len(mbuf \o wireb) = Len(mbuf) + Len(wireb)
      /\ \A i \in 1..Len(mbuf) : (mbuf \o wireb)[i] = mbuf[i]
  BY <1>1, ConcatParts
<1>3. SubSeq(mbuf, n + 1, Len(mbuf)) \in Seq(Nat)
  BY <1>1, CutFront
<1>4. /\ n \in 0..Len(mbuf \o wireb)
      /\ SubSeq(mbuf, n + 1, Len(mbuf)) \o wireb
              = SubSeq(mbuf \o wireb, n + 1, Len(mbuf \o wireb))
  BY <1>1, CutConcat
<1>5. Len(mbuf) <= Len(mbuf \o wireb) /\ Len(mbuf \o wireb) \in Nat
  BY <1>2
<1> QED BY <1>2, <1>3, <1>4, <1>5

\* The search for a magic number passes no frame.
LEMMA ResyncInv ==
  ASSUME MsgIInv, mpc2 = "pack", Resync, frames' = frames, wireb' = wireb, noskip' = noskip
  PROVE  MsgIInv'
<1> DEFINE rest == mbuf \o wireb
           k == IF noskip THEN 1 ELSE SkipTo
<1>1. /\ Len(mbuf) >= 4 /\ ~MagicAt(0) /\ mbuf' = SubSeq(mbuf, k + 1, Len(mbuf))
      /\ mpc2' = mpc2 /\ out' = out /\ zdrop' = zdrop
  BY DEF Resync, HeaderLen, Magic, Drop
<1>2. MsgTypes /\ mbuf \in Seq(Nat) /\ Len(mbuf) \in Nat
  BY LenProperties DEF MsgIInv, MsgTypes
<1>3. k \in 1..Len(mbuf) - 2 /\ \A p \in 0..k - 1 : ~HasMagic(mbuf, p)
  BY <1>1, <1>2, ResyncBytes
<1> HIDE DEF k
<1>4. k \in 0..Len(mbuf) /\ k \in Nat
  BY <1>2, <1>3
<1>5. /\ Len(mbuf) <= Len(rest) /\ Len(rest) \in Nat
      /\ \A i \in 1..Len(mbuf) : rest[i] = mbuf[i]
      /\ mbuf' \in Seq(Nat) /\ k \in 0..Len(rest)
      /\ mbuf' \o wireb' = SubSeq(rest, k + 1, Len(rest))
  BY <1>1, <1>2, <1>4, BufferFirst
<1>6. PICK pos, c, d : Layout(frames, rest, pos, c, d) /\ out = UnpackableOf(frames)[d]
  BY DEF MsgIInv, InStream
<1> HIDE DEF rest
<1>7. Len(rest) > 0
  BY <1>1, <1>2, <1>5
<1>8. /\ d \in Nat /\ d + 1 \in 1..Len(frames) /\ c \in Nat
      /\ pos[d + 1] \in Nat /\ c <= pos[d + 1] /\ Len(frames[d + 1].body) \in Nat
      /\ HasHeader(rest, pos[d + 1] - c, frames, d + 1)
      /\ FrameEnd(frames, pos, d + 1) = pos[d + 1] + 4 + Len(frames[d + 1].body)
      /\ \A i \in d + 2..Len(frames) : FrameEnd(frames, pos, d + 1) <= pos[i]
      /\ FrameEnd(frames, pos, d) <= c
  BY <1>6, <1>7, NextFrame
<1>9. c + k <= pos[d + 1]
  <2> SUFFICES ASSUME ~(c + k <= pos[d + 1]) PROVE FALSE
    OBVIOUS
  <2> DEFINE p == pos[d + 1] - c
  <2>1. c \in Nat /\ pos[d + 1] \in Nat /\ c <= pos[d + 1] /\ k \in Nat
    BY <1>8, <1>4
  <2>2. p \in 0..k - 1
    BY <2>1
  <2>3. HasMagic(rest, p)
    BY <1>8 DEF HasHeader
  <2> HIDE DEF p
  <2>4. p + 1 \in 1..Len(mbuf) /\ p + 2 \in 1..Len(mbuf)
    BY <2>2, <1>2, <1>3
  <2>5. HasMagic(mbuf, p)
    BY <2>3, <2>4, <1>5 DEF HasMagic
  <2> QED BY <2>2, <2>5, <1>3
<1>10. ASSUME NEW i \in d + 1..Len(frames) PROVE c + k <= pos[i]
  <2>1. CASE i = d + 1
    BY <2>1, <1>9
  <2>2. CASE i # d + 1
    <3>1. i \in d + 2..Len(frames) /\ i \in 1..Len(frames)
      BY <2>2, <1>8
    <3>2. FrameEnd(frames, pos, d + 1) <= pos[i] /\ pos[i] \in Nat
      BY <3>1, <1>6, <1>8, LayoutTypes
    <3>3. /\ FrameEnd(frames, pos, d + 1) = pos[d + 1] + 4 + Len(frames[d + 1].body)
          /\ pos[d + 1] \in Nat /\ Len(frames[d + 1].body) \in Nat
          /\ c \in Nat /\ k \in Nat
      BY <1>4, <1>8
    <3> QED BY <3>2, <3>3, <1>9, SMTT(30)
  <2> QED BY <2>1, <2>2
<1>11. Layout(frames, SubSeq(rest, k + 1, Len(rest)), pos, c + k, d)
  <2>1. FrameEnd(frames, pos, d) <= c + k /\ d \in d..Len(frames)
    <3>1. FrameEnd(frames, pos, d) \in Nat /\ d \in 0..Len(frames) /\ Len(frames) \in Nat
      BY <1>6, LayoutTypes
    <3> QED BY <3>1, <1>4, <1>8
  <2> QED BY <2>1, <1>5, <1>6, <1>10, LayoutCut
<1>12. InStream'
  BY <1>1, <1>5, <1>6, <1>11 DEF InStream
<1>13. MsgTypes'
  BY <1>1, <1>2, <1>5 DEF MsgTypes
<1>14. WaitsForMore'
  BY <1>1 DEF WaitsForMore
<1> QED BY <1>12, <1>13, <1>14 DEF MsgIInv

\* A message at the front is the next one, and is taken off whole.
LEMMA TakeMsgInv ==
  ASSUME MsgIInv, mpc2 = "pack", Len(mbuf) >= HeaderLen, MagicAt(0), IsComplete,
         TakeMsg(mbuf[HeaderLen - 1]), frames' = frames, wireb' = wireb, noskip' = noskip
  PROVE  MsgIInv'
<1> DEFINE rest == mbuf \o wireb
           k == 4 + mbuf[4]
           id == mbuf[3]
<1>1. HeaderLen = 4 /\ HeaderLen - 1 = 3 /\ Len(mbuf) >= 4
  BY DEF HeaderLen, Magic
<1>2. MsgTypes /\ mbuf \in Seq(Nat) /\ Len(mbuf) \in Nat
  BY LenProperties DEF MsgIInv, MsgTypes
<1>3. BodyLen = mbuf[4] /\ mbuf[4] \in Nat /\ Len(mbuf) - 4 >= mbuf[4]
  BY <1>1, <1>2, ElementOfSeq DEF IsComplete, BodyLen
<1>4. /\ mbuf' = SubSeq(mbuf, k + 1, Len(mbuf))
      /\ \/ frames[id].z /\ zdrop' = TRUE /\ mpc2' = "read" /\ out' = out
         \/ ~frames[id].z /\ out' = Append(out, id) /\ mpc2' = mpc2 /\ zdrop' = zdrop
  BY <1>1, <1>3 DEF TakeMsg, Drop
<1>5. HasMagic(mbuf, 0)
  BY <1>1, <1>2, MagicAtIs
<1>6. k \in 0..Len(mbuf) /\ k \in Nat
  BY <1>1, <1>2, <1>3
<1> HIDE DEF k, id
<1>7. /\ Len(mbuf) <= Len(rest) /\ Len(rest) \in Nat
      /\ \A i \in 1..Len(mbuf) : rest[i] = mbuf[i]
      /\ mbuf' \in Seq(Nat) /\ k \in 0..Len(rest)
      /\ mbuf' \o wireb' = SubSeq(rest, k + 1, Len(rest))
  BY <1>2, <1>4, <1>6, BufferFirst
<1>8. PICK pos, c, d : Layout(frames, rest, pos, c, d) /\ out = UnpackableOf(frames)[d]
  BY DEF MsgIInv, InStream
<1> HIDE DEF rest
<1>9. HasMagic(rest, 0) /\ rest[3] = mbuf[3] /\ rest[4] = mbuf[4] /\ Len(rest) > 0
  <2>1. /\ 1 \in 1..Len(mbuf) /\ 2 \in 1..Len(mbuf) /\ 3 \in 1..Len(mbuf) /\ 4 \in 1..Len(mbuf)
        /\ 0 + 1 = 1 /\ 0 + 2 = 2
    BY <1>1, <1>2
  <2>2. Len(rest) > 0
    BY <1>1, <1>2, <1>7
  <2> QED BY <2>1, <2>2, <1>5, <1>7 DEF HasMagic
<1>10. /\ d \in Nat /\ d + 1 \in 1..Len(frames) /\ c \in Nat
       /\ HasHeader(rest, pos[d + 1] - c, frames, d + 1)
       /\ FrameEnd(frames, pos, d + 1) = pos[d + 1] + 4 + Len(frames[d + 1].body)
       /\ \A i \in d + 2..Len(frames) : FrameEnd(frames, pos, d + 1) <= pos[i]
       /\ pos[d + 1] = c /\ Len(frames[d + 1].body) \in Nat
  <2>1. Layout(frames, rest, pos, c, d) /\ Len(rest) > 0
    BY <1>8, <1>9
  <2>2. /\ d \in Nat /\ d + 1 \in 1..Len(frames) /\ c \in Nat
        /\ HasHeader(rest, pos[d + 1] - c, frames, d + 1)
        /\ FrameEnd(frames, pos, d + 1) = pos[d + 1] + 4 + Len(frames[d + 1].body)
        /\ \A i \in d + 2..Len(frames) : FrameEnd(frames, pos, d + 1) <= pos[i]
        /\ Len(frames[d + 1].body) \in Nat
        /\ HasMagic(rest, 0) => pos[d + 1] = c
    BY <2>1, NextFrame, SMTT(30)
  <2> QED
    BY <1>9, <2>2
<1>11. id = d + 1 /\ k = 4 + Len(frames[d + 1].body)
  <2>1. pos[d + 1] - c = 0
    BY <1>10
  <2>2. HasHeader(rest, 0, frames, d + 1)
    BY <2>1, <1>10
  <2>3. rest[0 + 3] = d + 1 /\ rest[0 + 4] = Len(frames[d + 1].body)
    BY <2>2 DEF HasHeader
  <2> QED BY <2>3, <1>9 DEF id, k
<1>12. FrameEnd(frames, pos, d + 1) = c + k
  <2>1. FrameEnd(frames, pos, d + 1) = c + 4 + Len(frames[d + 1].body)
    BY <1>10
  <2>2. c \in Nat /\ Len(frames[d + 1].body) \in Nat
    BY <1>10
  <2>3. \A a, l \in Nat : a + 4 + l = a + (4 + l)
    OBVIOUS
  <2>4. c + 4 + Len(frames[d + 1].body) = c + (4 + Len(frames[d + 1].body))
    BY <2>2, <2>3
  <2> QED BY <2>1, <2>4, <1>11
<1>13. Layout(frames, SubSeq(rest, k + 1, Len(rest)), pos, c + k, d + 1)
  <2>1. d + 1 \in d..Len(frames) /\ d + 1 + 1 = d + 2
    BY <1>10
  <2>2. \A i \in d + 1 + 1..Len(frames) : c + k <= pos[i]
    BY <2>1, <1>10, <1>12
  <2>3. FrameEnd(frames, pos, d + 1) <= c + k
    BY <1>6, <1>10, <1>12
  <2> QED BY <2>1, <2>2, <2>3, <1>7, <1>8, LayoutCut
<1>14. out' = UnpackableOf(frames)[d + 1]
  <2>1. Len(frames) \in Nat
    BY <1>8, LayoutTypes
  <2>2. UnpackableOf(frames)[d + 1] = IF frames[d + 1].z THEN UnpackableOf(frames)[d + 1 - 1]
                                      ELSE Append(UnpackableOf(frames)[d + 1 - 1], d + 1)
    BY <2>1, <1>10, UnpackStep
  <2>3. d + 1 - 1 = d
    BY <1>10
  <2> QED BY <2>2, <2>3, <1>4, <1>8, <1>11
<1>15. InStream'
  BY <1>7, <1>13, <1>14 DEF InStream
<1>16. MsgTypes'
  BY <1>2, <1>4, <1>7 DEF MsgTypes
<1>17. WaitsForMore'
  BY <1>4 DEF WaitsForMore
<1> QED BY <1>15, <1>16, <1>17 DEF MsgIInv

\* Every step keeps the invariant.
LEMMA MsgStepInv == MsgIInv /\ [MsgNext]_msgVars => MsgIInv'
<1> SUFFICES ASSUME MsgIInv, [MsgNext]_msgVars PROVE MsgIInv'
  OBVIOUS
<1>1. ASSUME NEW g \in Garbage, NEW f \in Frames, FrameSent(g, f) PROVE MsgIInv'
  BY <1>1, FrameSentInv
<1>2. CASE SomeArrive
  BY <1>2, SomeArriveInv
<1>3. CASE hp_pm_pack
  <2>1. mpc2 = "pack" /\ frames' = frames /\ wireb' = wireb /\ noskip' = noskip
    BY <1>3 DEF hp_pm_pack
  <2>2. HeaderLen = 4 /\ MsgTypes /\ mbuf \in Seq(Nat) /\ Len(mbuf) \in Nat
    BY LenProperties DEF HeaderLen, Magic, MsgIInv, MsgTypes
  <2>3. ASSUME MoreData, Len(mbuf) < 4 \/ (HasMagic(mbuf, 0) /\ Len(mbuf) - 4 < mbuf[4])
        PROVE  MsgIInv'
    <3>1. mbuf' = mbuf /\ mpc2' = "read" /\ out' = out /\ zdrop' = zdrop
      BY <2>3 DEF MoreData
    <3>2. WaitsForMore'
      BY <2>3, <3>1 DEF WaitsForMore, HasMagic
    <3> QED BY <2>1, <3>1, <3>2 DEF MsgIInv, MsgTypes, InStream
  <2>4. CASE Len(mbuf) < HeaderLen /\ MoreData
    BY <2>2, <2>3, <2>4
  <2>5. CASE Resync
    BY <2>1, <2>5, ResyncInv
  <2>6. CASE Len(mbuf) >= HeaderLen /\ MagicAt(0) /\ IsComplete /\ TakeMsg(mbuf[HeaderLen - 1])
    BY <2>1, <2>6, TakeMsgInv
  <2>7. CASE Len(mbuf) >= HeaderLen /\ MagicAt(0) /\ ~IsComplete /\ MoreData
    <3>1. HasMagic(mbuf, 0)
      BY <2>2, <2>7, MagicAtIs
    <3>2. mbuf[4] \in Nat
      BY <2>2, <2>7, ElementOfSeq
    <3>3. Len(mbuf) - 4 < mbuf[4]
      BY <2>2, <2>7, <3>2 DEF IsComplete, BodyLen
    <3> QED BY <2>3, <2>7, <3>1, <3>3
  <2> QED BY <1>3, <2>4, <2>5, <2>6, <2>7 DEF hp_pm_pack
<1>4. CASE UNCHANGED msgVars
  BY <1>4 DEF msgVars, MsgIInv, MsgTypes, InStream, WaitsForMore, HasMagic
<1> QED BY <1>1, <1>2, <1>3, <1>4 DEF MsgNext

\* What has been handed over is the beginning of what is to be handed over.
LEMMA MsgIInvOrder == MsgIInv => MsgsInOrder
<1> SUFFICES ASSUME MsgIInv PROVE MsgsInOrder
  OBVIOUS
<1>1. PICK pos, c, d : Layout(frames, mbuf \o wireb, pos, c, d) /\ out = UnpackableOf(frames)[d]
  BY DEF MsgIInv, InStream
<1> DEFINE u == UnpackableOf(frames)[Len(frames)]
<1>2. /\ out \in Seq(Nat) /\ u \in Seq(Nat) /\ Len(out) <= Len(u)
      /\ \A i \in 1..Len(out) : u[i] = out[i]
  <2>1. Len(frames) \in Nat /\ d \in 0..Len(frames) /\ Len(frames) \in d..Len(frames)
    BY <1>1, LayoutTypes
  <2>2. /\ UnpackableOf(frames)[d] \in Seq(Nat) /\ u \in Seq(Nat)
        /\ Len(UnpackableOf(frames)[d]) <= Len(u)
        /\ \A i \in 1..Len(UnpackableOf(frames)[d]) : u[i] = UnpackableOf(frames)[d][i]
    BY <2>1, UnpackPrefix
  <2> QED BY <2>2, <1>1
<1>3. Unpackable = u
  BY DEF Unpackable
<1> HIDE DEF u
<1>4. Len(out) \in Nat /\ Len(u) \in Nat
  BY <1>2, LenProperties
<1> DEFINE s == SubSeq(out, 1, Len(out))  t == SubSeq(u, 1, Len(out))
<1>5. \A i \in 1..Len(out) : out[i] \in Nat /\ u[i] \in Nat /\ 1 + i - 1 = i
  BY <1>2, <1>4, ElementOfSeq
<1>6. /\ s \in Seq(Nat) /\ Len(s) = (IF 1 <= Len(out) THEN Len(out) - 1 + 1 ELSE 0)
      /\ \A i \in 1..Len(out) - 1 + 1 : s[i] = out[1 + i - 1]
  BY <1>4, <1>5, SubSeqProperties
<1>7. /\ t \in Seq(Nat) /\ Len(t) = (IF 1 <= Len(out) THEN Len(out) - 1 + 1 ELSE 0)
      /\ \A i \in 1..Len(out) - 1 + 1 : t[i] = u[1 + i - 1]
  BY <1>4, <1>5, SubSeqProperties
<1> HIDE DEF s, t
<1>8. Len(s) = Len(out) /\ Len(t) = Len(out) /\ Len(out) - 1 + 1 = Len(out)
  BY <1>4, <1>6, <1>7
<1>9. \A i \in 1..Len(out) : s[i] = t[i]
  BY <1>2, <1>5, <1>6, <1>7, <1>8
<1>10. s = t
  BY <1>6, <1>7, <1>8, <1>9, SeqEqual
<1> QED BY <1>2, <1>3, <1>10 DEF MsgsInOrder, IsPrefix, s, t

\* When the caller waits and nothing is under way, no frame is left.
LEMMA MsgIInvWaits == MsgIInv => NoMsgWaits
<1> SUFFICES ASSUME MsgIInv, wireb = <<>>, mpc2 = "read", ~zdrop PROVE out = Unpackable
  BY DEF NoMsgWaits
<1>1. mbuf \in Seq(Nat) /\ Len(mbuf) \in Nat
  BY LenProperties DEF MsgIInv, MsgTypes
<1>2. mbuf \o wireb = mbuf
  BY <1>1, ConcatEmptySeq
<1>3. PICK pos, c, d : Layout(frames, mbuf, pos, c, d) /\ out = UnpackableOf(frames)[d]
  BY <1>2 DEF MsgIInv, InStream
<1>4. Len(frames) \in Nat /\ d \in 0..Len(frames)
  BY <1>3, LayoutTypes
<1>5. ASSUME d < Len(frames) PROVE FALSE
  <2>1. /\ d \in Nat /\ c \in Nat
        /\ pos[d + 1] \in Nat /\ c <= pos[d + 1] /\ Len(frames[d + 1].body) \in Nat
        /\ HasHeader(mbuf, pos[d + 1] - c, frames, d + 1)
        /\ FrameEnd(frames, pos, d + 1) = pos[d + 1] + 4 + Len(frames[d + 1].body)
        /\ FrameEnd(frames, pos, d + 1) <= c + Len(mbuf)
        /\ HasMagic(mbuf, 0) => pos[d + 1] = c
    BY <1>3, <1>5, NextFrame
  <2>2. /\ c \in Nat /\ pos[d + 1] \in Nat /\ c <= pos[d + 1] /\ Len(frames[d + 1].body) \in Nat
        /\ pos[d + 1] + 4 + Len(frames[d + 1].body) <= c + Len(mbuf)
    BY <2>1
  <2>3. ~(Len(mbuf) < 4)
    BY <2>2, <1>1
  <2>4. HasMagic(mbuf, 0) /\ Len(mbuf) - 4 < mbuf[4]
    BY <2>3 DEF MsgIInv, WaitsForMore
  <2>5. pos[d + 1] = c
    BY <2>1, <2>4
  <2>6. mbuf[4] = Len(frames[d + 1].body)
    <3>1. pos[d + 1] - c = 0
      BY <2>2, <2>5
    <3>2. HasHeader(mbuf, 0, frames, d + 1)
      BY <3>1, <2>1
    <3>3. mbuf[0 + 4] = Len(frames[d + 1].body)
      BY <3>2 DEF HasHeader
    <3> QED BY <3>3
  <2>7. \A a, l, m \in Nat : a + 4 + l <= a + m => ~(m - 4 < l)
    OBVIOUS
  <2>8. c + 4 + Len(frames[d + 1].body) <= c + Len(mbuf)
    BY <2>2, <2>5
  <2>9. ~(Len(mbuf) - 4 < Len(frames[d + 1].body))
    BY <2>2, <2>7, <2>8, <1>1
  <2> QED BY <2>4, <2>6, <2>9
<1>6. d = Len(frames)
  BY <1>4, <1>5
<1> QED BY <1>3, <1>6 DEF Unpackable

\* Messages.  However the stream is cut into reads, and whatever lies between the
\* messages, hp_pm_pack hands over those that can be unpacked whole and in their
\* order, and asks for more data only when it has handed over all there are.
THEOREM MessagesComeWhole == MsgSpec => []MsgsWhole
<1>1. MsgInit => MsgIInv
  BY MsgInitInv
<1>2. MsgIInv /\ [MsgNext]_msgVars => MsgIInv'
  BY MsgStepInv
<1>3. MsgIInv => MsgsWhole
  BY MsgIInvOrder, MsgIInvWaits DEF MsgsWhole
<1> QED BY <1>1, <1>2, <1>3, PTL DEF MsgSpec

-----------------------------------------------------------------------------
(* HpHttp *)

\* f solves the recursion of UrlsOf(b) up to n.
UrlsRec(b, f, n) ==
  f = [k \in 0..n |-> IF k = 0 THEN <<>>
                      ELSE IF b[k][2] = 2 THEN Append(f[k - 1], b[k][1]) ELSE f[k - 1]]

\* The recursion has a solution.
LEMMA UrlsExist ==
  ASSUME NEW b, Len(b) \in Nat
  PROVE  \A n \in 0..Len(b) : \E f : UrlsRec(b, f, n)
<1> DEFINE T == {n \in 0..Len(b) : ~ \E f : UrlsRec(b, f, n)}
<1> SUFFICES ASSUME T # {} PROVE FALSE
  OBVIOUS
<1>1. PICK m \in T : \A k \in T : m <= k
  BY NatMin, T \subseteq Nat
<1>2. m # 0
  <2> SUFFICES ASSUME m = 0 PROVE FALSE
    OBVIOUS
  <2> DEFINE g == [k \in 0..0 |-> <<>>]
  <2>1. UrlsRec(b, g, 0)
    BY DEF UrlsRec
  <2> QED BY <2>1, <1>1
<1>3. PICK f : UrlsRec(b, f, m - 1)
  BY <1>1, <1>2
<1> DEFINE g == [k \in 0..m |-> IF k < m THEN f[k]
                                ELSE IF b[m][2] = 2 THEN Append(f[m - 1], b[m][1]) ELSE f[m - 1]]
<1>4. UrlsRec(b, g, m)
  <2> SUFFICES ASSUME NEW k \in 0..m
               PROVE  g[k] = IF k = 0 THEN <<>>
                             ELSE IF b[k][2] = 2 THEN Append(g[k - 1], b[k][1]) ELSE g[k - 1]
    BY DEF UrlsRec
  <2>0. m \in Nat
    BY <1>1
  <2> HIDE DEF T
  <2>1. \A j \in 0..m-1 : f[j] = IF j = 0 THEN <<>>
                                 ELSE IF b[j][2] = 2 THEN Append(f[j - 1], b[j][1]) ELSE f[j - 1]
    BY <1>3 DEF UrlsRec
  <2>2. CASE k = m
    BY <2>0, <2>2, <1>2
  <2>3. CASE k # m
    BY <2>0, <2>1, <2>3, <1>2
  <2> QED BY <2>2, <2>3
<1> QED BY <1>4, <1>1

\* UrlsOf satisfies its recursive definition.
LEMMA UrlsStep ==
  ASSUME NEW b, Len(b) \in Nat
  PROVE  /\ UrlsOf(b)[0] = <<>>
         /\ \A k \in 1..Len(b) :
              UrlsOf(b)[k] = IF b[k][2] = 2 THEN Append(UrlsOf(b)[k - 1], b[k][1])
                             ELSE UrlsOf(b)[k - 1]
<1> DEFINE u == UrlsOf(b)
<1>1. PICK f : UrlsRec(b, f, Len(b))
  BY UrlsExist
<1>2. u = CHOOSE s : UrlsRec(b, s, Len(b))
  BY Zenon DEF UrlsOf, UrlsRec
<1>3. UrlsRec(b, u, Len(b))
  BY <1>1, <1>2, Zenon
<1> HIDE DEF u
<1>4. \A k \in 0..Len(b) : u[k] = IF k = 0 THEN <<>>
                                  ELSE IF b[k][2] = 2 THEN Append(u[k - 1], b[k][1]) ELSE u[k - 1]
  BY <1>3 DEF UrlsRec
<1>5. u[0] = <<>> /\ \A k \in 1..Len(b) : u[k] = IF b[k][2] = 2 THEN Append(u[k - 1], b[k][1]) ELSE u[k - 1]
  BY <1>4
<1> QED BY <1>5 DEF u

Tokens == Nat \X Nat

\* URLs are numbers.
LEMMA UrlsType ==
  ASSUME NEW b \in Seq(Tokens)
  PROVE  Urls(b) \in Seq(Nat)
<1> DEFINE u == UrlsOf(b)
<1>0. Len(b) \in Nat /\ \A k \in 1..Len(b) : b[k] \in Tokens
  BY LenProperties, ElementOfSeq
<1>1. \A k \in 1..Len(b) : b[k][1] \in Nat
  BY <1>0 DEF Tokens
<1>2. /\ u[0] = <<>>
      /\ \A k \in 1..Len(b) : u[k] = IF b[k][2] = 2 THEN Append(u[k - 1], b[k][1]) ELSE u[k - 1]
  BY <1>0, UrlsStep
<1> HIDE DEF u
<1>3. \A k \in 0..Len(b) : u[k] \in Seq(Nat)
  <2> DEFINE T == {k \in 0..Len(b) : u[k] \notin Seq(Nat)}
  <2> SUFFICES ASSUME T # {} PROVE FALSE
    OBVIOUS
  <2>1. PICK m \in T : \A k \in T : m <= k
    BY NatMin, T \subseteq Nat
  <2>2. m # 0
    BY <1>2, <2>1, <<>> \in Seq(Nat)
  <2>3. m \in 1..Len(b) /\ u[m - 1] \in Seq(Nat)
    BY <2>1, <2>2
  <2>4. Append(u[m - 1], b[m][1]) \in Seq(Nat)
    BY <2>3, <1>1, AppendProperties
  <2> QED BY <2>1, <2>3, <2>4, <1>2
<1> QED BY <1>0, <1>3 DEF Urls, u

\* The URL of a whole request.
LEMMA UrlsOfRequest ==
  ASSUME NEW n \in Nat
  PROVE  Urls(HttpRequest(n)) = <<n>>
<1> DEFINE b == HttpRequest(n)
<1>1. /\ Len(b) = 3 /\ b[1][2] = 1 /\ b[2][2] = 2 /\ b[2][1] = n /\ b[3][2] = 3
  BY DEF HttpRequest
<1>2. Urls(b) = UrlsOf(b)[3]
  BY <1>1 DEF Urls
<1> HIDE DEF b
<1>3. Len(b) \in Nat
  BY <1>1
<1>4. /\ UrlsOf(b)[0] = <<>>
      /\ \A k \in 1..Len(b) : UrlsOf(b)[k] = IF b[k][2] = 2 THEN Append(UrlsOf(b)[k - 1], b[k][1])
                                             ELSE UrlsOf(b)[k - 1]
  BY <1>3, UrlsStep
<1>5. UrlsOf(b)[1] = <<>>
  <2>1. 1 \in 1..Len(b) /\ 1 - 1 = 0
    BY <1>1
  <2> QED BY <2>1, <1>1, <1>4
<1>6. UrlsOf(b)[2] = Append(<<>>, n)
  <2>1. 2 \in 1..Len(b) /\ 2 - 1 = 1
    BY <1>1
  <2> QED BY <2>1, <1>1, <1>4, <1>5
<1>7. UrlsOf(b)[3] = Append(<<>>, n)
  <2>1. 3 \in 1..Len(b) /\ 3 - 1 = 2
    BY <1>1
  <2> QED BY <2>1, <1>1, <1>4, <1>6
<1>8. Append(<<>>, n) = <<n>>
  OBVIOUS
<1> QED BY <1>2, <1>7, <1>8 DEF b

Requests == [at : Nat, flags : {0, 1}, url : Seq(Nat)]

HttpTypes ==
  /\ hsent \in [HttpConns -> Nat]
  /\ hin \in [HttpConns -> Seq(Tokens)] /\ hbuf \in [HttpConns -> Seq(Tokens)]
  /\ req \in [HttpConns -> Requests] /\ reqlist \subseteq HttpConns
  /\ served \in [HttpConns -> Seq(Seq(Nat))] /\ single \in [HttpConns -> BOOLEAN]

\* A token is served, under way or in the buffer at most once; flags says whether
\* a request was served.  Of a connection: k requests were sent, h is under way, b
\* in the buffer, q the request, s what was served.
Counted(k, h, b, q, s) ==
  /\ Len(s) + Len(h) + Len(b) <= 3 * k
  /\ s # <<>> <=> q.flags = 1
  /\ q.flags = 1 => b = <<>> /\ Len(h) + 3 <= 3 * k

\* Before the first request was served: nothing has been parsed and the stream
\* begins with it, or its beginning is still in the buffer, where it does not
\* follow what has been parsed.
Ahead(k, h, b, q) ==
  q.flags = 0 /\ q.at # Broken =>
    \/ /\ q.at = 0 /\ b = <<>> /\ q.url = <<>>
       /\ \/ h = <<>> /\ k = 0
          \/ h # <<>> /\ h[1] = <<1, 1>>
    \/ q.at \in {1, 2} /\ b # <<>> /\ b[1][2] = 1

TokensCounted(c) == Counted(hsent[c], hin[c], hbuf[c], req[c], served[c])
FirstAhead(c) == IsOpen(c) => Ahead(hsent[c], hin[c], hbuf[c], req[c])
FirstServed(c) == single[c] /\ served[c] # <<>> => served[c][1] = <<1>>

ConnInv(c) == TokensCounted(c) /\ FirstAhead(c) /\ FirstServed(c)
HttpIInv == HttpTypes /\ \A c \in HttpConns : ConnInv(c)

\* Without connections the invariant holds.
LEMMA HttpInitInv == HttpInit => HttpIInv
<1> SUFFICES ASSUME HttpInit PROVE HttpIInv
  OBVIOUS
<1>1. /\ <<>> \in Seq(Tokens) /\ <<>> \in Seq(Seq(Nat)) /\ <<>> \in Seq(Nat) /\ Len(<<>>) = 0
      /\ NewRequest \in Requests /\ NewRequest.flags = 0
  BY DEF NewRequest, Requests
<1>2. HttpTypes
  BY <1>1 DEF HttpInit, HttpTypes
<1>3. ASSUME NEW c \in HttpConns PROVE ConnInv(c)
  BY <1>1 DEF HttpInit, ConnInv, TokensCounted, Counted, FirstAhead, Ahead, FirstServed, IsOpen
<1> QED BY <1>2, <1>3 DEF HttpIInv

\* What ConnInv of a connection depends on.
LEMMA ConnSame ==
  ASSUME NEW c, ConnInv(c), hsent'[c] = hsent[c], hin'[c] = hin[c], hbuf'[c] = hbuf[c],
         req'[c] = req[c], served'[c] = served[c], single'[c] = single[c],
         c \in reqlist' <=> c \in reqlist
  PROVE  ConnInv(c)'
BY DEF ConnInv, TokensCounted, Counted, FirstAhead, Ahead, FirstServed, IsOpen

\* The types of a connection's variables.
LEMMA ConnTypes ==
  ASSUME HttpTypes, NEW c \in HttpConns
  PROVE  /\ hsent[c] \in Nat /\ hin[c] \in Seq(Tokens) /\ hbuf[c] \in Seq(Tokens)
         /\ req[c] \in Requests /\ served[c] \in Seq(Seq(Nat)) /\ single[c] \in BOOLEAN
         /\ Len(hin[c]) \in Nat /\ Len(hbuf[c]) \in Nat /\ Len(served[c]) \in Nat
         /\ req[c].at \in Nat /\ req[c].flags \in {0, 1} /\ req[c].url \in Seq(Nat)
<1>1. /\ hsent[c] \in Nat /\ hin[c] \in Seq(Tokens) /\ hbuf[c] \in Seq(Tokens)
      /\ req[c] \in Requests /\ served[c] \in Seq(Seq(Nat)) /\ single[c] \in BOOLEAN
  BY DEF HttpTypes
<1>2. Len(hin[c]) \in Nat /\ Len(hbuf[c]) \in Nat /\ Len(served[c]) \in Nat
  BY <1>1, LenProperties
<1>3. req[c].at \in Nat /\ req[c].flags \in {0, 1} /\ req[c].url \in Seq(Nat)
  BY <1>1 DEF Requests
<1> QED BY <1>1, <1>2, <1>3

\* A new connection keeps the invariant.
LEMMA NewInv ==
  ASSUME HttpIInv, NEW c \in HttpConns, hp_httpreq_on_new(c)
  PROVE  HttpIInv'
<1>1. /\ HttpTypes /\ ConnInv(c) /\ hsent[c] = 0 /\ c \notin reqlist
      /\ req' = [req EXCEPT ![c] = NewRequest] /\ reqlist' \in {reqlist, reqlist \cup {c}}
      /\ hsent' = hsent /\ hin' = hin /\ hbuf' = hbuf /\ served' = served /\ single' = single
  BY DEF HttpIInv, hp_httpreq_on_new, IsOpen
<1>2. NewRequest \in Requests /\ NewRequest.flags = 0 /\ NewRequest.at = 0 /\ NewRequest.url = <<>>
  BY DEF NewRequest, Requests
<1>3. HttpTypes'
  BY <1>1, <1>2 DEF HttpTypes
<1>4. /\ hin[c] \in Seq(Tokens) /\ hbuf[c] \in Seq(Tokens) /\ served[c] \in Seq(Seq(Nat))
      /\ Len(hin[c]) \in Nat /\ Len(hbuf[c]) \in Nat /\ Len(served[c]) \in Nat
  BY <1>1, ConnTypes
<1>5. Len(served[c]) + Len(hin[c]) + Len(hbuf[c]) <= 3 * 0
  BY <1>1 DEF ConnInv, TokensCounted, Counted
<1>6. Len(hin[c]) = 0 /\ Len(hbuf[c]) = 0 /\ Len(served[c]) = 0
  <2>1. \A i, j, k \in Nat : i + j + k <= 3 * 0 => i = 0 /\ j = 0 /\ k = 0
    OBVIOUS
  <2>2. Len(served[c]) = 0 /\ Len(hin[c]) = 0 /\ Len(hbuf[c]) = 0
    BY <2>1, <1>4, <1>5, Zenon
  <2> QED BY <2>2
<1>7. hin[c] = <<>> /\ hbuf[c] = <<>> /\ served[c] = <<>>
  BY <1>4, <1>6, EmptySeq
<1>8. req'[c] = NewRequest
  BY <1>1 DEF HttpTypes
<1>9. ConnInv(c)'
  BY <1>1, <1>2, <1>5, <1>7, <1>8 DEF ConnInv, TokensCounted, Counted, FirstAhead, Ahead, FirstServed
<1>10. ASSUME NEW x \in HttpConns, x # c PROVE ConnInv(x)'
  BY <1>1, <1>10, ConnSame DEF HttpIInv, HttpTypes
<1> QED BY <1>3, <1>9, <1>10 DEF HttpIInv

\* A request that is sent keeps the invariant.
LEMMA SendsInv ==
  ASSUME HttpIInv, NEW c \in HttpConns, ClientSends(c)
  PROVE  HttpIInv'
<1> DEFINE s == HttpRequest(hsent[c] + 1)
           h == hin[c] \o s
<1>1. /\ HttpTypes /\ ConnInv(c)
      /\ hsent' = [hsent EXCEPT ![c] = hsent[c] + 1]
      /\ hin' = [hin EXCEPT ![c] = h]
      /\ reqlist' = reqlist
      /\ req' = req /\ hbuf' = hbuf /\ served' = served /\ single' = single
  BY DEF HttpIInv, ClientSends
<1>2. /\ hin[c] \in Seq(Tokens) /\ hsent[c] \in Nat
      /\ Len(hin[c]) \in Nat /\ Len(hbuf[c]) \in Nat /\ Len(served[c]) \in Nat
  BY <1>1, ConnTypes
<1>3. s \in Seq(Tokens) /\ Len(s) = 3 /\ s[1] = <<hsent[c] + 1, 1>>
  BY <1>2 DEF HttpRequest, Tokens
<1> HIDE DEF s
<1>4. /\ h \in Seq(Tokens) /\ Len(h) = Len(hin[c]) + Len(s)
      /\ \A i \in 1..Len(hin[c]) + Len(s) :
           h[i] = IF i <= Len(hin[c]) THEN hin[c][i] ELSE s[i - Len(hin[c])]
  BY <1>2, <1>3, ConcatProperties
<1> HIDE DEF h
<1>5. Len(h) = Len(hin[c]) + 3
  BY <1>3, <1>4
<1>6. h # <<>> /\ h[1] = IF hin[c] = <<>> THEN <<hsent[c] + 1, 1>> ELSE hin[c][1]
  <2>1. h # <<>>
    BY <1>2, <1>5
  <2>2. 1 \in 1..Len(hin[c]) + Len(s)
    BY <1>2, <1>3
  <2>3. ASSUME hin[c] = <<>> PROVE h[1] = <<hsent[c] + 1, 1>>
    <3>1. Len(hin[c]) = 0 /\ ~(1 <= Len(hin[c])) /\ 1 - Len(hin[c]) = 1
      BY <2>3
    <3>2. h[1] = s[1 - Len(hin[c])]
      BY <3>1, <2>2, <1>4
    <3>3. h[1] = s[1]
      BY <3>1, <3>2
    <3> QED BY <3>3, <1>3
  <2>4. ASSUME hin[c] # <<>> PROVE h[1] = hin[c][1]
    <3>1. 1 <= Len(hin[c])
      BY <2>4, <1>2, EmptySeq
    <3> QED BY <3>1, <2>2, <1>4
  <2>5. h[1] = IF hin[c] = <<>> THEN <<hsent[c] + 1, 1>> ELSE hin[c][1]
    BY <2>3, <2>4
  <2> QED BY <2>1, <2>5
<1>7. HttpTypes'
  BY <1>1, <1>2, <1>4 DEF HttpTypes
<1>8. hsent'[c] = hsent[c] + 1 /\ hin'[c] = h
  BY <1>1 DEF HttpTypes
<1>9. ConnInv(c)'
  <2>1. TokensCounted(c)'
    <3>1. 3 * hsent'[c] = 3 * hsent[c] + 3
      BY <1>2, <1>8
    <3>2. Len(served[c]) + Len(hin[c]) + Len(hbuf[c]) <= 3 * hsent[c]
      BY <1>1 DEF ConnInv, TokensCounted, Counted
    <3>0. \A i, j, k, m \in Nat : i + j + k <= m => i + (j + 3) + k <= m + 3
      OBVIOUS
    <3>3. Len(served[c]) + Len(h) + Len(hbuf[c]) <= 3 * hsent'[c]
      <4>1. 3 * hsent[c] \in Nat
        BY <1>2
      <4>2. Len(served[c]) + (Len(hin[c]) + 3) + Len(hbuf[c]) <= 3 * hsent[c] + 3
        BY <3>0, <3>2, <4>1, <1>2, Zenon
      <4> QED BY <4>2, <3>1, <1>5
    <3>4. req[c].flags = 1 => hbuf[c] = <<>> /\ Len(hin[c]) + 3 <= 3 * hsent[c]
      BY <1>1 DEF ConnInv, TokensCounted, Counted
    <3>5. req[c].flags = 1 => Len(h) + 3 <= 3 * hsent'[c]
      BY <3>1, <3>4, <1>2, <1>5
    <3>6. served[c] # <<>> <=> req[c].flags = 1
      BY <1>1 DEF ConnInv, TokensCounted, Counted
    <3> QED BY <3>3, <3>4, <3>5, <3>6, <1>1, <1>8 DEF TokensCounted, Counted
  <2>2. FirstAhead(c)'
    <3>1. hin[c] = <<>> /\ hsent[c] = 0 => h[1] = <<1, 1>>
      BY <1>6
    <3> QED BY <3>1, <1>1, <1>6, <1>8 DEF ConnInv, FirstAhead, Ahead, IsOpen
  <2>3. FirstServed(c)'
    BY <1>1 DEF ConnInv, FirstServed
  <2> QED BY <2>1, <2>2, <2>3 DEF ConnInv
<1>10. ASSUME NEW x \in HttpConns, x # c PROVE ConnInv(x)'
  BY <1>1, <1>10, ConnSame DEF HttpIInv, HttpTypes
<1> QED BY <1>7, <1>9, <1>10 DEF HttpIInv

\* A connection that ends keeps the invariant.
LEMMA DeleteInv ==
  ASSUME HttpIInv, NEW c \in HttpConns, hp_httpreq_on_delete(c)
  PROVE  HttpIInv'
<1>1. /\ HttpTypes /\ ConnInv(c) /\ reqlist' = reqlist \ {c}
      /\ hin' = [hin EXCEPT ![c] = <<>>] /\ hbuf' = [hbuf EXCEPT ![c] = <<>>]
      /\ hsent' = hsent /\ req' = req /\ served' = served /\ single' = single
  BY DEF HttpIInv, hp_httpreq_on_delete
<1>2. /\ Len(hin[c]) \in Nat /\ Len(hbuf[c]) \in Nat /\ Len(served[c]) \in Nat /\ hsent[c] \in Nat
  BY <1>1, ConnTypes
<1>3. hin'[c] = <<>> /\ hbuf'[c] = <<>> /\ Len(<<>>) = 0 /\ <<>> \in Seq(Tokens)
  BY <1>1 DEF HttpTypes
<1>4. HttpTypes'
  BY <1>1, <1>3 DEF HttpTypes
<1>5. ConnInv(c)'
  <2>1. TokensCounted(c)'
    <3>1. /\ Len(served[c]) + Len(hin[c]) + Len(hbuf[c]) <= 3 * hsent[c]
          /\ req[c].flags = 1 => Len(hin[c]) + 3 <= 3 * hsent[c]
      BY <1>1 DEF ConnInv, TokensCounted, Counted
    <3>0. /\ \A i, j, k, m \in Nat : i + j + k <= m => i + 0 + 0 <= m
          /\ \A j, m \in Nat : j + 3 <= m => 0 + 3 <= m
      OBVIOUS
    <3>n. 3 * hsent[c] \in Nat
      BY <1>2
    <3>2. /\ Len(served[c]) + 0 + 0 <= 3 * hsent[c]
          /\ req[c].flags = 1 => 0 + 3 <= 3 * hsent[c]
      BY <3>0, <3>1, <3>n, <1>2, Zenon
    <3>3. served[c] # <<>> <=> req[c].flags = 1
      BY <1>1 DEF ConnInv, TokensCounted, Counted
    <3> QED BY <3>2, <3>3, <1>1, <1>3 DEF TokensCounted, Counted
  <2>2. FirstAhead(c)' /\ FirstServed(c)'
    BY <1>1 DEF ConnInv, FirstServed, FirstAhead, Ahead, IsOpen
  <2> QED BY <2>1, <2>2 DEF ConnInv
<1>6. ASSUME NEW x \in HttpConns, x # c PROVE ConnInv(x)'
  BY <1>1, <1>6, ConnSame DEF HttpIInv, HttpTypes
<1> QED BY <1>4, <1>5, <1>6 DEF HttpIInv

\* What the parser is given begins with what stayed in the buffer.
LEMMA ParsedBytes ==
  ASSUME NEW b \in Seq(Tokens), NEW h \in Seq(Tokens), NEW n \in 1..Len(h)
  PROVE  LET p == b \o SubSeq(h, 1, n)
             r == SubSeq(h, n + 1, Len(h))
         IN  /\ p \in Seq(Tokens) /\ r \in Seq(Tokens)
             /\ Len(p) = Len(b) + n /\ Len(r) = Len(h) - n
             /\ p # <<>> /\ p[1] = IF b = <<>> THEN h[1] ELSE b[1]
<1> DEFINE a == SubSeq(h, 1, n)
           p == b \o a
           r == SubSeq(h, n + 1, Len(h))
<1>1. Len(h) \in Nat /\ Len(b) \in Nat /\ \A i \in 1..Len(h) : h[i] \in Tokens
  BY LenProperties, ElementOfSeq
<1>2. a \in Seq(Tokens) /\ Len(a) = n /\ a[1] = h[1]
  <2>1. \A i \in 1..n : h[i] \in Tokens
    BY <1>1
  <2>2. /\ a \in Seq(Tokens) /\ Len(a) = (IF 1 <= n THEN n - 1 + 1 ELSE 0)
        /\ \A i \in 1..n - 1 + 1 : a[i] = h[1 + i - 1]
    BY <2>1, SubSeqProperties
  <2> HIDE DEF a
  <2>3. n - 1 + 1 = n /\ 1 <= n /\ 1 \in 1..n - 1 + 1 /\ 1 + 1 - 1 = 1
    OBVIOUS
  <2>4. a[1] = h[1 + 1 - 1]
    BY <2>2, <2>3
  <2> QED BY <2>2, <2>3, <2>4
<1>3. r \in Seq(Tokens) /\ Len(r) = Len(h) - n
  <2>1. \A i \in n + 1..Len(h) : h[i] \in Tokens
    BY <1>1
  <2>2. r \in Seq(Tokens) /\ Len(r) = IF n + 1 <= Len(h) THEN Len(h) - (n + 1) + 1 ELSE 0
    BY <2>1, <1>1, SubSeqProperties
  <2> HIDE DEF r
  <2> QED BY <2>2, <1>1
<1> HIDE DEF a, r
<1>4. /\ p \in Seq(Tokens) /\ Len(p) = Len(b) + Len(a)
      /\ \A i \in 1..Len(b) + Len(a) : p[i] = IF i <= Len(b) THEN b[i] ELSE a[i - Len(b)]
  BY <1>2, ConcatProperties
<1> HIDE DEF p
<1>5. Len(p) = Len(b) + n /\ p # <<>>
  BY <1>1, <1>2, <1>4
<1>6. 1 \in 1..Len(b) + Len(a)
  BY <1>1, <1>2
<1>7. ASSUME b = <<>> PROVE p[1] = h[1]
  <2>1. Len(b) = 0 /\ ~(1 <= Len(b)) /\ 1 - Len(b) = 1
    BY <1>7
  <2>2. p[1] = a[1 - Len(b)]
    BY <2>1, <1>4, <1>6
  <2> QED BY <2>1, <2>2, <1>2
<1>8. ASSUME b # <<>> PROVE p[1] = b[1]
  <2>1. 1 <= Len(b)
    BY <1>1, <1>8, EmptySeq
  <2> QED BY <2>1, <1>4, <1>6
<1>9. p[1] = IF b = <<>> THEN h[1] ELSE b[1]
  BY <1>7, <1>8
<1> QED BY <1>3, <1>4, <1>5, <1>9 DEF a, p, r

\* A read of n bytes that the parser takes, with the variables of its connection
\* before it, k, h, b, q and s, and after it, h2, b2, r and s2; p is the buffer.
ParseStep(k, h, b, q, s, n, p, h2, r, b2, s2) ==
  /\ k \in Nat /\ h \in Seq(Tokens) /\ b \in Seq(Tokens) /\ q \in Requests
  /\ s \in Seq(Seq(Nat)) /\ Counted(k, h, b, q, s) /\ Ahead(k, h, b, q)
  /\ n \in 1..Len(h) /\ p = b \o SubSeq(h, 1, n) /\ h2 = SubSeq(h, n + 1, Len(h))
  /\ Follows(q.at, p) /\ r = Executed(q, p) /\ b2 = Kept(r, p)
  /\ s2 = IF r.flags = 1 THEN Append(s, r.url) ELSE s

ParseResult(k, s, p, h2, r, b2, s2) ==
  /\ r \in Requests /\ b2 \in Seq(Tokens) /\ h2 \in Seq(Tokens) /\ s2 \in Seq(Seq(Nat))
  /\ Counted(k, h2, b2, r, s2) /\ Ahead(k, h2, b2, r)
  /\ p = HttpRequest(Head(p)[1]) /\ (s # <<>> => s[1] = <<1>>) /\ s2 # <<>>
       => s2[1] = <<1>>

\* What hp_httpreq_on_parse makes of a connection whose bytes the parser takes.
LEMMA ParseFollows ==
  ASSUME NEW k, NEW h, NEW b, NEW q, NEW s, NEW n, NEW p, NEW h2, NEW r, NEW b2, NEW s2,
         ParseStep(k, h, b, q, s, n, p, h2, r, b2, s2)
  PROVE  ParseResult(k, s, p, h2, r, b2, s2)
<1>0. /\ k \in Nat /\ h \in Seq(Tokens) /\ b \in Seq(Tokens) /\ q \in Requests
      /\ s \in Seq(Seq(Nat)) /\ Counted(k, h, b, q, s) /\ Ahead(k, h, b, q)
      /\ n \in 1..Len(h)
      /\ p = b \o SubSeq(h, 1, n) /\ h2 = SubSeq(h, n + 1, Len(h))
      /\ Follows(q.at, p) /\ r = Executed(q, p) /\ b2 = Kept(r, p)
      /\ s2 = IF r.flags = 1 THEN Append(s, r.url) ELSE s
  BY DEF ParseStep
<1> SUFFICES ASSUME k \in Nat, h \in Seq(Tokens), b \in Seq(Tokens), q \in Requests,
                    s \in Seq(Seq(Nat)), Counted(k, h, b, q, s), Ahead(k, h, b, q),
                    n \in 1..Len(h),
                    p = b \o SubSeq(h, 1, n), h2 = SubSeq(h, n + 1, Len(h)),
                    Follows(q.at, p), r = Executed(q, p), b2 = Kept(r, p),
                    s2 = IF r.flags = 1 THEN Append(s, r.url) ELSE s
             PROVE  /\ r \in Requests /\ b2 \in Seq(Tokens) /\ h2 \in Seq(Tokens)
                    /\ s2 \in Seq(Seq(Nat))
                    /\ Counted(k, h2, b2, r, s2) /\ Ahead(k, h2, b2, r)
                    /\ p = HttpRequest(Head(p)[1]) /\ (s # <<>> => s[1] = <<1>>) /\ s2 # <<>>
                         => s2[1] = <<1>>
  BY <1>0 DEF ParseResult
<1>1. Len(h) \in Nat /\ Len(b) \in Nat /\ Len(s) \in Nat
  BY LenProperties
<1>q. q.at \in Nat /\ q.flags \in {0, 1} /\ q.url \in Seq(Nat)
  BY DEF Requests
<1>2. /\ p \in Seq(Tokens) /\ h2 \in Seq(Tokens)
      /\ Len(p) = Len(b) + n /\ Len(h2) = Len(h) - n
      /\ p # <<>> /\ p[1] = IF b = <<>> THEN h[1] ELSE b[1]
  BY ParsedBytes
<1>3. Len(p) \in Nat /\ Len(p) >= 1 /\ Len(h2) \in Nat /\ Len(h) # 0
  BY <1>1, <1>2
<1>4. /\ Len(s) + Len(h) + Len(b) <= 3 * k
      /\ s # <<>> <=> q.flags = 1
      /\ q.flags = 1 => b = <<>> /\ Len(h) + 3 <= 3 * k
  BY DEF Counted
<1>5. /\ r.at = (q.at + Len(p)) % 3 /\ r.url = q.url \o Urls(p)
      /\ r.flags = (IF q.at + Len(p) >= 3 THEN 1 ELSE q.flags)
      /\ r \in Requests
  <2>1. Urls(p) \in Seq(Nat)
    BY <1>2, UrlsType
  <2>2. q.url \o Urls(p) \in Seq(Nat)
    BY <2>1, <1>q, ConcatProperties
  <2>3. (q.at + Len(p)) % 3 \in Nat
    BY <1>q, <1>3, SMTT(40)
  <2> QED BY <2>2, <2>3, <1>q DEF Executed, Requests
<1>6. q.at # Broken /\ p[1][2] = (q.at % 3) + 1
  <2>1. q.at # Broken /\ p[1][2] = ((q.at + 1 - 1) % 3) + 1
    BY <1>3 DEF Follows
  <2>2. q.at + 1 - 1 = q.at
    BY <1>q
  <2> QED BY <2>1, <2>2
<1>7. b2 = IF r.flags = 1 THEN <<>> ELSE p
  BY DEF Kept
<1>8. 3 * k \in Nat
  OBVIOUS
\* As long as no request was served, nothing is left of an earlier read.
<1>9. ASSUME q.flags = 0
      PROVE  q.at = 0 /\ b = <<>> /\ q.url = <<>> /\ h # <<>> /\ h[1] = <<1, 1>> /\ s = <<>>
             /\ p[1] = <<1, 1>> /\ Len(p) = n
  <2>1. ~(q.at \in {1, 2} /\ b # <<>> /\ b[1][2] = 1)
    <3>0. b # <<>> => p[1] = b[1]
      BY <1>2
    <3>3. (1 % 3) + 1 = 2 /\ (2 % 3) + 1 = 3
      OBVIOUS
    <3>1. ASSUME q.at = 1, b # <<>>, b[1][2] = 1 PROVE FALSE
      <4>1. p[1][2] = 1
        BY <3>0, <3>1, Zenon
      <4>2. p[1][2] = 2
        BY <3>1, <3>3, <1>6, Zenon
      <4> QED
        BY <4>1, <4>2, SMTT(30)
    <3>2. ASSUME q.at = 2, b # <<>>, b[1][2] = 1 PROVE FALSE
      <4>1. p[1][2] = 1
        BY <3>0, <3>2, Zenon
      <4>2. p[1][2] = 3
        BY <3>2, <3>3, <1>6, Zenon
      <4> QED
        BY <4>1, <4>2, SMTT(30)
    <3> QED BY <3>1, <3>2
  <2>2. h # <<>>
    BY <1>3
  <2>3. q.at = 0 /\ b = <<>> /\ q.url = <<>> /\ h[1] = <<1, 1>>
    BY <2>1, <2>2, <1>6, <1>9 DEF Ahead
  <2>4. s = <<>>
    BY <1>4, <1>9
  <2>5. Len(p) = n
    BY <2>3, <1>2
  <2> QED BY <2>2, <2>3, <2>4, <2>5, <1>2
<1>10. CASE r.flags = 1
  <2>1. b2 = <<>> /\ s2 = Append(s, r.url) /\ r.url \in Seq(Nat) /\ Len(b2) = 0
    BY <1>5, <1>7, <1>10, SMTT(30) DEF Requests
  <2>2. /\ s2 \in Seq(Seq(Nat)) /\ Len(s2) = Len(s) + 1
        /\ \A i \in 1..Len(s) : s2[i] = s[i]
        /\ s2[Len(s) + 1] = r.url
    BY <2>1, AppendProperties
  <2>3. s2 # <<>>
    <3>1. Len(s2) # 0
      BY <2>2, <1>1
    <3> QED BY <3>1, Len(<<>>) = 0
  <2>4. Len(s) + 1 + Len(h2) + 0 <= 3 * k /\ Len(h2) + 3 <= 3 * k
    <3>1. \A i, j, m, x \in Nat : i + j + m <= x => \A y \in 1..j : i + 1 + (j - y) + 0 <= x
      OBVIOUS
    <3>2. Len(s) + 1 + Len(h2) + 0 <= 3 * k
      BY <3>1, <1>1, <1>2, <1>4, <1>8
    <3>3. \A j, x \in Nat : \A y \in 1..j : j + 3 <= x \/ (j <= x /\ y >= 3) => j - y + 3 <= x
      OBVIOUS
    <3>4. Len(h) + 3 <= 3 * k \/ (Len(h) <= 3 * k /\ n >= 3)
      <4>1. CASE q.flags = 1
        BY <4>1, <1>4
      <4>2. CASE q.flags = 0
        <5>1. n >= 3
          BY <4>2, <1>5, <1>9, <1>10
        <5>2. Len(h) <= 3 * k
          BY <1>1, <1>4, <1>8
        <5> QED BY <5>1, <5>2
      <4> QED BY <4>1, <4>2, <1>q
    <3>5. Len(h2) + 3 <= 3 * k
      BY <3>3, <3>4, <1>1, <1>2, <1>8
    <3> QED BY <3>2, <3>5
  <2>5. Counted(k, h2, b2, r, s2)
    BY <2>1, <2>2, <2>3, <2>4, <1>10 DEF Counted
  <2>6. Ahead(k, h2, b2, r)
    BY <1>10 DEF Ahead
  <2>7. ASSUME p = HttpRequest(Head(p)[1]), s # <<>> => s[1] = << 1 >> PROVE s2[1] = <<1>>
    <3>1. CASE s # <<>>
      <4>1. 1 \in 1..Len(s)
        BY <3>1, <1>1, EmptySeq
      <4> QED BY <4>1, <3>1, <2>2, <2>7
    <3>2. CASE s = <<>>
      <4>1. q.flags = 0
        BY <3>2, <1>4, <1>q
      <4>2. Head(p)[1] = 1
        BY <4>1, <1>2, <1>9
      <4>3. Urls(p) = <<1>>
        <5>1. p = HttpRequest(1)
          BY <4>2, <2>7
        <5> QED BY <5>1, UrlsOfRequest
      <4>4. r.url = <<1>>
        <5>1. r.url = q.url \o Urls(p) /\ q.url = <<>>
          BY <4>1, <1>5, <1>9
        <5>2. <<1>> \in Seq(Nat)
          OBVIOUS
        <5>3. <<>> \o <<1>> = <<1>>
          BY <5>2, ConcatEmptySeq
        <5> QED BY <5>1, <5>3, <4>3
      <4>5. Len(s) + 1 = 1
        BY <3>2
      <4> QED BY <4>4, <4>5, <2>2
    <3> QED BY <3>1, <3>2
  <2>8. b2 \in Seq(Tokens)
    BY <2>1, EmptySeq
  <2> QED BY <2>2, <2>5, <2>6, <2>7, <2>8, <1>2, <1>5
<1>11. CASE r.flags # 1
  <2>1. b2 = p /\ s2 = s /\ q.flags = 0 /\ ~(q.at + Len(p) >= 3) /\ r.flags = 0
    BY <1>q, <1>5, <1>7, <1>11
  <2>2. r.at \in {1, 2} /\ p[1][2] = 1
    <3>1. q.at = 0
      BY <2>1, <1>9
    <3>2. Len(p) = 1 \/ Len(p) = 2
      BY <3>1, <2>1, <1>3
    <3>3. r.at = Len(p)
      <4>1. r.at = (0 + Len(p)) % 3
        BY <3>1, <1>5
      <4>2. 0 + Len(p) = Len(p)
        BY <1>3
      <4>3. r.at = Len(p) % 3
        BY <4>1, <4>2
      <4>4. 1 % 3 = 1 /\ 2 % 3 = 2
        OBVIOUS
      <4> QED BY <4>3, <4>4, <3>2
    <3>4. p[1] = <<1, 1>>
      BY <2>1, <1>9
    <3> QED BY <3>2, <3>3, <3>4
  <2>3. Counted(k, h2, b2, r, s2)
    <3>1. \A i, j, m, x \in Nat : i + j + m <= x => \A y \in 1..j : i + (j - y) + (m + y) <= x
      OBVIOUS
    <3>2. Len(s) + Len(h2) + Len(p) <= 3 * k
      BY <3>1, <1>1, <1>2, <1>4, <1>8
    <3>3. s = <<>>
      BY <2>1, <1>9
    <3> QED BY <3>2, <3>3, <2>1 DEF Counted
  <2>4. Ahead(k, h2, b2, r)
    BY <2>1, <2>2, <1>2 DEF Ahead
  <2>5. s2 = <<>> /\ s2 \in Seq(Seq(Nat)) /\ b2 \in Seq(Tokens)
    BY <2>1, <1>2, <1>9
  <2> QED BY <2>3, <2>4, <2>5, <1>2, <1>5
<1> QED BY <1>10, <1>11

\* A read, with the requests it completes, keeps the invariant.
LEMMA ParseInv ==
  ASSUME HttpIInv, NEW c \in HttpConns, hp_httpreq_on_parse(c)
  PROVE  HttpIInv'
<1>1. /\ HttpTypes /\ ConnInv(c) /\ IsOpen(c) /\ reqlist' = reqlist /\ hsent' = hsent
  BY DEF HttpIInv, hp_httpreq_on_parse
<1>2. PICK n \in 1..Len(hin[c]) :
        LET buf == hbuf[c] \o SubSeq(hin[c], 1, n)
            r == Executed(req[c], buf)
        IN  /\ hin' = [hin EXCEPT ![c] = SubSeq(@, n + 1, Len(@))]
            /\ single' = [single EXCEPT ![c] = @ /\ buf = HttpRequest(Head(buf)[1])]
            /\ IF ~Follows(req[c].at, buf)
                 THEN /\ req' = [req EXCEPT ![c].at = Broken]
                      /\ hbuf' = [hbuf EXCEPT ![c] = <<>>]
                      /\ UNCHANGED <<served, reply>>
               ELSE /\ req' = [req EXCEPT ![c] = r]
                    /\ hbuf' = [hbuf EXCEPT ![c] = Kept(r, buf)]
                    /\ IF r.flags = 1 THEN hp_httpreq_on_dispatch(c, r)
                       ELSE UNCHANGED <<served, reply>>
  BY Zenon DEF hp_httpreq_on_parse
<1> DEFINE h == hin[c]  b == hbuf[c]  q == req[c]  s == served[c]  k == hsent[c]
           p == b \o SubSeq(h, 1, n)
           r == Executed(q, p)
           h2 == SubSeq(h, n + 1, Len(h))
           s2 == IF r.flags = 1 THEN Append(s, r.url) ELSE s
<1>3. /\ k \in Nat /\ h \in Seq(Tokens) /\ b \in Seq(Tokens) /\ q \in Requests
      /\ s \in Seq(Seq(Nat)) /\ single[c] \in BOOLEAN
      /\ Len(h) \in Nat /\ Len(b) \in Nat /\ Len(s) \in Nat /\ q.flags \in {0, 1}
  BY <1>1, ConnTypes
<1>4. Counted(k, h, b, q, s) /\ Ahead(k, h, b, q) /\ (single[c] /\ s # <<>> => s[1] = <<1>>)
  BY <1>1 DEF ConnInv, TokensCounted, FirstAhead, FirstServed
<1>5. /\ hin' = [hin EXCEPT ![c] = h2]
      /\ single' = [single EXCEPT ![c] = single[c] /\ p = HttpRequest(Head(p)[1])]
  BY <1>2
<1>6. h2 \in Seq(Tokens) /\ Len(h2) = Len(h) - n
  BY <1>3, ParsedBytes
<1>7. CASE ~Follows(q.at, p)
  <2>1. /\ req' = [req EXCEPT ![c].at = Broken] /\ hbuf' = [hbuf EXCEPT ![c] = <<>>]
        /\ served' = served
    BY <1>2, <1>7
  <2> DEFINE q2 == [q EXCEPT !.at = Broken]
  <2>2. /\ q2 \in Requests /\ q2.flags = q.flags /\ q2.at = Broken
    BY <1>3 DEF Requests, Broken
  <2>3. req' = [req EXCEPT ![c] = q2]
    BY <2>1
  <2> HIDE DEF q2, p, h2, r, s2
  <2>0. <<>> \in Seq(Tokens)
    BY EmptySeq
  <2>4. HttpTypes'
    BY <1>1, <1>3, <1>5, <1>6, <2>0, <2>1, <2>2, <2>3 DEF HttpTypes
  <2>5. hin'[c] = h2 /\ req'[c] = q2 /\ hbuf'[c] = <<>> /\ (single'[c] => single[c])
    BY <1>1, <1>5, <2>1, <2>3 DEF HttpTypes
  <2>6. Counted(k, h2, <<>>, q2, s)
    <3>1. /\ Len(s) + Len(h) + Len(b) <= 3 * k
          /\ s # <<>> <=> q.flags = 1
          /\ q.flags = 1 => Len(h) + 3 <= 3 * k
      BY <1>4 DEF Counted
    <3>2. \A i, j, m, x \in Nat : \A y \in 1..j :
            /\ i + j + m <= x => i + (j - y) + 0 <= x
            /\ j + 3 <= x => (j - y) + 3 <= x
      OBVIOUS
    <3>3. 3 * k \in Nat
      BY <1>3
    <3>4. /\ Len(s) + Len(h2) + 0 <= 3 * k
          /\ q.flags = 1 => Len(h2) + 3 <= 3 * k
      BY <3>1, <3>2, <3>3, <1>3, <1>6
    <3> QED BY <3>1, <3>4, <2>2, Len(<<>>) = 0 DEF Counted
  <2>7. Ahead(k, h2, <<>>, q2)
    BY <2>2 DEF Ahead
  <2>8. ConnInv(c)'
    BY <1>1, <1>4, <2>1, <2>5, <2>6, <2>7 DEF ConnInv, TokensCounted, FirstAhead, FirstServed
  <2>9. ASSUME NEW x \in HttpConns, x # c PROVE ConnInv(x)'
    BY <1>1, <1>5, <2>1, <2>3, <2>9, ConnSame DEF HttpIInv, HttpTypes
  <2> QED BY <2>4, <2>8, <2>9 DEF HttpIInv
<1>8. CASE Follows(q.at, p)
  <2> DEFINE b2 == Kept(r, p)
  <2>1. req' = [req EXCEPT ![c] = r] /\ hbuf' = [hbuf EXCEPT ![c] = b2]
    BY <1>2, <1>8
  <2>2. served' = [served EXCEPT ![c] = s2]
    <3>1. CASE r.flags = 1
      BY <1>2, <1>8, <3>1 DEF hp_httpreq_on_dispatch
    <3>2. CASE r.flags # 1
      <4>1. served' = served
        BY <1>2, <1>8, <3>2
      <4> QED BY <4>1, <3>2, <1>1 DEF HttpTypes
    <3> QED BY <3>1, <3>2
  <2>3. /\ r \in Requests /\ b2 \in Seq(Tokens) /\ h2 \in Seq(Tokens) /\ s2 \in Seq(Seq(Nat))
        /\ Counted(k, h2, b2, r, s2) /\ Ahead(k, h2, b2, r)
        /\ p = HttpRequest(Head(p)[1]) /\ (s # <<>> => s[1] = <<1>>) /\ s2 # <<>>
             => s2[1] = <<1>>
    <3>1. /\ p = b \o SubSeq(h, 1, n) /\ h2 = SubSeq(h, n + 1, Len(h))
          /\ r = Executed(q, p) /\ b2 = Kept(r, p)
          /\ s2 = IF r.flags = 1 THEN Append(s, r.url) ELSE s
      OBVIOUS
    <3> HIDE DEF p, h2, r, s2, b2
    <3>2. ParseStep(k, h, b, q, s, n, p, h2, r, b2, s2)
      BY <3>1, <1>3, <1>4, <1>8 DEF ParseStep
    <3>3. ParseResult(k, s, p, h2, r, b2, s2)
      BY <3>2, ParseFollows
    <3> QED BY <3>3 DEF ParseResult
  <2> HIDE DEF p, h2, r, s2, b2
  <2>4. HttpTypes'
    BY <1>1, <1>3, <1>5, <2>1, <2>2, <2>3 DEF HttpTypes
  <2>5. /\ hin'[c] = h2 /\ req'[c] = r /\ hbuf'[c] = b2 /\ served'[c] = s2
        /\ single'[c] => single[c] /\ p = HttpRequest(Head(p)[1])
    BY <1>1, <1>5, <2>1, <2>2 DEF HttpTypes
  <2>6. FirstServed(c)'
    BY <1>4, <2>3, <2>5 DEF FirstServed
  <2>7. ConnInv(c)'
    BY <1>1, <2>3, <2>5, <2>6 DEF ConnInv, TokensCounted, FirstAhead
  <2>8. ASSUME NEW x \in HttpConns, x # c PROVE ConnInv(x)'
    BY <1>1, <1>5, <2>1, <2>2, <2>8, ConnSame DEF HttpIInv, HttpTypes
  <2> QED BY <2>4, <2>7, <2>8 DEF HttpIInv
<1> QED BY <1>7, <1>8

\* The inductive invariant implies HttpSound.
LEMMA HttpIInvSound == HttpIInv => HttpSound
<1> SUFFICES ASSUME HttpIInv, NEW c \in HttpConns
             PROVE  /\ Len(served[c]) <= 3 * hsent[c]
                    /\ hbuf[c] # <<>> => req[c].flags = 0 /\ served[c] = <<>>
                    /\ served[c] # <<>> => 3 * hsent[c] - Len(hin[c]) >= 3
                    /\ single[c] /\ served[c] # <<>> => served[c][1] = <<1>>
  BY DEF HttpSound, HttpTypeOK, FirstRequestWhole
<1>1. /\ hsent[c] \in Nat /\ Len(hin[c]) \in Nat /\ Len(hbuf[c]) \in Nat
      /\ Len(served[c]) \in Nat /\ req[c].flags \in {0, 1}
  BY ConnTypes DEF HttpIInv
<1>2. /\ Len(served[c]) + Len(hin[c]) + Len(hbuf[c]) <= 3 * hsent[c]
      /\ served[c] # <<>> <=> req[c].flags = 1
      /\ req[c].flags = 1 => hbuf[c] = <<>> /\ Len(hin[c]) + 3 <= 3 * hsent[c]
      /\ single[c] /\ served[c] # <<>> => served[c][1] = <<1>>
  BY DEF HttpIInv, ConnInv, TokensCounted, Counted, FirstServed
<1>3. 3 * hsent[c] \in Nat
  BY <1>1
<1>4. /\ \A i, j, k, m \in Nat : i + j + k <= m => i <= m
      /\ \A j, m \in Nat : j + 3 <= m => m - j >= 3
  OBVIOUS
<1>5. Len(served[c]) <= 3 * hsent[c]
  BY <1>1, <1>2, <1>3, <1>4
<1>6. served[c] # <<>> => 3 * hsent[c] - Len(hin[c]) >= 3
  BY <1>1, <1>2, <1>3, <1>4
<1>7. hbuf[c] # <<>> => req[c].flags = 0 /\ served[c] = <<>>
  BY <1>1, <1>2
<1> QED BY <1>2, <1>5, <1>6, <1>7

\* HTTP.  A request is only served when all of it has arrived, bytes only stay in
\* the buffer while none was served, and the first one served of a client whose
\* requests arrive one by one has its own URL.
THEOREM HttpRequestsSound == HttpSpec => []HttpSound
<1>1. HttpInit => HttpIInv
  BY HttpInitInv
<1>2. HttpIInv /\ [HttpNext]_httpVars => HttpIInv'
  <2> SUFFICES ASSUME HttpIInv, [HttpNext]_httpVars PROVE HttpIInv'
    OBVIOUS
  <2>1. ASSUME NEW c \in HttpConns,
               \/ hp_httpreq_on_new(c) \/ ClientSends(c)
               \/ hp_httpreq_on_parse(c) \/ hp_httpreq_on_delete(c)
        PROVE  HttpIInv'
    BY <2>1, NewInv, SendsInv, ParseInv, DeleteInv
  <2>2. CASE UNCHANGED httpVars
    BY <2>2, ConnSame DEF httpVars, HttpIInv, HttpTypes
  <2> QED BY <2>1, <2>2 DEF HttpNext
<1> QED BY <1>1, <1>2, HttpIInvSound, PTL DEF HttpSpec

-----------------------------------------------------------------------------
(* HpNet *)

\* f solves the recursion of Sums(lens, n) up to m.
SumsRec(lens, n, f, m) ==
  f = [i \in 0..m |-> IF i < n THEN 0 ELSE f[i - 1] + lens[i]]

\* The recursion has a solution.
LEMMA SumsExist ==
  ASSUME NEW lens, Len(lens) \in Nat, NEW n \in Nat, n > 0
  PROVE  \A m \in 0..Len(lens) : \E f : SumsRec(lens, n, f, m)
<1> DEFINE T == {m \in 0..Len(lens) : ~ \E f : SumsRec(lens, n, f, m)}
<1> SUFFICES ASSUME T # {} PROVE FALSE
  OBVIOUS
<1>1. PICK m \in T : \A k \in T : m <= k
  BY NatMin, T \subseteq Nat
<1>2. m # 0
  <2> SUFFICES ASSUME m = 0 PROVE FALSE
    OBVIOUS
  <2> DEFINE g == [i \in 0..0 |-> 0]
  <2>1. SumsRec(lens, n, g, 0)
    BY DEF SumsRec
  <2> QED BY <2>1, <1>1
<1>3. PICK f : SumsRec(lens, n, f, m - 1)
  BY <1>1, <1>2
<1> DEFINE g == [i \in 0..m |-> IF i < m THEN f[i] ELSE IF m < n THEN 0 ELSE f[m - 1] + lens[m]]
<1>4. SumsRec(lens, n, g, m)
  <2> SUFFICES ASSUME NEW i \in 0..m PROVE g[i] = IF i < n THEN 0 ELSE g[i - 1] + lens[i]
    BY DEF SumsRec
  <2>0. m \in Nat
    BY <1>1
  <2> HIDE DEF T
  <2>1. \A j \in 0..m-1 : f[j] = IF j < n THEN 0 ELSE f[j - 1] + lens[j]
    BY <1>3 DEF SumsRec
  <2>2. CASE i = m
    BY <2>0, <2>2, <1>2
  <2>3. CASE i # m
    BY <2>0, <2>1, <2>3, <1>2
  <2> QED BY <2>2, <2>3
<1> QED BY <1>4, <1>1

\* Sums satisfies its recursive definition.
LEMMA SumsStep ==
  ASSUME NEW lens, Len(lens) \in Nat, NEW n \in Nat, n > 0
  PROVE  \A i \in 0..Len(lens) :
           Sums(lens, n)[i] = IF i < n THEN 0 ELSE Sums(lens, n)[i - 1] + lens[i]
<1> DEFINE u == Sums(lens, n)
<1>1. PICK f : SumsRec(lens, n, f, Len(lens))
  BY SumsExist
<1>2. u = CHOOSE s : SumsRec(lens, n, s, Len(lens))
  BY Zenon DEF Sums, SumsRec
<1>3. SumsRec(lens, n, u, Len(lens))
  BY <1>1, <1>2, Zenon
<1> HIDE DEF u
<1>4. \A i \in 0..Len(lens) : u[i] = IF i < n THEN 0 ELSE u[i - 1] + lens[i]
  BY <1>3 DEF SumsRec
<1> QED BY <1>4 DEF u

\* A sum of lengths is a length.
LEMMA SumsNat ==
  ASSUME NEW lens \in Seq(Nat), NEW n \in Nat, n > 0
  PROVE  \A i \in 0..Len(lens) : Sums(lens, n)[i] \in Nat
<1> DEFINE u == Sums(lens, n)
<1>1. Len(lens) \in Nat /\ \A i \in 1..Len(lens) : lens[i] \in Nat
  BY LenProperties, ElementOfSeq
<1>2. \A i \in 0..Len(lens) : u[i] = IF i < n THEN 0 ELSE u[i - 1] + lens[i]
  BY <1>1, SumsStep
<1> HIDE DEF u
<1> DEFINE T == {i \in 0..Len(lens) : u[i] \notin Nat}
<1> SUFFICES ASSUME T # {} PROVE FALSE
  BY DEF u
<1>3. PICK m \in T : \A k \in T : m <= k
  BY NatMin, T \subseteq Nat, <1>1
<1>6. m \in 0..Len(lens) /\ u[m] \notin Nat
  BY <1>3
<1>4. CASE m < n
  BY <1>2, <1>4, <1>6
<1>5. CASE ~(m < n)
  <2>1. m - 1 \in 0..Len(lens) /\ m \in 1..Len(lens) /\ m - 1 < m
    BY <1>1, <1>5, <1>6
  <2>2. u[m - 1] \in Nat
    BY <1>1, <1>3, <2>1
  <2>3. u[m] = u[m - 1] + lens[m] /\ lens[m] \in Nat
    BY <1>1, <1>2, <1>5, <1>6, <2>1
  <2> HIDE DEF T
  <2> QED BY <1>6, <2>2, <2>3
<1> QED BY <1>4, <1>5

\* Sums grow with their last index.
LEMMA SumsGrow ==
  ASSUME NEW lens \in Seq(Nat), NEW n \in Nat, n > 0
  PROVE  \A i, j \in 0..Len(lens) : i <= j => Sums(lens, n)[i] <= Sums(lens, n)[j]
<1> DEFINE u == Sums(lens, n)
<1>1. Len(lens) \in Nat /\ \A i \in 1..Len(lens) : lens[i] \in Nat
  BY LenProperties, ElementOfSeq
<1>2. \A i \in 0..Len(lens) : u[i] = IF i < n THEN 0 ELSE u[i - 1] + lens[i]
  BY <1>1, SumsStep
<1>3. \A i \in 0..Len(lens) : u[i] \in Nat
  BY SumsNat
<1> HIDE DEF u
<1> SUFFICES ASSUME NEW i \in 0..Len(lens) PROVE \A j \in 0..Len(lens) : i <= j => u[i] <= u[j]
  BY DEF u
<1> DEFINE T == {j \in 0..Len(lens) : i <= j /\ ~(u[i] <= u[j])}
<1> SUFFICES ASSUME T # {} PROVE FALSE
  OBVIOUS
<1>4. PICK m \in T : \A k \in T : m <= k
  BY NatMin, T \subseteq Nat, <1>1
<1>5. m # i
  BY <1>3, <1>4
<1>6. m - 1 \in 0..Len(lens) /\ m \in 1..Len(lens) /\ m \in 0..Len(lens) /\ u[i] <= u[m - 1]
  BY <1>1, <1>3, <1>4, <1>5
<1>7. ~(u[i] <= u[m])
  BY <1>4
<1> HIDE DEF T
<1>8. u[m - 1] <= u[m]
  <2>1. u[m] \in Nat /\ u[m - 1] \in Nat /\ lens[m] \in Nat
    BY <1>1, <1>3, <1>6
  <2>2. m - 1 < n => u[m - 1] = 0
    BY <1>2, <1>6
  <2>3. m >= n => u[m] = u[m - 1] + lens[m]
    BY <1>1, <1>2, <1>6
  <2>4. m < n => m - 1 < n
    BY <1>1, <1>6
  <2>5. m < n \/ m >= n
    BY <1>1, <1>6
  <2> QED BY <2>1, <2>2, <2>3, <2>4, <2>5
<1> QED BY <1>3, <1>6, <1>7, <1>8

\* A length put in the place of another.
LEMMA LengthSet ==
  ASSUME NEW lens \in Seq(Nat), NEW i \in 1..Len(lens), NEW e \in Nat
  PROVE  /\ [lens EXCEPT ![i] = e] \in Seq(Nat)
         /\ Len([lens EXCEPT ![i] = e]) = Len(lens)
OBVIOUS

\* Buffer i is cut to what r bytes leave of it: the sums that start at it are the
\* earlier ones less r.
CutSums(lens, n, i, r) ==
  LET lens2 == [lens EXCEPT ![i] = Sums(lens, n)[i] - r]
  IN  /\ Sums(lens2, i)[i - 1] = 0
      /\ \A k \in i..Len(lens) : Sums(lens2, i)[k] = Sums(lens, n)[k] - r

\* It is so whenever r bytes do not fill more than buffer i.
LEMMA SumsCut ==
  ASSUME NEW lens \in Seq(Nat), NEW n \in Nat, n > 0, NEW i \in n..Len(lens), NEW r \in Nat,
         r <= Sums(lens, n)[i]
  PROVE  CutSums(lens, n, i, r)
<1>0. PICK lens2 : lens2 = [lens EXCEPT ![i] = Sums(lens, n)[i] - r]
  OBVIOUS
<1> DEFINE u == Sums(lens, n)
           w == Sums(lens2, i)
<1>1. Len(lens) \in Nat /\ \A k \in 1..Len(lens) : lens[k] \in Nat
  BY LenProperties, ElementOfSeq
<1>2. \A k \in 0..Len(lens) : u[k] = IF k < n THEN 0 ELSE u[k - 1] + lens[k]
  BY <1>1, SumsStep
<1>3. \A k \in 0..Len(lens) : u[k] \in Nat
  BY SumsNat
<1>4. Len(lens2) = Len(lens) /\ i \in 1..Len(lens) /\ i \in Nat /\ i > 0 /\ n <= i
  <2>1. i \in 1..Len(lens) /\ i \in Nat /\ i > 0 /\ n <= i /\ u[i] - r \in Nat
    BY <1>1, <1>3
  <2> QED BY <1>0, <2>1, LengthSet, Zenon
<1>5. \A k \in 0..Len(lens) : w[k] = IF k < i THEN 0 ELSE w[k - 1] + lens2[k]
  BY <1>1, <1>4, SumsStep
<1>6. lens2[i] = u[i] - r /\ \A k \in i + 1..Len(lens) : lens2[k] = lens[k]
  BY <1>0, <1>1, <1>4, LenProperties
<1> HIDE DEF u, w
<1>7. w[i - 1] = 0
  BY <1>4, <1>5, <1>1
<1>8. w[i] = u[i] - r
  BY <1>1, <1>3, <1>4, <1>5, <1>6, <1>7
<1> DEFINE T == {k \in i..Len(lens) : w[k] # u[k] - r}
<1>9. T = {}
  <2> SUFFICES ASSUME T # {} PROVE FALSE
    OBVIOUS
  <2>1. PICK m \in T : \A k \in T : m <= k
    BY NatMin, T \subseteq Nat, <1>1, <1>4
  <2>2. m # i
    BY <1>8, <2>1
  <2>3. m - 1 \in i..Len(lens) /\ m \in i + 1..Len(lens) /\ w[m - 1] = u[m - 1] - r
    BY <1>1, <1>4, <2>1, <2>2
  <2>4. w[m] = w[m - 1] + lens[m] /\ u[m] = u[m - 1] + lens[m]
    BY <1>1, <1>2, <1>4, <1>5, <1>6, <2>3
  <2>5. w[m] # u[m] - r
    BY <2>1
  <2>6. u[m - 1] \in Nat /\ lens[m] \in Nat
    BY <1>1, <1>3, <1>4, <2>3
  <2> HIDE DEF T
  <2> QED BY <2>3, <2>4, <2>5, <2>6
<1>10. w[i - 1] = 0 /\ \A k \in i..Len(lens) : w[k] = u[k] - r
  BY <1>7, <1>9
<1> QED BY <1>0, <1>10, Zenon DEF CutSums, u, w

-----------------------------------------------------------------------------
VecLens == [k \in 1..Len(vec) |-> vec[k].len]

\* A setup under way has made nothing yet, or has nothing left to make, closes what it
\* has made if a call fails (but hp_net_socketpair) and has a call left for every
\* descriptor that still blocks.
SetupInv ==
  \/ opened = {} /\ blocking = {} /\ row = Row(nfn)
  \/ /\ opened # {}
     /\ \A i \in 1..Len(row) :
          row[i].call # "make" /\ (nfn # "hp_net_socketpair" => row[i].closes)
     /\ \A d \in blocking :
          \E i \in 1..Len(row) : row[i].call = "nonblock" /\ d \in row[i].fds
SysCalls ==
  {Makes({1}), Makes({1, 2}), Checked, NonBlocking({1}, TRUE), NonBlocking({1}, FALSE),
   NonBlocking({2}, FALSE)}

\* The buffers left lie one after the other from byte nread + 1 of memory to its end.
Laid ==
  /\ vec_n \in 1..Len(vec)
  /\ nfn \notin Vectored => vec_n = 1 /\ Len(vec) = 1
  /\ vec \in Seq([base : Int, len : Nat])
  /\ nread \in Nat /\ Len(mem) \in Nat /\ nread < bytes
  /\ \A i \in vec_n..Len(vec) : vec[i].base = nread + 1 + Upto(i - 1)
  /\ nread + Fits = Len(mem)
  /\ \A k \in 1..Len(mem) : mem[k] = IF k <= nread THEN k ELSE 0

MemIsArray == Len(mem) \in Nat /\ DOMAIN mem = 1..Len(mem)

\* The inductive invariant
NetIInv ==
  /\ nfn \in {"none", "done"} \cup Setups \cup Transfers
  /\ nfn = "none" => vec = <<>> /\ vec_n = 1 /\ nread = 0 /\ opened = {} /\ blocking = {}
  /\ nfn \in Setups => vec = <<>> /\ row \in Seq(SysCalls) /\ SetupInv
  /\ nfn \in Transfers => DOMAIN vec # {} /\ MemIsArray /\ (Exact => Laid)
  /\ nfn = "done" => NetSound

\* What a row is made of, and what its rest is.
LEMMA RowRest ==
  ASSUME NEW s \in Seq(SysCalls), s # <<>>
  PROVE  /\ 1 \in 1..Len(s) /\ Head(s) = s[1] /\ s[1] \in SysCalls
         /\ Tail(s) \in Seq(SysCalls)
         /\ \A i \in 1..Len(Tail(s)) : i + 1 \in 1..Len(s) /\ Tail(s)[i] = s[i + 1]
         /\ \A i \in 1..Len(s) : i # 1 => i - 1 \in 1..Len(Tail(s)) /\ Tail(s)[i - 1] = s[i]
<1>1. Len(s) \in Nat /\ \A i \in 1..Len(s) : s[i] \in SysCalls
  BY LenProperties, ElementOfSeq
<1>2. Len(s) # 0
  BY EmptySeq
<1>3. /\ Head(s) = s[1] /\ Tail(s) \in Seq(SysCalls) /\ Len(Tail(s)) = Len(s) - 1
      /\ \A i \in 1..Len(Tail(s)) : Tail(s)[i] = s[i + 1]
  BY HeadTailProperties
<1> QED BY <1>1, <1>2, <1>3

\* A function begins with the call that makes its descriptors; the calls after it make
\* none, close them if they fail (but in hp_net_socketpair), and unblock each.
GoodRow(s, fn) ==
  /\ s \in Seq(SysCalls) /\ s # <<>>
  /\ s[1].call = "make" /\ s[1].fds # {}
  /\ \A i \in 1..Len(s) : i # 1 =>
       s[i].call # "make" /\ (fn # "hp_net_socketpair" => s[i].closes)
  /\ \A d \in s[1].fds :
       \E i \in 1..Len(s) : i # 1 /\ s[i].call = "nonblock" /\ d \in s[i].fds

\* Every function is such a row of calls.
LEMMA RowFacts ==
  ASSUME NEW fn \in Setups
  PROVE  GoodRow(Row(fn), fn)
<1>0. PICK m1, m2, ck, b1, c1, c2 :
        /\ m1 = Makes({1}) /\ m2 = Makes({1, 2}) /\ ck = Checked
        /\ b1 = NonBlocking({1}, TRUE) /\ c1 = NonBlocking({1}, FALSE) /\ c2 = NonBlocking({2}, FALSE)
  BY Zenon
<1>1. m1 \in SysCalls /\ m2 \in SysCalls /\ ck \in SysCalls
  BY <1>0 DEF SysCalls
<1>2. /\ b1 \in SysCalls /\ c1 \in SysCalls
      /\ c2 \in SysCalls
  BY <1>0 DEF SysCalls
<1>3. /\ m1.call = "make" /\ m1.fds = {1}
      /\ m2.call = "make" /\ m2.fds = {1, 2}
      /\ ck.call = "set" /\ ck.closes
      /\ b1.call = "nonblock" /\ b1.fds = {1}
      /\ b1.closes
      /\ c1.call = "nonblock" /\ c1.fds = {1}
      /\ c2.call = "nonblock" /\ c2.fds = {2}
  BY <1>0 DEF Makes, Checked, NonBlocking
<1>4. CASE fn = "hp_tcp_listen"
  <2>1. Row(fn) = <<m1, ck, b1, ck, ck>>
    BY <1>0, <1>4 DEF Row, hp_tcp_listen
  <2>2. /\ Len(Row(fn)) = 5 /\ Row(fn) # <<>>
        /\ Row(fn)[1] = m1
        /\ Row(fn)[2] = ck
        /\ Row(fn)[3] = b1
        /\ Row(fn)[4] = ck
        /\ Row(fn)[5] = ck
    BY <2>1
  <2>7. Row(fn) \in Seq(SysCalls)
    BY <1>1, <1>2, <2>1
  <2>3. \A i \in 1..5 : i = 1 \/ i = 2 \/ i = 3 \/ i = 4 \/ i = 5
    OBVIOUS
  <2>4. /\ 3 \in 1..Len(Row(fn)) /\ 3 # 1
        /\ Row(fn)[3].call = "nonblock" /\ 1 \in Row(fn)[3].fds
        /\ \A d \in Row(fn)[1].fds : d = 1
    BY <1>3, <2>2
  <2>5. \A i \in 1..Len(Row(fn)) : i # 1 =>
          Row(fn)[i].call # "make" /\ (fn # "hp_net_socketpair" => Row(fn)[i].closes)
    BY <1>3, <1>4, <2>2, <2>3
  <2>6. \A d \in Row(fn)[1].fds :
          \E i \in 1..Len(Row(fn)) : i # 1 /\ Row(fn)[i].call = "nonblock" /\ d \in Row(fn)[i].fds
    BY <2>4, Zenon
  <2>8. Row(fn)[1].call = "make" /\ Row(fn)[1].fds # {}
    BY <1>3, <2>2
  <2> QED BY <2>2, <2>5, <2>6, <2>7, <2>8 DEF GoodRow
<1>5. CASE fn = "hp_net_udp_bind"
  <2>1. Row(fn) = <<m1, ck, ck, ck, b1, ck>>
    BY <1>0, <1>5 DEF Row, hp_net_udp_bind
  <2>2. /\ Len(Row(fn)) = 6 /\ Row(fn) # <<>>
        /\ Row(fn)[1] = m1
        /\ Row(fn)[2] = ck
        /\ Row(fn)[3] = ck
        /\ Row(fn)[4] = ck
        /\ Row(fn)[5] = b1
        /\ Row(fn)[6] = ck
    BY <2>1
  <2>7. Row(fn) \in Seq(SysCalls)
    BY <1>1, <1>2, <2>1
  <2>3. \A i \in 1..6 : i = 1 \/ i = 2 \/ i = 3 \/ i = 4 \/ i = 5 \/ i = 6
    OBVIOUS
  <2>4. /\ 5 \in 1..Len(Row(fn)) /\ 5 # 1
        /\ Row(fn)[5].call = "nonblock" /\ 1 \in Row(fn)[5].fds
        /\ \A d \in Row(fn)[1].fds : d = 1
    BY <1>3, <2>2
  <2>5. \A i \in 1..Len(Row(fn)) : i # 1 =>
          Row(fn)[i].call # "make" /\ (fn # "hp_net_socketpair" => Row(fn)[i].closes)
    BY <1>3, <1>5, <2>2, <2>3
  <2>6. \A d \in Row(fn)[1].fds :
          \E i \in 1..Len(Row(fn)) : i # 1 /\ Row(fn)[i].call = "nonblock" /\ d \in Row(fn)[i].fds
    BY <2>4, Zenon
  <2>8. Row(fn)[1].call = "make" /\ Row(fn)[1].fds # {}
    BY <1>3, <2>2
  <2> QED BY <2>2, <2>5, <2>6, <2>7, <2>8 DEF GoodRow
<1>6. CASE fn = "hp_net_socketpair"
  <2>1. Row(fn) = <<m2, c1, c2>>
    BY <1>0, <1>6 DEF Row, hp_net_socketpair
  <2>2. /\ Len(Row(fn)) = 3 /\ Row(fn) # <<>>
        /\ Row(fn)[1] = m2
        /\ Row(fn)[2] = c1
        /\ Row(fn)[3] = c2
    BY <2>1
  <2>7. Row(fn) \in Seq(SysCalls)
    BY <1>1, <1>2, <2>1
  <2>3. \A i \in 1..3 : i = 1 \/ i = 2 \/ i = 3
    OBVIOUS
  <2>4. /\ 2 \in 1..Len(Row(fn)) /\ 2 # 1 /\ 3 \in 1..Len(Row(fn)) /\ 3 # 1
        /\ Row(fn)[2].call = "nonblock" /\ 1 \in Row(fn)[2].fds
        /\ Row(fn)[3].call = "nonblock" /\ 2 \in Row(fn)[3].fds
        /\ \A d \in Row(fn)[1].fds : d = 1 \/ d = 2
    BY <1>3, <2>2
  <2>5. \A i \in 1..Len(Row(fn)) : i # 1 =>
          Row(fn)[i].call # "make" /\ (fn # "hp_net_socketpair" => Row(fn)[i].closes)
    BY <1>3, <1>6, <2>2, <2>3
  <2>6. \A d \in Row(fn)[1].fds :
          \E i \in 1..Len(Row(fn)) : i # 1 /\ Row(fn)[i].call = "nonblock" /\ d \in Row(fn)[i].fds
    BY <2>4, Zenon
  <2>8. Row(fn)[1].call = "make" /\ Row(fn)[1].fds # {}
    BY <1>3, <2>2
  <2> QED BY <2>2, <2>5, <2>6, <2>7, <2>8 DEF GoodRow
<1>7. CASE fn = "hp_tcp_connect_addr"
  <2>1. Row(fn) = <<m1, b1, ck>>
    BY <1>0, <1>7 DEF Row, hp_tcp_connect_addr
  <2>2. /\ Len(Row(fn)) = 3 /\ Row(fn) # <<>>
        /\ Row(fn)[1] = m1
        /\ Row(fn)[2] = b1
        /\ Row(fn)[3] = ck
    BY <2>1
  <2>7. Row(fn) \in Seq(SysCalls)
    BY <1>1, <1>2, <2>1
  <2>3. \A i \in 1..3 : i = 1 \/ i = 2 \/ i = 3
    OBVIOUS
  <2>4. /\ 2 \in 1..Len(Row(fn)) /\ 2 # 1
        /\ Row(fn)[2].call = "nonblock" /\ 1 \in Row(fn)[2].fds
        /\ \A d \in Row(fn)[1].fds : d = 1
    BY <1>3, <2>2
  <2>5. \A i \in 1..Len(Row(fn)) : i # 1 =>
          Row(fn)[i].call # "make" /\ (fn # "hp_net_socketpair" => Row(fn)[i].closes)
    BY <1>3, <1>7, <2>2, <2>3
  <2>6. \A d \in Row(fn)[1].fds :
          \E i \in 1..Len(Row(fn)) : i # 1 /\ Row(fn)[i].call = "nonblock" /\ d \in Row(fn)[i].fds
    BY <2>4, Zenon
  <2>8. Row(fn)[1].call = "make" /\ Row(fn)[1].fds # {}
    BY <1>3, <2>2
  <2> QED BY <2>2, <2>5, <2>6, <2>7, <2>8 DEF GoodRow
<1>8. CASE fn = "hp_tcp_connect2"
  <2>1. Row(fn) = <<m1, ck, b1, ck>>
    BY <1>0, <1>8 DEF Row, hp_tcp_connect2
  <2>2. /\ Len(Row(fn)) = 4 /\ Row(fn) # <<>>
        /\ Row(fn)[1] = m1
        /\ Row(fn)[2] = ck
        /\ Row(fn)[3] = b1
        /\ Row(fn)[4] = ck
    BY <2>1
  <2>7. Row(fn) \in Seq(SysCalls)
    BY <1>1, <1>2, <2>1
  <2>3. \A i \in 1..4 : i = 1 \/ i = 2 \/ i = 3 \/ i = 4
    OBVIOUS
  <2>4. /\ 3 \in 1..Len(Row(fn)) /\ 3 # 1
        /\ Row(fn)[3].call = "nonblock" /\ 1 \in Row(fn)[3].fds
        /\ \A d \in Row(fn)[1].fds : d = 1
    BY <1>3, <2>2
  <2>5. \A i \in 1..Len(Row(fn)) : i # 1 =>
          Row(fn)[i].call # "make" /\ (fn # "hp_net_socketpair" => Row(fn)[i].closes)
    BY <1>3, <1>8, <2>2, <2>3
  <2>6. \A d \in Row(fn)[1].fds :
          \E i \in 1..Len(Row(fn)) : i # 1 /\ Row(fn)[i].call = "nonblock" /\ d \in Row(fn)[i].fds
    BY <2>4, Zenon
  <2>8. Row(fn)[1].call = "make" /\ Row(fn)[1].fds # {}
    BY <1>3, <2>2
  <2> QED BY <2>2, <2>5, <2>6, <2>7, <2>8 DEF GoodRow
<1> QED BY <1>4, <1>5, <1>6, <1>7, <1>8 DEF Setups

\* A function that makes descriptors is called.
LEMMA CallSetupInv ==
  ASSUME NetIInv, NEW fn \in Setups, CallSetup(fn)
  PROVE  NetIInv'
<1>1. fn \notin Transfers /\ fn # "none" /\ fn # "done"
  BY DEF Setups, Transfers, Waiting2
<1>2. /\ nfn' = fn /\ row' = Row(fn) /\ vec' = <<>> /\ opened' = {} /\ blocking' = {}
  BY DEF CallSetup, NetIInv, xfer
<1>3. SetupInv'
  BY <1>2 DEF SetupInv
<1> QED BY <1>1, <1>2, <1>3, RowFacts DEF NetIInv, GoodRow

\* A call of a setup succeeds.
LEMMA SystemCallInv ==
  ASSUME NetIInv, SystemCall
  PROVE  NetIInv'
<1>1. nfn \in Setups /\ row \in Seq(SysCalls) /\ SetupInv /\ row # <<>> /\ vec = <<>>
  BY DEF NetIInv, SystemCall
<1>2. /\ nfn' = nfn /\ vec' = vec /\ row' = Tail(row)
      /\ opened' = opened \cup IF Head(row).call = "make" THEN Head(row).fds ELSE {}
      /\ blocking' = IF Head(row).call = "make" THEN blocking \cup Head(row).fds
                     ELSE IF Head(row).call = "nonblock" THEN blocking \ Head(row).fds
                     ELSE blocking
  BY DEF SystemCall, xfer
<1>3. /\ 1 \in 1..Len(row) /\ Head(row) = row[1] /\ row' \in Seq(SysCalls)
      /\ \A i \in 1..Len(row') : i + 1 \in 1..Len(row) /\ i + 1 # 1 /\ row'[i] = row[i + 1]
      /\ \A i \in 1..Len(row) : i # 1 => i - 1 \in 1..Len(row') /\ row'[i - 1] = row[i]
  BY <1>1, <1>2, RowRest
<1>4. ASSUME opened = {}, blocking = {}, row = Row(nfn) PROVE SetupInv'
  <2>1. opened' = row[1].fds /\ blocking' = row[1].fds /\ opened' # {}
    BY <1>1, <1>2, <1>3, <1>4, RowFacts DEF GoodRow
  <2>2. \A i \in 1..Len(row') : row'[i].call # "make" /\ (nfn # "hp_net_socketpair" => row'[i].closes)
    <3>1. \A i \in 1..Len(row) : i # 1 =>
            row[i].call # "make" /\ (nfn # "hp_net_socketpair" => row[i].closes)
      BY <1>1, <1>4, RowFacts DEF GoodRow
    <3> QED BY <1>3, <3>1
  <2>3. \A d \in blocking' : \E i \in 1..Len(row') : row'[i].call = "nonblock" /\ d \in row'[i].fds
    <3> SUFFICES ASSUME NEW d \in blocking'
                 PROVE  \E i \in 1..Len(row') : row'[i].call = "nonblock" /\ d \in row'[i].fds
      OBVIOUS
    <3>0. d \in Row(nfn)[1].fds /\ GoodRow(Row(nfn), nfn)
      BY <1>1, <1>4, <2>1, RowFacts
    <3>1. PICK i \in 1..Len(row) : i # 1 /\ row[i].call = "nonblock" /\ d \in row[i].fds
      BY <1>4, <3>0 DEF GoodRow
    <3> QED BY <3>1, <1>3
  <2> QED BY <2>1, <2>2, <2>3, <1>2 DEF SetupInv
<1>5. ASSUME ~(opened = {} /\ blocking = {} /\ row = Row(nfn)) PROVE SetupInv'
  <2>1. /\ opened # {}
        /\ \A i \in 1..Len(row) : row[i].call # "make" /\ (nfn # "hp_net_socketpair" => row[i].closes)
        /\ \A d \in blocking : \E i \in 1..Len(row) : row[i].call = "nonblock" /\ d \in row[i].fds
    BY <1>1, <1>5 DEF SetupInv
  <2>0. row[1].call # "make"
    BY <1>3, <2>1
  <2>2. /\ opened' = opened
        /\ blocking' = IF row[1].call = "nonblock" THEN blocking \ row[1].fds ELSE blocking
    BY <1>2, <1>3, <2>0
  <2>3. \A d \in blocking' : \E i \in 1..Len(row') : row'[i].call = "nonblock" /\ d \in row'[i].fds
    <3> SUFFICES ASSUME NEW d \in blocking'
                 PROVE  \E i \in 1..Len(row') : row'[i].call = "nonblock" /\ d \in row'[i].fds
      OBVIOUS
    <3>1. PICK i \in 1..Len(row) : row[i].call = "nonblock" /\ d \in row[i].fds
      BY <2>1, <2>2
    <3>2. i # 1
      BY <2>2, <3>1
    <3> QED BY <3>1, <3>2, <1>3
  <2>4. \A i \in 1..Len(row') : row'[i].call # "make" /\ (nfn # "hp_net_socketpair" => row'[i].closes)
    BY <1>3, <2>1
  <2> QED BY <2>1, <2>2, <2>3, <2>4, <1>2 DEF SetupInv
<1>6. nfn' \notin Transfers /\ nfn' # "none" /\ nfn' # "done" /\ nfn' \in Setups
  BY <1>1, <1>2 DEF Setups, Transfers, Waiting2
<1>7. SetupInv'
  BY <1>4, <1>5
<1> QED BY <1>1, <1>2, <1>3, <1>6, <1>7 DEF NetIInv

\* A call of a setup fails.
LEMMA SystemCallFailsInv ==
  ASSUME NetIInv, SystemCallFails
  PROVE  NetIInv'
<1>1. nfn \in Setups /\ row \in Seq(SysCalls) /\ SetupInv /\ row # <<>> /\ vec = <<>>
  BY DEF NetIInv, SystemCallFails
<1>2. /\ nfn' = "done" /\ res' = "error" /\ vec' = <<>> /\ row' = <<nfn>>
      /\ opened' = IF Head(row).closes THEN {} ELSE opened
  BY <1>1 DEF SystemCallFails, Return, xfer
<1>3. 1 \in 1..Len(row) /\ Head(row) = row[1]
  BY <1>1, RowRest
<1>4. opened' = {} \/ nfn = "hp_net_socketpair"
  BY <1>1, <1>2, <1>3 DEF SetupInv
<1>5. NetSound'
  BY <1>2, <1>4 DEF NetSound, NoDescriptorLeaks, StoredInOrder, ResultTells
<1>6. nfn' \notin Transfers /\ nfn' \notin Setups /\ nfn' # "none"
  BY <1>2 DEF Setups, Transfers, Waiting2
<1> QED BY <1>2, <1>5, <1>6 DEF NetIInv

\* All calls of a setup have succeeded.
LEMMA SetupDoneInv ==
  ASSUME NetIInv, SetupDone
  PROVE  NetIInv'
<1>1. nfn \in Setups /\ row = <<>> /\ SetupInv /\ vec = <<>>
  BY DEF NetIInv, SetupDone
<1>2. nfn' = "done" /\ res' = "ok" /\ vec' = <<>> /\ opened' = opened /\ blocking' = blocking
  BY <1>1 DEF SetupDone, Return, setup, xfer
<1>3. opened # {} /\ blocking = {}
  <2>1. Row(nfn) # <<>> /\ Len(<<>>) = 0
    BY <1>1, RowFacts DEF GoodRow
  <2> QED BY <1>1, <2>1 DEF SetupInv
<1>4. NetSound'
  BY <1>2, <1>3 DEF NetSound, NoDescriptorLeaks, StoredInOrder, ResultTells
<1>5. nfn' \notin Transfers /\ nfn' \notin Setups /\ nfn' # "none"
  BY <1>2 DEF Setups, Transfers, Waiting2
<1> QED BY <1>2, <1>4, <1>5 DEF NetIInv

-----------------------------------------------------------------------------
\* What the buffers left hold.
LEMMA LaidSums ==
  ASSUME Laid
  PROVE  /\ Len(vec) \in Nat /\ vec_n \in 1..Len(vec)
         /\ VecLens \in Seq(Nat) /\ Len(VecLens) = Len(vec)
         /\ \A i \in 1..Len(vec) : VecLens[i] = vec[i].len /\ vec[i].len \in Nat /\ vec[i].base \in Int
         /\ \A i \in 0..Len(vec) : Upto(i) \in Nat /\ Upto(i) = Sums(VecLens, vec_n)[i]
         /\ Upto(vec_n - 1) = 0
         /\ \A i \in vec_n..Len(vec) : Upto(i) = Upto(i - 1) + vec[i].len
         /\ \A i, j \in 0..Len(vec) : i <= j => Upto(i) <= Upto(j)
<1>1. vec \in Seq([base : Int, len : Nat]) /\ vec_n \in 1..Len(vec)
  BY DEF Laid
<1>2. Len(vec) \in Nat /\ \A i \in 1..Len(vec) : vec[i] \in [base : Int, len : Nat]
  BY <1>1, LenProperties, ElementOfSeq
<1>3. \A i \in 1..Len(vec) : vec[i].len \in Nat /\ vec[i].base \in Int
  BY <1>2
<1>4. /\ VecLens \in Seq(Nat) /\ Len(VecLens) = Len(vec)
      /\ \A i \in 1..Len(vec) : VecLens[i] = vec[i].len
  BY <1>2, <1>3 DEF VecLens
<1>5. \A i : Upto(i) = Sums(VecLens, vec_n)[i]
  BY Zenon DEF Upto, VecLens
<1>6. vec_n \in Nat /\ vec_n > 0 /\ vec_n - 1 \in 0..Len(vec)
  BY <1>1, <1>2
<1>7. \A i \in 0..Len(vec) : Upto(i) \in Nat
  BY <1>4, <1>5, <1>6, SumsNat
<1>8. \A i \in 0..Len(vec) : Upto(i) = IF i < vec_n THEN 0 ELSE Upto(i - 1) + VecLens[i]
  BY <1>2, <1>4, <1>5, <1>6, SumsStep
<1>9. \A i, j \in 0..Len(vec) : i <= j => Upto(i) <= Upto(j)
  BY <1>4, <1>5, <1>6, SumsGrow
<1>10. Upto(vec_n - 1) = 0
  BY <1>6, <1>8
<1>11. \A i \in vec_n..Len(vec) : Upto(i) = Upto(i - 1) + vec[i].len
  BY <1>1, <1>2, <1>4, <1>6, <1>8, SMTT(30)
<1> QED BY <1>1, <1>2, <1>3, <1>4, <1>5, <1>7, <1>9, <1>10, <1>11

\* The buffer of a byte a call can move is the one that holds it.
LEMMA BufferFound ==
  ASSUME Laid, NEW j \in 1..Fits
  PROVE  /\ BufferOf(j) \in vec_n..Len(vec)
         /\ j <= Upto(BufferOf(j)) /\ Upto(BufferOf(j) - 1) < j
<1>1. /\ Len(vec) \in Nat /\ vec_n \in 1..Len(vec)
      /\ \A i \in 0..Len(vec) : Upto(i) \in Nat
      /\ Upto(vec_n - 1) = 0
  BY LaidSums
<1>2. j \in Nat /\ j > 0 /\ j <= Upto(Len(vec))
  BY <1>1 DEF Fits
<1> DEFINE Found(i) == j <= Upto(i) /\ \A k \in vec_n..i - 1 : Upto(k) < j
           T == {i \in vec_n..Len(vec) : j <= Upto(i)}
<1>3. Len(vec) \in T /\ T \subseteq Nat
  BY <1>1, <1>2
<1>4. PICK m \in T : \A k \in T : m <= k
  BY <1>3, NatMin
<1>5. m \in vec_n..Len(vec) /\ j <= Upto(m)
  BY <1>4
<1>6. \A k \in vec_n..m - 1 : Upto(k) < j
  <2> SUFFICES ASSUME NEW k \in vec_n..m - 1 PROVE Upto(k) < j
    OBVIOUS
  <2>1. k \in vec_n..Len(vec) /\ ~(m <= k) /\ k \in 0..Len(vec)
    BY <1>1, <1>5
  <2>2. ~(j <= Upto(k))
    BY <2>1, <1>4
  <2> QED BY <1>1, <1>2, <2>1, <2>2
<1>7. Found(m)
  BY <1>5, <1>6
<1> HIDE DEF T, Found
<1>8. BufferOf(j) = CHOOSE i \in vec_n..Len(vec) : Found(i)
  BY Zenon DEF BufferOf, Found
<1>9. BufferOf(j) \in vec_n..Len(vec) /\ Found(BufferOf(j))
  BY <1>5, <1>7, <1>8, Zenon
<1>10. Upto(BufferOf(j) - 1) < j
  <2> DEFINE i == BufferOf(j)
  <2>1. i \in vec_n..Len(vec) /\ \A k \in vec_n..i - 1 : Upto(k) < j
    BY <1>9 DEF Found
  <2> HIDE DEF i
  <2>2. i = vec_n \/ i - 1 \in vec_n..i - 1
    BY <1>1, <2>1
  <2>3. i = vec_n => Upto(i - 1) < j
    BY <1>1, <1>2
  <2>4. Upto(i - 1) < j
    BY <2>1, <2>2, <2>3
  <2> QED BY <2>4 DEF i
<1> QED BY <1>9, <1>10 DEF Found

\* The j-th byte a call moves is stored at nread + j.
LEMMA TargetIs ==
  ASSUME Laid, NEW j \in 1..Fits
  PROVE  Target(j) = nread + j
<1> DEFINE i == BufferOf(j)
<1>1. i \in vec_n..Len(vec)
  BY BufferFound
<1>2. Target(j) = vec[i].base + vec[i].len - 1 - (Upto(i) - j)
  BY DEF Target
<1> HIDE DEF i
<1>3. /\ Len(vec) \in Nat /\ vec_n \in 1..Len(vec)
      /\ \A k \in 0..Len(vec) : Upto(k) \in Nat
      /\ Upto(i) = Upto(i - 1) + vec[i].len
      /\ \A k \in 1..Len(vec) : vec[k].len \in Nat
  BY <1>1, LaidSums
<1>4. nread \in Nat /\ vec[i].base = nread + 1 + Upto(i - 1)
  BY <1>1 DEF Laid
<1>5. i - 1 \in 0..Len(vec) /\ i \in 1..Len(vec) /\ Fits \in Nat
  BY <1>1, <1>3 DEF Fits
<1>6. Upto(i - 1) \in Nat /\ vec[i].len \in Nat /\ j \in Nat
  BY <1>3, <1>5
<1> QED BY <1>2, <1>3, <1>4, <1>6, SMTT(30)

\* A call that moves bytes leaves memory an array of the same length.
LEMMA MovedArray ==
  ASSUME MemIsArray, NEW r, Moved(r)
  PROVE  MemIsArray' /\ Len(mem') = Len(mem)
<1> DEFINE J(k) == {j \in 1..r : Target(j) = k}
           n == Len(mem)
           F(k) == IF J(k) = {} THEN mem[k] ELSE nread + (CHOOSE j \in J(k) : TRUE)
<1>1. mem' = [k \in DOMAIN mem |-> F(k)]
  BY DEF Moved
<1>2. mem' = [k \in 1..n |-> F(k)] /\ n \in Nat
  BY <1>1 DEF MemIsArray
<1> HIDE DEF n, F
<1>3. Len(mem') = n /\ DOMAIN mem' = 1..n
  BY <1>2
<1> QED BY <1>2, <1>3 DEF n, MemIsArray

\* A call that moves r bytes stores them at the end of what is stored.
LEMMA MovedBytes ==
  ASSUME Laid, MemIsArray, NEW r \in 1..Fits, Moved(r)
  PROVE  /\ MemIsArray' /\ Len(mem') = Len(mem)
         /\ \A k \in 1..Len(mem) : mem'[k] = IF k <= nread + r THEN k ELSE 0
<1> DEFINE J(k) == {j \in 1..r : Target(j) = k}
<1>1. mem' = [k \in DOMAIN mem |-> IF J(k) = {} THEN mem[k] ELSE nread + (CHOOSE j \in J(k) : TRUE)]
  BY DEF Moved
<1>2. /\ Len(mem) \in Nat /\ DOMAIN mem = 1..Len(mem) /\ nread \in Nat
      /\ \A k \in 1..Len(mem) : mem[k] = IF k <= nread THEN k ELSE 0
      /\ nread + Fits = Len(mem)
  BY DEF Laid, MemIsArray
<1>3. Fits \in Nat /\ r \in Nat /\ r > 0 /\ r <= Fits
  BY LaidSums DEF Fits
<1>4. \A j \in 1..r : Target(j) = nread + j
  BY <1>3, TargetIs
<1> DEFINE F(k) == IF J(k) = {} THEN mem[k] ELSE nread + (CHOOSE j \in J(k) : TRUE)
<1>5. Len(mem') = Len(mem) /\ MemIsArray'
  BY MovedArray
<1>6. ASSUME NEW k \in 1..Len(mem) PROVE mem'[k] = IF k <= nread + r THEN k ELSE 0
  <2>1. mem'[k] = F(k)
    BY <1>1, <1>2, <1>6
  <2>2. CASE k \in nread + 1..nread + r
    <3>1. k - nread \in 1..r /\ \A j \in 1..r : nread + j = k <=> j = k - nread
      BY <1>2, <1>3, <2>2
    <3>2. J(k) = {k - nread}
      BY <1>4, <3>1
    <3>3. (CHOOSE j \in J(k) : TRUE) = k - nread
      BY <3>2
    <3>4. F(k) = nread + (k - nread)
      BY <3>2, <3>3
    <3> HIDE DEF F, J
    <3> QED BY <2>1, <2>2, <3>4, <1>2, <1>3
  <2>3. CASE k \notin nread + 1..nread + r
    <3>1. \A j \in 1..r : nread + j # k
      BY <1>2, <1>3, <2>3
    <3>2. J(k) = {}
      BY <1>4, <3>1
    <3>3. F(k) = mem[k]
      BY <3>2
    <3> HIDE DEF F, J
    <3> QED BY <2>1, <2>3, <3>3, <1>2, <1>3, <1>6
  <2> QED BY <2>2, <2>3
<1> QED BY <1>2, <1>5, <1>6 DEF MemIsArray

\* Buffer i, the first that r bytes do not fill, is cut to what is left of it: the
\* buffers left lie one after the other from where the bytes moved end.
LEMMA CutBuffers ==
  ASSUME Laid, NEW r \in 1..Fits, NEW i \in vec_n..Len(vec), Upto(i - 1) <= r, r < Upto(i),
         vec_n' = i,
         vec' = [vec EXCEPT ![i] = [base |-> vec[i].base + vec[i].len - (Upto(i) - r),
                                    len |-> Upto(i) - r]]
  PROVE  /\ Len(vec') = Len(vec) /\ vec_n' \in 1..Len(vec)
         /\ vec' \in Seq([base : Int, len : Nat])
         /\ \A k \in i..Len(vec) : vec'[k].base = nread + r + 1 + Upto(k - 1)'
         /\ Fits' = Fits - r
<1>1. /\ Len(vec) \in Nat /\ vec_n \in 1..Len(vec)
      /\ VecLens \in Seq(Nat) /\ Len(VecLens) = Len(vec)
      /\ \A k \in 1..Len(vec) : VecLens[k] = vec[k].len /\ vec[k].len \in Nat /\ vec[k].base \in Int
      /\ \A k \in 0..Len(vec) : Upto(k) \in Nat /\ Upto(k) = Sums(VecLens, vec_n)[k]
      /\ \A k \in vec_n..Len(vec) : Upto(k) = Upto(k - 1) + vec[k].len
  BY LaidSums
<1>2. /\ i \in 1..Len(vec) /\ i \in Nat /\ vec_n \in Nat /\ vec_n > 0 /\ vec_n <= i
      /\ i - 1 \in 0..Len(vec) /\ i \in 0..Len(vec) /\ Len(vec) \in 0..Len(vec)
  BY <1>1
<1>n. /\ Len(vec) \in Nat /\ vec_n \in Nat /\ i \in Nat /\ nread \in Nat
      /\ 1 <= vec_n /\ vec_n <= i /\ i <= Len(vec)
  BY <1>1, <1>2 DEF Laid
<1>3. r \in Nat /\ r > 0 /\ Upto(i) \in Nat /\ Upto(i - 1) \in Nat
  <2>1. Upto(i) \in Nat /\ Upto(i - 1) \in Nat /\ Fits \in Nat
    BY <1>1, <1>2, Zenon DEF Fits
  <2> QED BY <2>1
<1> DEFINE b == vec[i].base + vec[i].len - (Upto(i) - r)
           l == Upto(i) - r
<1>4. b \in Int /\ l \in Nat
  <2>1. vec[i].base \in Int /\ vec[i].len \in Nat
    BY <1>1, <1>2, Zenon
  <2> QED BY <2>1, <1>3, SMTT(30)
<1>5. vec' = [vec EXCEPT ![i] = [base |-> b, len |-> l]]
  BY Zenon
<1>6. vec \in Seq([base : Int, len : Nat]) /\ nread \in Nat
  BY DEF Laid
<1> DEFINE e == [base |-> b, len |-> l]
<1>7. e \in [base : Int, len : Nat] /\ e.base = b /\ e.len = l
  BY <1>4
<1>8. vec' = [vec EXCEPT ![i] = e]
  BY <1>5
<1> HIDE DEF b, l, e
<1>9. /\ vec' \in Seq([base : Int, len : Nat]) /\ Len(vec') = Len(vec)
      /\ \A k \in 1..Len(vec) : vec'[k] = IF k = i THEN e ELSE vec[k]
  BY <1>2, <1>6, <1>7, <1>8, ExceptSeq, SMTT(30)
<1>10. VecLens' = [VecLens EXCEPT ![i] = l]
  <2>1. VecLens = [k \in 1..Len(vec) |-> vec[k].len]
    BY DEF VecLens
  <2>2. VecLens' = [k \in 1..Len(vec) |-> vec'[k].len]
    BY <1>9 DEF VecLens
  <2>3. \A k \in 1..Len(vec) : vec'[k].len = IF k = i THEN l ELSE vec[k].len
    BY <1>9, <1>7
  <2> QED BY <2>1, <2>2, <2>3, <1>2
<1>11. \A k : Upto(k)' = Sums(VecLens', i)[k]
  BY Zenon DEF Upto, VecLens
<1>12. /\ Sums(VecLens', i)[i - 1] = 0
       /\ \A k \in i..Len(vec) : Sums(VecLens', i)[k] = Upto(k) - r
  <2>0. Upto(i) = Sums(VecLens, vec_n)[i]
    BY <1>1, <1>2
  <2>1. r <= Sums(VecLens, vec_n)[i] /\ VecLens' = [VecLens EXCEPT ![i] = Sums(VecLens, vec_n)[i] - r]
    BY <2>0, <1>3, <1>10 DEF l
  <2>2. i \in vec_n..Len(VecLens) /\ vec_n \in Nat /\ vec_n > 0 /\ VecLens \in Seq(Nat)
    BY <1>1, <1>n
  <2>3. /\ Sums(VecLens', i)[i - 1] = 0
        /\ \A k \in i..Len(VecLens) : Sums(VecLens', i)[k] = Sums(VecLens, vec_n)[k] - r
    <3>1. CutSums(VecLens, vec_n, i, r)
      BY <1>3, <2>1, <2>2, SumsCut, Zenon
    <3> QED BY <2>1, <3>1, Zenon DEF CutSums
  <2>4. \A k \in i..Len(vec) : k \in 0..Len(vec)
    BY <1>n
  <2>5. Len(VecLens) = Len(vec) /\ \A k \in 0..Len(vec) : Upto(k) = Sums(VecLens, vec_n)[k]
    BY <1>1
  <2> QED BY <2>3, <2>4, <2>5, Zenon
<1>13. \A k \in i..Len(vec) : Upto(k)' = Upto(k) - r
  BY <1>11, <1>12
<1>14. Upto(i - 1)' = 0
  BY <1>11, <1>12
<1>15. Fits' = Fits - r
  <2>1. Fits' = Upto(Len(vec))'
    BY <1>9 DEF Fits
  <2>2. Len(vec) \in i..Len(vec)
    BY <1>1, <1>2
  <2> QED BY <2>1, <2>2, <1>13 DEF Fits
<1>16. ASSUME NEW k \in i..Len(vec)
       PROVE  vec'[k].base = nread + r + 1 + Upto(k - 1)'
  <2>1. k \in 1..Len(vec) /\ k \in vec_n..Len(vec) /\ k - 1 \in 0..Len(vec)
    BY <1>n
  <2>2. vec[k].base = nread + 1 + Upto(k - 1) /\ Upto(k - 1) \in Nat
    BY <2>1, <1>1 DEF Laid
  <2>3. CASE k = i
    <3>1. vec'[k].base = b
      BY <2>1, <2>3, <1>9, <1>7
    <3>2. b = nread + 1 + r
      <4>1. Upto(i) = Upto(i - 1) + vec[i].len /\ vec[i].len \in Nat
        BY <1>1, <1>2
      <4>2. vec[i].base = nread + 1 + Upto(i - 1)
        BY <2>2, <2>3
      <4> QED BY <4>1, <4>2, <1>3, <1>n, SMTT(30) DEF b
    <3> QED BY <3>1, <3>2, <2>3, <1>14, <1>3, <1>6
  <2>4. CASE k # i
    <3>1. vec'[k].base = vec[k].base
      BY <2>1, <2>4, <1>9
    <3>2. k - 1 \in i..Len(vec)
      BY <2>4, <1>n
    <3>3. Upto(k - 1)' = Upto(k - 1) - r
      BY <3>2, <1>13
    <3> QED BY <3>1, <3>3, <2>2, <1>3, <1>n
  <2> QED BY <2>3, <2>4
<1> QED BY <1>2, <1>9, <1>15, <1>16

\* A call that moves fewer bytes than are asked for leaves the rest of the buffers.
LEMMA MovedRest ==
  ASSUME Laid, MemIsArray, Exact, nfn \in Transfers, NEW r \in 1..Fits, Moved(r),
         nread + r # bytes
  PROVE  Laid'
<1>1. /\ nread' = nread + r /\ bytes' = bytes /\ nfn' = nfn
      /\ IF nfn \in Vectored THEN before_readv(r) ELSE OneBuffer(r)
  BY DEF Moved
<1>2. /\ Len(vec) \in Nat /\ vec_n \in 1..Len(vec)
      /\ \A k \in 1..Len(vec) : vec[k].len \in Nat /\ vec[k].base \in Int
      /\ \A k \in 0..Len(vec) : Upto(k) \in Nat
      /\ Upto(vec_n - 1) = 0
      /\ \A k \in vec_n..Len(vec) : Upto(k) = Upto(k - 1) + vec[k].len
  BY LaidSums
<1>3. /\ nread \in Nat /\ bytes = Len(mem) /\ nread + Fits = bytes /\ Len(mem) \in Nat
      /\ nfn \notin Vectored => vec_n = 1 /\ Len(vec) = 1
  BY DEF Laid, Exact
<1>4. Fits \in Nat /\ r \in Nat /\ r > 0 /\ r < Fits
  BY <1>2, <1>3 DEF Fits
<1> DEFINE CutAt(i) ==
      /\ Upto(i - 1) <= r /\ r < Upto(i) /\ vec_n' = i
      /\ vec' = [vec EXCEPT ![i] = [base |-> vec[i].base + vec[i].len - (Upto(i) - r),
                                    len |-> Upto(i) - r]]
<1>5. \E i \in vec_n..Len(vec) : CutAt(i)
  <2>1. CASE nfn \in Vectored
    <3> DEFINE i == BufferOf(r + 1)
    <3>1. r + 1 \in 1..Fits
      BY <1>4
    <3>2. i \in vec_n..Len(vec) /\ r + 1 <= Upto(i) /\ Upto(i - 1) < r + 1
      BY <3>1, BufferFound
    <3>3. /\ vec_n' = i
          /\ vec' = [vec EXCEPT ![i] = [base |-> vec[i].base + vec[i].len - (Upto(i) - r),
                                        len |-> Upto(i) - r]]
      BY <1>1, <1>4, <2>1 DEF before_readv
    <3> HIDE DEF i
    <3>4. Upto(i) \in Nat /\ Upto(i - 1) \in Nat
      BY <1>2, <3>2, SMTT(30)
    <3>5. Upto(i - 1) <= r /\ r < Upto(i)
      BY <3>2, <3>4, <1>4
    <3>6. CutAt(i)
      BY <3>3, <3>5
    <3> QED BY <3>2, <3>6, Zenon
  <2>2. CASE nfn \notin Vectored
    <3>0. vec_n = 1 /\ Len(vec) = 1
      BY <1>3, <2>2
    <3>1. vec_n = 1 /\ Len(vec) = 1 /\ 1 \in vec_n..Len(vec) /\ 1 \in 1..Len(vec)
      BY <3>0
    <3>2. Upto(1) = vec[1].len /\ Upto(0) = 0 /\ vec[1].len \in Nat /\ vec[1].base \in Int
      <4>1. Upto(vec_n - 1) = 0 /\ Upto(1) = Upto(1 - 1) + vec[1].len
        BY <1>2, <3>1
      <4>2. vec[1].len \in Nat /\ vec[1].base \in Int /\ vec_n - 1 = 0 /\ 1 - 1 = 0
        BY <1>2, <3>1
      <4> QED BY <4>1, <4>2
    <3>3. vec_n' = 1 /\ vec' = [vec EXCEPT ![1] = [base |-> vec[1].base + r, len |-> vec[1].len - r]]
      BY <1>1, <2>2, <3>1 DEF OneBuffer
    <3>4. vec[1].base + r = vec[1].base + vec[1].len - (Upto(1) - r) /\ Fits = Upto(1)
      BY <3>1, <3>2, <1>4 DEF Fits
    <3>5. Upto(1 - 1) <= r /\ r < Upto(1)
      BY <3>2, <3>4, <1>4
    <3>6. vec[1].len - r = Upto(1) - r
      BY <3>2
    <3>7. CutAt(1)
      BY <3>3, <3>4, <3>5, <3>6
    <3> QED BY <3>1, <3>7, Zenon
  <2> QED BY <2>1, <2>2
<1>6. PICK i \in vec_n..Len(vec) : CutAt(i)
  BY <1>5
<1>r. vec_n' = i /\ i \in vec_n..Len(vec)
  BY <1>6
<1>7. /\ Len(vec') = Len(vec) /\ vec_n' \in 1..Len(vec)
      /\ vec' \in Seq([base : Int, len : Nat])
      /\ \A k \in i..Len(vec) : vec'[k].base = nread + r + 1 + Upto(k - 1)'
      /\ Fits' = Fits - r
  BY <1>6, CutBuffers
<1>8. /\ MemIsArray' /\ Len(mem') = Len(mem)
      /\ \A k \in 1..Len(mem) : mem'[k] = IF k <= nread + r THEN k ELSE 0
  BY MovedBytes
<1> HIDE DEF CutAt
<1>9. nfn' \notin Vectored => vec_n' = 1 /\ Len(vec') = 1
  <2>1. Len(vec') = Len(vec) /\ nfn' = nfn
    BY <1>1, <1>7
  <2>2. nfn \notin Vectored => vec_n = 1 /\ Len(vec) = 1
    BY <1>3
  <2>3. \A j \in 1..1 : j = 1
    OBVIOUS
  <2> QED BY <2>1, <2>2, <2>3, <1>r, Zenon
<1>10. nread' \in Nat /\ nread' < bytes' /\ nread' + Fits' = Len(mem') /\ Len(mem') \in Nat
  <2>1. nread' = nread + r /\ bytes' = bytes /\ Fits' = Fits - r /\ Len(mem') = Len(mem)
    BY <1>1, <1>7, <1>8
  <2>2. nread \in Nat /\ bytes = Len(mem) /\ nread + Fits = bytes /\ Len(mem) \in Nat
    BY <1>3
  <2> QED BY <2>1, <2>2, <1>4
<1>11. \A k \in vec_n'..Len(vec') : vec'[k].base = nread' + 1 + Upto(k - 1)'
  <2>1. \A k \in i..Len(vec) : vec'[k].base = nread' + 1 + Upto(k - 1)'
    BY <1>1, <1>7
  <2>2. Len(vec') = Len(vec)
    BY <1>7
  <2> QED BY <2>1, <2>2, <1>r
<1>12. \A k \in 1..Len(mem') : mem'[k] = IF k <= nread' THEN k ELSE 0
  BY <1>1, <1>8
<1> QED BY <1>7, <1>9, <1>10, <1>11, <1>12 DEF Laid

\* A transfer is called.
LEMMA CallTransferInv ==
  ASSUME NetIInv, NEW fn \in Transfers, NEW lens \in Vecs, NEW extra \in 0..MaxExtra,
         CallTransfer(fn, lens, extra)
  PROVE  NetIInv'
<1>1. /\ fn \notin Setups /\ fn # "none" /\ fn # "done"
  BY DEF Setups, Transfers, Waiting2
<1>2. /\ nfn' = fn /\ vec' = Buffers(lens) /\ bytes' = TotalLen(lens) + extra
      /\ mem' = [k \in 1..TotalLen(lens) |-> 0] /\ vec_n' = 1 /\ nread' = 0
      /\ fn \in Vectored \/ Len(lens) = 1
  BY DEF CallTransfer, NetIInv
<1>3. PICK u : u = Sums(lens, 1)
  OBVIOUS
<1>4. lens \in Seq(Nat) /\ Len(lens) \in Nat /\ \A i \in 1..Len(lens) : lens[i] \in Nat
  BY NetAssumption, LenProperties, ElementOfSeq
<1>5. /\ \A i \in 0..Len(lens) : u[i] \in Nat /\ u[i] = IF i < 1 THEN 0 ELSE u[i - 1] + lens[i]
      /\ \A i, j \in 0..Len(lens) : i <= j => u[i] <= u[j]
  <2>1. 1 \in Nat /\ 1 > 0
    OBVIOUS
  <2>2. \A i \in 0..Len(lens) : Sums(lens, 1)[i] \in Nat
    BY <1>4, <2>1, SumsNat, Zenon
  <2>3. \A i \in 0..Len(lens) : Sums(lens, 1)[i] = IF i < 1 THEN 0 ELSE Sums(lens, 1)[i - 1] + lens[i]
    BY <1>4, <2>1, SumsStep, Zenon
  <2>4. \A i, j \in 0..Len(lens) : i <= j => Sums(lens, 1)[i] <= Sums(lens, 1)[j]
    BY <1>4, <2>1, SumsGrow, Zenon
  <2> QED BY <1>3, <2>2, <2>3, <2>4, Zenon
<1>6. TotalLen(lens) \in Nat /\ TotalLen(lens) > 0 /\ Len(lens) > 0 /\ u[0] = 0 /\ TotalLen(lens) = u[Len(lens)]
  <2>1. PICK i \in 1..Len(lens) : lens[i] > 0
    BY NetAssumption
  <2>2. i \in 0..Len(lens) /\ i - 1 \in 0..Len(lens) /\ Len(lens) \in 0..Len(lens) /\ i <= Len(lens)
        /\ Len(lens) > 0 /\ 0 \in 0..Len(lens) /\ ~(i < 1) /\ 0 < 1
    BY <1>4, <2>1
  <2>3. u[i] = u[i - 1] + lens[i] /\ u[i - 1] \in Nat /\ u[i] <= u[Len(lens)] /\ u[Len(lens)] \in Nat
        /\ u[0] = 0
    BY <1>5, <2>2, Zenon
  <2>4. TotalLen(lens) = u[Len(lens)]
    BY <1>3, Zenon DEF TotalLen
  <2>5. lens[i] \in Nat
    BY <1>4, <2>1
  <2> QED BY <2>1, <2>2, <2>3, <2>4, <2>5
<1> DEFINE t == TotalLen(lens)
<1>7. MemIsArray' /\ Len(mem') = t /\ \A k \in 1..t : mem'[k] = 0
  <2>1. mem' = [k \in 1..t |-> 0] /\ t \in Nat
    BY <1>2, <1>6
  <2> HIDE DEF t
  <2>2. Len(mem') = t /\ DOMAIN mem' = 1..t /\ \A k \in 1..t : mem'[k] = 0
    BY <2>1
  <2> QED BY <2>1, <2>2 DEF MemIsArray
<1> DEFINE n == Len(lens)
<1>8. ASSUME NEW i \in 1..n PROVE u[i - 1] \in Nat /\ lens[i] \in Nat
  <2>1. i - 1 \in 0..Len(lens)
    BY <1>4
  <2> QED BY <1>4, <1>5, <2>1
<1>9. /\ vec' \in Seq([base : Int, len : Nat]) /\ Len(vec') = n
      /\ \A i \in 1..n : vec'[i].base = u[i - 1] + 1 /\ vec'[i].len = lens[i]
  <2>1. vec' = [i \in 1..n |-> [base |-> u[i - 1] + 1, len |-> lens[i]]] /\ n \in Nat
    BY <1>2, <1>3, <1>4 DEF Buffers
  <2> HIDE DEF n
  <2>2. \A i \in 1..n : [base |-> u[i - 1] + 1, len |-> lens[i]] \in [base : Int, len : Nat]
    BY <1>8
  <2> QED BY <2>1, <2>2
<1>10. VecLens' = lens
  <2>1. VecLens' = [k \in 1..Len(lens) |-> lens[k]]
    BY <1>9 DEF VecLens
  <2> QED BY <2>1, <1>4, LenProperties
<1>11. \A i : Upto(i)' = u[i]
  <2>1. \A i : Upto(i)' = Sums(VecLens', vec_n')[i]
    BY Zenon DEF Upto, VecLens
  <2> QED BY <2>1, <1>2, <1>3, <1>10, Zenon
<1>12. Fits' = t
  BY <1>6, <1>9, <1>11 DEF Fits
<1>13. Laid'
  <2>1. vec_n' \in 1..Len(vec')
    BY <1>2, <1>4, <1>6, <1>9
  <2>2. nfn' \notin Vectored => vec_n' = 1 /\ Len(vec') = 1
    BY <1>2, <1>9
  <2>3. nread' \in Nat /\ Len(mem') \in Nat /\ nread' < bytes' /\ nread' + Fits' = Len(mem')
    BY <1>2, <1>6, <1>7, <1>12, NetAssumption
  <2>4. \A i \in vec_n'..Len(vec') : vec'[i].base = nread' + 1 + Upto(i - 1)'
    <3> SUFFICES ASSUME NEW i \in 1..n PROVE vec'[i].base = nread' + 1 + Upto(i - 1)'
      BY <1>2, <1>9
    <3>1. vec'[i].base = u[i - 1] + 1 /\ Upto(i - 1)' = u[i - 1] /\ nread' = 0 /\ u[i - 1] \in Nat
      BY <1>2, <1>8, <1>9, <1>11, Zenon
    <3> QED BY <3>1
  <2>5. \A k \in 1..Len(mem') : mem'[k] = IF k <= nread' THEN k ELSE 0
    BY <1>2, <1>6, <1>7
  <2> QED BY <2>1, <2>2, <2>3, <2>4, <2>5, <1>9 DEF Laid
<1>14. DOMAIN vec' # {}
  <2>1. DOMAIN vec' = 1..Len(vec') /\ 1 \in 1..n
    BY <1>4, <1>6, <1>9, LenProperties
  <2> QED BY <2>1, <1>9
<1> QED BY <1>1, <1>2, <1>7, <1>13, <1>14 DEF NetIInv

\* A call moves bytes.
LEMMA TransferInv ==
  ASSUME NetIInv, Transfer
  PROVE  NetIInv'
<1>1. PICK r \in 1..Fits : Moved(r)
  BY DEF Transfer
<1>2. /\ nfn \in Transfers /\ DOMAIN vec # {} /\ MemIsArray /\ (Exact => Laid)
      /\ nfn \notin Setups /\ nfn # "none" /\ nfn # "done"
  <2>1. nfn \in Transfers
    BY DEF Transfer
  <2>2. nfn \notin Setups /\ nfn # "none" /\ nfn # "done"
    BY <2>1 DEF Setups, Transfers, Waiting2
  <2> QED BY <2>1, <2>2 DEF NetIInv
<1>3. /\ nread' = nread + r /\ bytes' = bytes
      /\ IF nread + r = bytes THEN Return("ok") /\ UNCHANGED <<vec, vec_n>>
         ELSE /\ IF nfn \in Vectored THEN before_readv(r) ELSE OneBuffer(r)
              /\ UNCHANGED <<nfn, res>>
  BY <1>1 DEF Moved
<1>4. DOMAIN vec' = DOMAIN vec
  <2>1. CASE nread + r = bytes
    BY <1>3, <2>1
  <2>2. CASE nread + r # bytes /\ nfn \in Vectored
    BY <1>3, <2>2 DEF before_readv
  <2>3. CASE nread + r # bytes /\ nfn \notin Vectored
    BY <1>3, <2>3 DEF OneBuffer
  <2> QED BY <2>1, <2>2, <2>3
<1>5. DOMAIN vec' # {} /\ vec' # <<>>
  <2>1. DOMAIN <<>> = {}
    OBVIOUS
  <2> QED BY <2>1, <1>2, <1>4
<1>6. MemIsArray' /\ Len(mem') = Len(mem)
  BY <1>1, <1>2, MovedArray
<1>7. Exact' <=> Exact
  BY <1>3, <1>6 DEF Exact
<1>8. CASE nread + r = bytes
  <2>1. nfn' = "done" /\ res' = "ok"
    BY <1>3, <1>8 DEF Return
  <2>2. ASSUME Exact'
        PROVE  nread' = Len(mem') /\ \A k \in 1..Len(mem') : mem'[k] = IF k <= nread' THEN k ELSE 0
    <3>1. Laid /\ bytes = Len(mem)
      BY <1>2, <1>7, <2>2 DEF Exact
    <3>2. \A k \in 1..Len(mem) : mem'[k] = IF k <= nread + r THEN k ELSE 0
      BY <1>1, <1>2, <3>1, MovedBytes
    <3> QED BY <3>1, <3>2, <1>3, <1>6, <1>8
  <2>3. Len(mem') \in Nat
    BY <1>6 DEF MemIsArray
  <2>4. StoredInOrder' /\ ResultTells' /\ NoDescriptorLeaks'
    BY <1>3, <1>5, <1>8, <2>1, <2>2, <2>3 DEF StoredInOrder, ResultTells, NoDescriptorLeaks
  <2>5. nfn' \notin Setups /\ nfn' \notin Transfers
    BY <2>1 DEF Setups, Transfers, Waiting2
  <2> QED BY <2>1, <2>4, <2>5 DEF NetIInv, NetSound
<1>9. CASE nread + r # bytes
  <2>1. nfn' = nfn
    BY <1>3, <1>9
  <2>2. Exact' => Laid'
    BY <1>1, <1>2, <1>7, <1>9, MovedRest
  <2> QED BY <1>2, <1>5, <1>6, <2>1, <2>2 DEF NetIInv
<1> QED BY <1>8, <1>9

\* A transfer that stops before its end leaves what is stored, and says so.
LEMMA StopInv ==
  ASSUME NetIInv, nfn \in Transfers, nfn' = "done", UNCHANGED xfer, res' # "ok",
         Laid /\ Exact /\ res' \in {"eof", "short"} => atEof
  PROVE  NetIInv'
<1>1. /\ vec' = vec /\ bytes' = bytes /\ nread' = nread /\ mem' = mem /\ atEof' = atEof
      /\ vec # <<>> /\ (Exact => Laid)
  <2>1. DOMAIN <<>> = {}
    OBVIOUS
  <2> QED BY <2>1 DEF NetIInv, xfer
<1>2. Exact' <=> Exact
  BY <1>1 DEF Exact
<1>3. Exact => /\ nread \in Nat /\ Len(mem) \in Nat /\ nread < bytes /\ bytes = Len(mem)
               /\ \A k \in 1..Len(mem) : mem[k] = IF k <= nread THEN k ELSE 0
  BY <1>1 DEF Laid, Exact
<1>4. StoredInOrder'
  BY <1>1, <1>2, <1>3 DEF StoredInOrder
<1>5. ResultTells'
  <2>1. Exact => nread # bytes
    BY <1>3
  <2>2. Exact /\ res' \in {"eof", "short"} => atEof
    BY <1>1
  <2> QED BY <1>1, <1>2, <2>1, <2>2 DEF ResultTells
<1>6. NoDescriptorLeaks'
  BY <1>1 DEF NoDescriptorLeaks
<1>7. nfn' \notin Setups /\ nfn' \notin Transfers /\ nfn' # "none"
  BY DEF Setups, Transfers, Waiting2
<1> QED BY <1>4, <1>5, <1>6, <1>7 DEF NetIInv, NetSound

\* A call returns 0: if the buffers have room the stream has ended.
LEMMA NothingReadInv ==
  ASSUME NetIInv, NothingRead
  PROVE  NetIInv'
<1>1. /\ nfn \in Transfers /\ nfn' = "done" /\ UNCHANGED xfer /\ res' # "ok"
      /\ atEof \/ Fits = 0
  BY DEF NothingRead, Return
<1>2. Laid /\ Exact => atEof
  <2>1. Laid /\ Exact => nread + Fits = bytes /\ nread < bytes /\ nread \in Nat
    BY DEF Laid, Exact
  <2> QED BY <1>1, <2>1
<1> QED BY <1>1, <1>2, StopInv

\* The steps of the transfers that return without moving anything.
LEMMA StoppedInv ==
  ASSUME NetIInv, Interrupted \/ TransferFails
  PROVE  NetIInv'
<1>1. /\ nfn \in Transfers /\ nfn' = "done" /\ UNCHANGED xfer /\ res' # "ok"
      /\ res' \notin {"eof", "short"}
  BY DEF Interrupted, TransferFails, Return
<1> QED BY <1>1, StopInv

\* The stream ends, or nothing changes.
LEMMA StreamEndsInv ==
  ASSUME NetIInv, StreamEnds \/ UNCHANGED netVars
  PROVE  NetIInv'
<1>1. CASE StreamEnds
  <2>1. /\ nfn \in Transfers /\ nfn' = nfn /\ vec' = vec /\ vec_n' = vec_n /\ bytes' = bytes
        /\ nread' = nread /\ mem' = mem
    BY <1>1 DEF StreamEnds
  <2>2. nfn \notin Setups /\ nfn # "none" /\ nfn # "done"
    BY <2>1 DEF Setups, Transfers, Waiting2
  <2>3. /\ VecLens' = VecLens /\ (MemIsArray' <=> MemIsArray) /\ (Exact' <=> Exact)
    BY <2>1 DEF VecLens, MemIsArray, Exact
  <2>4. Laid' <=> Laid
    BY <2>1 DEF Laid, Fits, Upto
  <2> QED BY <2>1, <2>2, <2>3, <2>4 DEF NetIInv
<1>2. CASE UNCHANGED netVars
  BY <1>2 DEF netVars, NetIInv, SetupInv, MemIsArray, Exact, Laid, Fits, Upto, NetSound,
              NoDescriptorLeaks, StoredInOrder, ResultTells
<1> QED BY <1>1, <1>2

\* Nothing has been called.
LEMMA NetInitInv == NetInit => NetIInv
BY DEF NetInit, NetIInv, Setups, Transfers, Waiting2

\* The inductive invariant implies NetSound: a function under way has not returned, and
\* what a transfer has stored is in order.
LEMMA NetIInvSound == NetIInv => NetSound
<1> SUFFICES ASSUME NetIInv PROVE NetSound
  OBVIOUS
<1>1. DOMAIN <<>> = {}
  OBVIOUS
<1>2. CASE nfn = "done"
  BY <1>2 DEF NetIInv
<1>3. CASE nfn # "done"
  <2>1. NoDescriptorLeaks /\ ResultTells
    BY <1>3 DEF NoDescriptorLeaks, ResultTells
  <2>2. Exact /\ vec # <<>> => Laid
    BY <1>3 DEF NetIInv
  <2>3. StoredInOrder
    <3>1. Laid /\ Exact => nread < Len(mem) /\ nread \in Nat /\ Len(mem) \in Nat
      BY DEF Laid, Exact
    <3> QED BY <2>2, <3>1 DEF StoredInOrder, Laid
  <2> QED BY <2>1, <2>3 DEF NetSound
<1> QED BY <1>2, <1>3

\* A setup that fails leaves no descriptor open but in hp_net_socketpair, one that
\* succeeds returns none that blocks; however a transfer is cut, its bytes lie in order
\* and without gaps, and its result tells a whole transfer from an interrupted one and
\* from the end of the stream: for all buffers (hp_net.c).
THEOREM TransfersSound == NetSpec => []NetSound
<1>1. NetIInv /\ [NetNext]_netVars => NetIInv'
  <2> SUFFICES ASSUME NetIInv, [NetNext]_netVars PROVE NetIInv'
    OBVIOUS
  <2>1. ASSUME NEW fn \in Setups, CallSetup(fn) PROVE NetIInv'
    BY <2>1, CallSetupInv
  <2>2. CASE SystemCall
    BY <2>2, SystemCallInv
  <2>3. CASE SystemCallFails
    BY <2>3, SystemCallFailsInv
  <2>4. CASE SetupDone
    BY <2>4, SetupDoneInv
  <2>5. ASSUME NEW fn \in Transfers, NEW lens \in Vecs, NEW extra \in 0..MaxExtra,
               CallTransfer(fn, lens, extra)
        PROVE  NetIInv'
    BY <2>5, CallTransferInv
  <2>6. CASE Transfer
    BY <2>6, TransferInv
  <2>7. CASE NothingRead
    BY <2>7, NothingReadInv
  <2>8. CASE Interrupted \/ TransferFails
    BY <2>8, StoppedInv
  <2>9. CASE StreamEnds \/ UNCHANGED netVars
    BY <2>9, StreamEndsInv
  <2> QED BY <2>1, <2>2, <2>3, <2>4, <2>5, <2>6, <2>7, <2>8, <2>9, Zenon DEF NetNext
<1> QED BY <1>1, NetInitInv, NetIInvSound, PTL DEF NetSpec

-----------------------------------------------------------------------------
(* HpCache *)

Entries2 == [key : CacheKeys, ver : Nat, chksum : Nat, freed : BOOLEAN]

\* The seconds of a file never go back.
Ordered(d) == \A i, j \in 1..Len(d) : i <= j => d[i] <= d[j]

DiskInv ==
  /\ disk \in [CacheKeys -> Seq(Nat)]
  /\ \A key \in CacheKeys : Len(disk[key]) >= 1 /\ Ordered(disk[key])

\* An entry holds a version that the file had, written no earlier than its chksum.
EntryInv(e) == e.ver \in 1..Len(disk[e.key]) /\ e.chksum <= disk[e.key][e.ver]

SlotsInv == slots \in Seq(Entries2) /\ \A k \in 1..Len(slots) : EntryInv(slots[k])

\* A call that looked at a file knows the second of a version the file had then.
GetInv ==
  getting.pc = "stat" =>
    /\ getting.key \in CacheKeys
    /\ getting.from \in 1..Len(disk[getting.key])
    /\ getting.sec = disk[getting.key][getting.from]

GotInv ==
  got2.rc = 0 =>
    /\ got2.key \in CacheKeys
    /\ got2.ver \in 1..Len(disk[got2.key])
    /\ got2.from \in 1..Len(disk[got2.key])
    /\ got2.ver < got2.from => disk[got2.key][got2.ver] = disk[got2.key][got2.from]

CacheInv == DiskInv /\ SlotsInv /\ GetInv /\ GotInv

\* A file only grows: what was written stays, and in order.
LEMMA DiskKept ==
  ASSUME DiskInv, FileChanges
  PROVE  /\ DiskInv'
         /\ \A key \in CacheKeys :
              /\ Len(disk[key]) \in Nat /\ Len(disk'[key]) \in Nat
              /\ Len(disk[key]) <= Len(disk'[key])
              /\ \A i \in 1..Len(disk[key]) : disk'[key][i] = disk[key][i]
<1>1. PICK f \in CacheKeys, s \in {0, 1} :
        disk' = [disk EXCEPT ![f] = Append(disk[f], Sec(f) + s)]
  BY DEF FileChanges
<1> DEFINE d == disk[f]
           v == Sec(f) + s
<1>2. disk \in [CacheKeys -> Seq(Nat)] /\ d \in Seq(Nat) /\ Len(d) >= 1 /\ Ordered(d)
  BY DEF DiskInv
<1>3. Len(d) \in Nat /\ \A i \in 1..Len(d) : d[i] \in Nat
  BY <1>2, LenProperties, ElementOfSeq
<1>4. v \in Nat /\ v >= d[Len(d)]
  <2>1. d[Len(d)] \in Nat
    BY <1>2, <1>3
  <2> QED
    BY <2>1 DEF Sec
<1> HIDE DEF v
<1>5. /\ Append(d, v) \in Seq(Nat) /\ Len(Append(d, v)) = Len(d) + 1
      /\ Append(d, v)[Len(d) + 1] = v
      /\ \A i \in 1..Len(d) : Append(d, v)[i] = d[i]
  BY <1>2, <1>4, AppendProperties
<1>6. disk' = [disk EXCEPT ![f] = Append(d, v)]
  BY <1>1 DEF v
<1>7. disk'[f] = Append(d, v) /\ \A key \in CacheKeys : key # f => disk'[key] = disk[key]
  BY <1>2, <1>6
<1>8. disk' \in [CacheKeys -> Seq(Nat)]
  BY <1>2, <1>5, <1>6
<1>9. Ordered(Append(d, v))
  <2> SUFFICES ASSUME NEW i \in 1..Len(d) + 1, NEW j \in 1..Len(d) + 1, i <= j
               PROVE  Append(d, v)[i] <= Append(d, v)[j]
    BY <1>5 DEF Ordered
  <2>1. CASE j = Len(d) + 1
    <3>1. CASE i = j
      BY <1>4, <1>5, <2>1, <3>1
    <3>2. CASE i \in 1..Len(d)
      <4>1. d[i] <= d[Len(d)] /\ d[i] \in Nat /\ d[Len(d)] \in Nat
        BY <1>2, <1>3, <3>2 DEF Ordered
      <4> QED
        BY <1>4, <1>5, <2>1, <3>2, <4>1
    <3> QED
      BY <1>3, <2>1, <3>1, <3>2
  <2>2. CASE j \in 1..Len(d)
    <3>1. i \in 1..Len(d)
      BY <1>3, <2>2
    <3> QED
      BY <1>2, <1>5, <2>2, <3>1 DEF Ordered
  <2> QED
    BY <1>3, <2>1, <2>2
<1>10. DiskInv'
  <2> SUFFICES ASSUME NEW key \in CacheKeys
               PROVE  Len(disk'[key]) >= 1 /\ Ordered(disk'[key])
    BY <1>8 DEF DiskInv, Ordered
  <2>1. CASE key = f
    <3>1. Len(disk'[key]) >= 1
      BY <1>3, <1>5, <1>7, <2>1
    <3> QED
      BY <1>7, <1>9, <2>1, <3>1
  <2>2. CASE key # f
    BY <1>7, <2>2 DEF DiskInv
  <2> QED
    BY <2>1, <2>2
<1>11. ASSUME NEW key \in CacheKeys
       PROVE  /\ Len(disk[key]) \in Nat /\ Len(disk'[key]) \in Nat
              /\ Len(disk[key]) <= Len(disk'[key])
              /\ \A i \in 1..Len(disk[key]) : disk'[key][i] = disk[key][i]
  <2>1. Len(disk[key]) \in Nat
    BY <1>2, LenProperties
  <2>2. CASE key = f
    <3>1. disk[key] = d /\ disk'[key] = Append(d, v)
      BY <1>7, <2>2
    <3> QED
      BY <1>3, <1>5, <3>1
  <2>3. CASE key # f
    BY <1>7, <2>1, <2>3
  <2> QED
    BY <2>2, <2>3
<1> QED
  BY <1>10, <1>11

\* Someone writes a file: what is known of it stays true.
LEMMA FileChangesInv == ASSUME CacheInv, FileChanges PROVE CacheInv'
<1>1. DiskInv /\ slots' = slots /\ getting' = getting /\ got2' = got2
  BY DEF CacheInv, FileChanges
<1>2. /\ DiskInv'
      /\ \A key \in CacheKeys :
              /\ Len(disk[key]) \in Nat /\ Len(disk'[key]) \in Nat
              /\ Len(disk[key]) <= Len(disk'[key])
              /\ \A i \in 1..Len(disk[key]) : disk'[key][i] = disk[key][i]
  BY <1>1, DiskKept
<1>3. SlotsInv'
  <2>1. slots' \in Seq(Entries2) /\ Len(slots) \in Nat
    BY <1>1, LenProperties DEF CacheInv, SlotsInv
  <2> SUFFICES ASSUME NEW k \in 1..Len(slots) PROVE EntryInv(slots[k])'
    BY <1>1, <2>1 DEF SlotsInv
  <2> DEFINE e == slots[k]
  <2>2. e.key \in CacheKeys /\ e.ver \in Nat /\ e.chksum \in Nat
    <3>1. e \in Entries2
      BY ElementOfSeq DEF CacheInv, SlotsInv
    <3> QED
      BY <3>1 DEF Entries2
  <2>3. e.ver \in 1..Len(disk[e.key]) /\ e.chksum <= disk[e.key][e.ver]
    BY DEF CacheInv, SlotsInv, EntryInv
  <2>4. /\ Len(disk[e.key]) \in Nat /\ Len(disk'[e.key]) \in Nat
        /\ Len(disk[e.key]) <= Len(disk'[e.key]) /\ disk'[e.key][e.ver] = disk[e.key][e.ver]
    BY <1>2, <2>2, <2>3
  <2>5. e.ver \in 1..Len(disk'[e.key]) /\ e.chksum <= disk'[e.key][e.ver]
    BY <2>2, <2>3, <2>4
  <2> QED
    BY <1>1, <2>5 DEF EntryInv
<1>4. GetInv'
  <2> SUFFICES ASSUME getting.pc = "stat"
               PROVE  /\ getting.key \in CacheKeys
                      /\ getting.from \in 1..Len(disk'[getting.key])
                      /\ getting.sec = disk'[getting.key][getting.from]
    BY <1>1 DEF GetInv
  <2>1. /\ getting.key \in CacheKeys
        /\ getting.from \in 1..Len(disk[getting.key])
        /\ getting.sec = disk[getting.key][getting.from]
    BY DEF CacheInv, GetInv
  <2>2. /\ Len(disk[getting.key]) \in Nat /\ Len(disk'[getting.key]) \in Nat
        /\ Len(disk[getting.key]) <= Len(disk'[getting.key])
        /\ disk'[getting.key][getting.from] = disk[getting.key][getting.from]
    BY <1>2, <2>1
  <2> QED
    BY <2>1, <2>2
<1>5. GotInv'
  <2> SUFFICES ASSUME got2.rc = 0
               PROVE  /\ got2.key \in CacheKeys
                      /\ got2.ver \in 1..Len(disk'[got2.key])
                      /\ got2.from \in 1..Len(disk'[got2.key])
                      /\ got2.ver < got2.from =>
                           disk'[got2.key][got2.ver] = disk'[got2.key][got2.from]
    BY <1>1 DEF GotInv
  <2>1. /\ got2.key \in CacheKeys
        /\ got2.ver \in 1..Len(disk[got2.key])
        /\ got2.from \in 1..Len(disk[got2.key])
        /\ got2.ver < got2.from =>
             disk[got2.key][got2.ver] = disk[got2.key][got2.from]
    BY DEF CacheInv, GotInv
  <2>2. /\ Len(disk[got2.key]) \in Nat /\ Len(disk'[got2.key]) \in Nat
        /\ Len(disk[got2.key]) <= Len(disk'[got2.key])
        /\ disk'[got2.key][got2.ver] = disk[got2.key][got2.ver]
        /\ disk'[got2.key][got2.from] = disk[got2.key][got2.from]
    BY <1>2, <2>1
  <2> QED
    BY <2>1, <2>2
<1> QED
  BY <1>2, <1>3, <1>4, <1>5 DEF CacheInv

\* stat: the second of the latest version.
LEMMA GetStartsInv == ASSUME CacheInv, hp_cache_get PROVE CacheInv'
<1>1. disk' = disk /\ slots' = slots /\ got2' = got2
  BY DEF hp_cache_get
<1>2. DiskInv' /\ SlotsInv' /\ GotInv'
  BY <1>1 DEF CacheInv, DiskInv, SlotsInv, GotInv, EntryInv
<1>3. GetInv'
  <2>1. PICK key \in CacheKeys :
          getting' = [pc |-> "stat", key |-> key, sec |-> Sec(key), from |-> Len(disk[key])]
    BY DEF hp_cache_get
  <2>2. Len(disk[key]) \in Nat /\ Len(disk[key]) >= 1
    BY LenProperties DEF CacheInv, DiskInv
  <2>3. Len(disk[key]) \in 1..Len(disk[key])
    BY <2>2
  <2> QED
    BY <1>1, <2>1, <2>3 DEF GetInv, Sec
<1> QED
  BY <1>2, <1>3 DEF CacheInv

\* What every way to finish leaves: nothing under way, and the result.
LEMMA FinishInv ==
  ASSUME CacheInv, NEW rc, NEW ver, Finish(rc, ver)
  PROVE  /\ DiskInv' /\ GetInv' /\ disk' = disk
         /\ got2'.rc = rc /\ got2'.ver = ver
         /\ got2'.key = getting.key /\ got2'.from = getting.from
<1>1. /\ disk' = disk /\ getting' = NoGet
      /\ got2' = [rc |-> rc, key |-> getting.key, ver |-> ver, from |-> getting.from]
  BY DEF Finish
<1>2. DiskInv' /\ GetInv'
  BY <1>1 DEF CacheInv, DiskInv, GetInv, NoGet
<1> QED
  BY <1>1, <1>2

\* The entry is as old as the file was: its version was written in the same second or
\* later, and if it is an older version, in the same.
LEMMA CacheHitInv == ASSUME CacheInv, CacheHit PROVE CacheInv'
<1>1. PICK k \in Slot(getting.key) : Current(k) /\ Finish(0, slots[k].ver)
  BY DEF CacheHit
<1> DEFINE e == slots[k]
           key == getting.key
<1>2. slots' = slots /\ getting.pc = "stat"
  BY DEF CacheHit
<1>3. /\ DiskInv' /\ GetInv' /\ disk' = disk
      /\ got2'.rc = 0 /\ got2'.ver = e.ver
      /\ got2'.key = key /\ got2'.from = getting.from
  BY <1>1, FinishInv
<1>4. /\ key \in CacheKeys /\ getting.from \in 1..Len(disk[key])
      /\ getting.sec = disk[key][getting.from]
  BY <1>2 DEF CacheInv, GetInv
<1>5. k \in 1..Len(slots) /\ e.key = key /\ e.chksum = getting.sec
  <2>1. DOMAIN slots = 1..Len(slots)
    BY LenProperties DEF CacheInv, SlotsInv
  <2> QED
    BY <1>1, <2>1 DEF Slot, Current
<1>6. e.ver \in 1..Len(disk[key]) /\ e.chksum <= disk[key][e.ver]
  BY <1>5 DEF CacheInv, SlotsInv, EntryInv
<1>7. SlotsInv'
  BY <1>2, <1>3 DEF CacheInv, SlotsInv, EntryInv
<1>8. e.ver < getting.from => disk[key][e.ver] = disk[key][getting.from]
  <2>1. disk[key] \in Seq(Nat) /\ Ordered(disk[key])
    BY <1>4 DEF CacheInv, DiskInv
  <2>2. /\ Len(disk[key]) \in Nat /\ disk[key][e.ver] \in Nat
        /\ disk[key][getting.from] \in Nat
    BY <1>4, <1>6, <2>1, LenProperties, ElementOfSeq
  <2>3. e.ver < getting.from => disk[key][e.ver] <= disk[key][getting.from]
    BY <1>4, <1>6, <2>1, <2>2, SMTT(30) DEF Ordered
  <2> QED
    BY <1>4, <1>5, <1>6, <2>2, <2>3
<1>9. GotInv'
  <2> HIDE DEF e, key
  <2> QED
    BY <1>3, <1>4, <1>6, <1>8 DEF GotInv
<1> QED
  BY <1>3, <1>7, <1>9 DEF CacheInv

\* What is read is the latest version, and its chksum the second of that or of an
\* earlier one.
LEMMA ReadEntry ==
  ASSUME CacheInv, getting.pc = "stat"
  PROVE  LET ver == Len(disk[getting.key])
         IN  /\ Read(ver) \in Entries2 /\ EntryInv(Read(ver))
             /\ getting.key \in CacheKeys
             /\ ver \in 1..ver /\ getting.from \in 1..ver
<1> DEFINE key == getting.key
           ver == Len(disk[key])
<1>1. /\ key \in CacheKeys /\ getting.from \in 1..ver
      /\ getting.sec = disk[key][getting.from]
  BY DEF CacheInv, GetInv
<1>2. disk[key] \in Seq(Nat) /\ Ordered(disk[key]) /\ ver >= 1
  BY <1>1 DEF CacheInv, DiskInv
<1>3. ver \in Nat /\ getting.sec \in Nat /\ ver \in 1..ver
  BY <1>1, <1>2, LenProperties, ElementOfSeq
<1>4. getting.sec <= disk[key][ver]
  BY <1>1, <1>2, <1>3 DEF Ordered
<1>5. Read(ver) \in Entries2
  BY <1>1, <1>3 DEF Read, Entries2
<1>6. Read(ver).ver = ver /\ Read(ver).key = key /\ Read(ver).chksum = getting.sec
  BY DEF Read
<1>7. EntryInv(Read(ver))
  <2>1. Read(ver).ver \in 1..Len(disk[Read(ver).key])
    BY <1>3, <1>6
  <2>2. Read(ver).chksum <= disk[Read(ver).key][Read(ver).ver]
    BY <1>4, <1>6
  <2> QED
    BY <2>1, <2>2 DEF EntryInv
<1> QED
  BY <1>1, <1>3, <1>5, <1>7

\* The file is read: its entry is the latest version.
LEMMA CacheReadInv == ASSUME CacheInv, CacheRead PROVE CacheInv'
<1> DEFINE key == getting.key
           ver == Len(disk[key])
<1>1. getting.pc = "stat"
  BY DEF CacheRead
<1>2. /\ Read(ver) \in Entries2 /\ EntryInv(Read(ver)) /\ key \in CacheKeys
      /\ ver \in 1..ver /\ getting.from \in 1..ver
  BY <1>1, ReadEntry
<1>3. slots \in Seq(Entries2) /\ DOMAIN slots = 1..Len(slots) /\ Len(slots) \in Nat
  BY LenProperties DEF CacheInv, SlotsInv
<1>4. \A k \in 1..Len(slots) : EntryInv(slots[k])
  BY DEF CacheInv, SlotsInv
<1>5. ASSUME Finish(0, ver) PROVE DiskInv' /\ GetInv' /\ disk' = disk /\ GotInv'
  <2>1. /\ DiskInv' /\ GetInv' /\ disk' = disk
        /\ got2'.rc = 0 /\ got2'.ver = ver
        /\ got2'.key = key /\ got2'.from = getting.from
    BY <1>5, FinishInv
  <2>2. ver \in Nat /\ ~(ver < getting.from)
    BY <1>2
  <2>3. GotInv'
    BY <1>2, <2>1, <2>2 DEF GotInv
  <2> QED
    BY <2>1, <2>3
<1>6. CASE \E k \in Slot(key) : slots' = [slots EXCEPT ![k] = Read(ver)] /\ Finish(0, ver)
  <2>1. PICK k \in Slot(key) : slots' = [slots EXCEPT ![k] = Read(ver)] /\ Finish(0, ver)
    BY <1>6
  <2>2. DiskInv' /\ GetInv' /\ disk' = disk /\ GotInv'
    BY <1>5, <2>1
  <2>3. k \in 1..Len(slots)
    BY <1>3 DEF Slot
  <2>4. /\ slots' \in Seq(Entries2) /\ Len(slots') = Len(slots)
        /\ \A j \in 1..Len(slots) : slots'[j] = IF j = k THEN Read(ver) ELSE slots[j]
    BY <1>2, <1>3, <2>1, <2>3, ExceptSeq
  <2>5. \A j \in 1..Len(slots) : EntryInv(slots'[j])
    BY <1>2, <1>4, <2>4
  <2>6. SlotsInv'
    BY <2>2, <2>4, <2>5 DEF SlotsInv, EntryInv
  <2> QED
    BY <2>2, <2>6 DEF CacheInv
<1>7. CASE slots' = Append(slots, Read(ver)) /\ Finish(0, ver)
  <2>2. DiskInv' /\ GetInv' /\ disk' = disk /\ GotInv'
    BY <1>5, <1>7
  <2>4. /\ slots' \in Seq(Entries2) /\ Len(slots') = Len(slots) + 1
        /\ slots'[Len(slots) + 1] = Read(ver)
        /\ \A j \in 1..Len(slots) : slots'[j] = slots[j]
    BY <1>2, <1>3, <1>7, AppendProperties
  <2>5. ASSUME NEW j \in 1..Len(slots') PROVE EntryInv(slots'[j])
    <3>1. j \in 1..Len(slots) \/ j = Len(slots) + 1
      BY <1>3, <2>4
    <3> QED
      BY <1>2, <1>4, <2>4, <3>1
  <2>6. SlotsInv'
    BY <2>2, <2>4, <2>5 DEF SlotsInv, EntryInv
  <2> QED
    BY <2>2, <2>6 DEF CacheInv
<1>8. CASE slots' = slots /\ Finish(-8, 0)
  <2>1. DiskInv' /\ GetInv' /\ disk' = disk /\ got2'.rc = -8
    BY <1>8, FinishInv
  <2>2. GotInv'
    BY <2>1 DEF GotInv
  <2>3. SlotsInv'
    BY <1>8, <2>1 DEF CacheInv, SlotsInv, EntryInv
  <2> QED
    BY <2>1, <2>2, <2>3 DEF CacheInv
<1> QED
  BY <1>6, <1>7, <1>8 DEF CacheRead

\* The entry of a file that cannot be read is freed, and says nothing new.
LEMMA CacheReadFailsInv == ASSUME CacheInv, CacheReadFails PROVE CacheInv'
<1>1. /\ slots' = [k \in DOMAIN slots |->
                     IF k \in Slot(getting.key) THEN [slots[k] EXCEPT !.freed = TRUE]
                     ELSE slots[k]]
      /\ Finish(-5, 0)
  BY DEF CacheReadFails
<1>2. DiskInv' /\ GetInv' /\ disk' = disk /\ got2'.rc = -5
  BY <1>1, FinishInv
<1>3. GotInv'
  BY <1>2 DEF GotInv
<1>4. slots \in Seq(Entries2) /\ DOMAIN slots = 1..Len(slots) /\ Len(slots) \in Nat
  BY LenProperties DEF CacheInv, SlotsInv
<1>5. ASSUME NEW e \in Entries2
      PROVE  /\ [e EXCEPT !.freed = TRUE] \in Entries2
             /\ EntryInv(e) => EntryInv([e EXCEPT !.freed = TRUE])
  BY DEF Entries2, EntryInv
<1>6. ASSUME NEW k \in 1..Len(slots) PROVE slots'[k] \in Entries2 /\ EntryInv(slots'[k])
  <2>1. slots[k] \in Entries2 /\ EntryInv(slots[k])
    BY ElementOfSeq DEF CacheInv, SlotsInv
  <2>2. slots'[k] = slots[k] \/ slots'[k] = [slots[k] EXCEPT !.freed = TRUE]
    BY <1>1, <1>4
  <2> QED
    BY <1>5, <2>1, <2>2
<1>7. slots' \in Seq(Entries2) /\ Len(slots') = Len(slots)
  <2>1. slots' \in [1..Len(slots) -> Entries2]
    BY <1>1, <1>4, <1>6
  <2>2. slots' \in Seq(Entries2)
    BY <1>4, <2>1, IsASeq
  <2> QED
    BY <1>4, <2>1, <2>2, LenProperties
<1>8. SlotsInv'
  BY <1>2, <1>6, <1>7 DEF SlotsInv, EntryInv
<1> QED
  BY <1>2, <1>3, <1>8 DEF CacheInv

\* Nothing is known of the files at first.
LEMMA CacheInitInv == CacheInit => CacheInv
<1> SUFFICES ASSUME CacheInit PROVE CacheInv
  OBVIOUS
<1>1. disk = [k \in CacheKeys |-> <<0>>] /\ slots = <<>>
  BY DEF CacheInit
<1>2. <<0>> \in Seq(Nat) /\ Len(<<0>>) = 1 /\ Ordered(<<0>>)
  BY DEF Ordered
<1>3. DiskInv
  BY <1>1, <1>2 DEF DiskInv
<1>4. SlotsInv
  <2>1. slots \in Seq(Entries2) /\ Len(slots) = 0
    BY <1>1, EmptySeq
  <2> QED
    BY <2>1 DEF SlotsInv
<1>5. getting.pc = "idle" /\ got2.rc = 1
  BY DEF CacheInit, NoGet
<1> QED
  BY <1>3, <1>4, <1>5 DEF CacheInv, GetInv, GotInv

\* hp_cache_get returns a version at least as new as the one it was asked for, unless
\* the file was written twice in one second (hp_cache.c:89-97), for any number of
\* files, slots and changes.
THEOREM CacheFresh == CacheSpec => []StaleOnlyWithinSecond
<1>1. CacheInv /\ [CacheNext]_cacheVars => CacheInv'
  <2> SUFFICES ASSUME CacheInv, [CacheNext]_cacheVars PROVE CacheInv'
    OBVIOUS
  <2>1. CASE CacheNext
    BY <2>1, FileChangesInv, GetStartsInv, CacheHitInv, CacheReadInv, CacheReadFailsInv
       DEF CacheNext
  <2>2. CASE UNCHANGED cacheVars
    BY <2>2 DEF cacheVars, CacheInv, DiskInv, SlotsInv, GetInv, GotInv, EntryInv
  <2> QED
    BY <2>1, <2>2
<1>2. CacheInv => StaleOnlyWithinSecond
  BY DEF CacheInv, GotInv, StaleOnlyWithinSecond
<1> QED
  BY <1>1, <1>2, CacheInitInv, PTL DEF CacheSpec

-----------------------------------------------------------------------------
(* HpConf *)

\* f solves the recursion of Said up to m.
SaidRec(log, key, f, m) ==
  f = [k \in 0..m |->
        IF k = 0 \/ log[k].op = "unload" THEN Missing
        ELSE IF log[k].op # "load" /\ log[k].key = key THEN log[k].val
        ELSE f[k - 1]]

\* The recursion has a solution.
LEMMA SaidExists ==
  ASSUME NEW log, Len(log) \in Nat, NEW key
  PROVE  \A m \in 0..Len(log) : \E f : SaidRec(log, key, f, m)
<1> DEFINE T == {m \in 0..Len(log) : ~ \E f : SaidRec(log, key, f, m)}
<1> SUFFICES ASSUME T # {} PROVE FALSE
  OBVIOUS
<1>1. PICK m \in T : \A k \in T : m <= k
  BY NatMin, T \subseteq Nat
<1>2. m # 0
  <2> SUFFICES ASSUME m = 0 PROVE FALSE
    OBVIOUS
  <2> DEFINE g == [k \in 0..0 |-> Missing]
  <2>1. SaidRec(log, key, g, 0)
    BY DEF SaidRec
  <2> QED BY <2>1, <1>1
<1>3. PICK f : SaidRec(log, key, f, m - 1)
  BY <1>1, <1>2
<1>0. m \in Nat
  BY <1>1
<1> DEFINE Unfold(k, p) == IF k = 0 \/ log[k].op = "unload" THEN Missing
                       ELSE IF log[k].op # "load" /\ log[k].key = key THEN log[k].val
                       ELSE p
           g == [k \in 0..m |-> IF k < m THEN f[k] ELSE Unfold(m, f[m - 1])]
<1>4. SaidRec(log, key, g, m)
  <2>1. \A k \in 0..m - 1 : f[k] = Unfold(k, f[k - 1])
    BY <1>3 DEF SaidRec
  <2>2. ASSUME NEW k \in 0..m PROVE g[k] = Unfold(k, g[k - 1])
    <3> HIDE DEF Unfold
    <3>1. CASE k = m
      BY <1>0, <1>2, <3>1
    <3>2. CASE k = 0
      <4>1. Unfold(k, f[k - 1]) = Unfold(k, g[k - 1])
        BY <3>2 DEF Unfold
      <4> QED
        BY <1>0, <1>2, <2>1, <3>2, <4>1
    <3>3. CASE k # m /\ k # 0
      <4>1. k - 1 \in 0..m /\ k - 1 < m /\ k \in 0..m - 1 /\ k < m
        BY <1>0, <3>3
      <4>2. g[k - 1] = f[k - 1] /\ g[k] = f[k]
        BY <4>1
      <4> QED
        BY <2>1, <4>1, <4>2
    <3> QED
      BY <3>1, <3>2, <3>3
  <2>3. g = [k \in 0..m |-> Unfold(k, g[k - 1])]
    <3> HIDE DEF Unfold
    <3> QED
      BY <2>2
  <2> HIDE DEF g
  <2> QED
    BY <2>3 DEF SaidRec
<1> QED BY <1>1, <1>4

\* What the k-th command or entry says of a key, p being what was said before.
SaidAt(log, key, k, p) ==
  IF k = 0 \/ log[k].op = "unload" THEN Missing
  ELSE IF log[k].op # "load" /\ log[k].key = key THEN log[k].val ELSE p

\* Said satisfies its recursive definition.
LEMMA SaidStep ==
  ASSUME NEW log, Len(log) \in Nat, NEW key
  PROVE  \A k \in 0..Len(log) :
           Said(log, key)[k] = SaidAt(log, key, k, Said(log, key)[k - 1])
<1> DEFINE u == Said(log, key)
<1>1. PICK f : SaidRec(log, key, f, Len(log))
  <2>1. Len(log) \in 0..Len(log)
    OBVIOUS
  <2> QED
    BY <2>1, SaidExists, Zenon
<1>2. u = CHOOSE s : SaidRec(log, key, s, Len(log))
  BY Zenon DEF Said, SaidRec
<1>3. SaidRec(log, key, u, Len(log))
  BY <1>1, <1>2, Zenon
<1> HIDE DEF u
<1>4. \A k \in 0..Len(log) : u[k] = SaidAt(log, key, k, u[k - 1])
  BY <1>3 DEF SaidRec, SaidAt
<1> QED BY <1>4 DEF u

\* What follows changes nothing of what was said before it.
LEMMA SaidPrefix ==
  ASSUME NEW log, Len(log) \in Nat, NEW log2, Len(log2) \in Nat, NEW key,
         Len(log) <= Len(log2), \A k \in 1..Len(log) : log2[k] = log[k]
  PROVE  \A k \in 0..Len(log) : Said(log2, key)[k] = Said(log, key)[k]
<1> DEFINE u == Said(log, key)
           w == Said(log2, key)
<1>1. \A k \in 0..Len(log) : u[k] = SaidAt(log, key, k, u[k - 1])
  BY SaidStep
<1>2. \A k \in 0..Len(log) : w[k] = SaidAt(log2, key, k, w[k - 1])
  <2>1. \A k \in 0..Len(log2) : w[k] = SaidAt(log2, key, k, w[k - 1])
    BY SaidStep
  <2> HIDE DEF w
  <2> QED
    BY <2>1
<1> HIDE DEF u, w
<1> DEFINE T == {k \in 0..Len(log) : w[k] # u[k]}
<1> SUFFICES ASSUME T # {} PROVE FALSE
  BY DEF u, w
<1>3. PICK m \in T : \A k \in T : m <= k
  BY NatMin, T \subseteq Nat
<1>4. CASE m = 0
  <2>1. w[0] = Missing /\ u[0] = Missing
    BY <1>1, <1>2 DEF SaidAt
  <2> QED
    BY <1>3, <1>4, <2>1
<1>5. CASE m # 0
  <2>1. m - 1 \in 0..Len(log) /\ m \in 1..Len(log) /\ m \in 0..Len(log) /\ m - 1 < m
    BY <1>3, <1>5
  <2>2. w[m - 1] = u[m - 1] /\ log2[m] = log[m]
    BY <1>3, <2>1
  <2>3. w[m] = u[m]
    BY <1>1, <1>2, <2>1, <2>2 DEF SaidAt
  <2> QED
    BY <1>3, <2>3
<1> QED BY <1>4, <1>5

\* f solves the recursion of Loaded(t, file) up to m.
LoadedRec(t, file, f, m) ==
  f = [n \in 0..m |-> IF n = 0 THEN t ELSE hp_config_ini_def_parser(f[n - 1], file[n])]

\* The recursion has a solution.
LEMMA LoadedExists ==
  ASSUME NEW t, NEW file, Len(file) \in Nat
  PROVE  \A m \in 0..Len(file) : \E f : LoadedRec(t, file, f, m)
<1> DEFINE T == {m \in 0..Len(file) : ~ \E f : LoadedRec(t, file, f, m)}
<1> SUFFICES ASSUME T # {} PROVE FALSE
  OBVIOUS
<1>1. PICK m \in T : \A k \in T : m <= k
  BY NatMin, T \subseteq Nat
<1>2. m # 0
  <2> SUFFICES ASSUME m = 0 PROVE FALSE
    OBVIOUS
  <2> DEFINE g == [n \in 0..0 |-> t]
  <2>1. LoadedRec(t, file, g, 0)
    BY DEF LoadedRec
  <2> QED BY <2>1, <1>1
<1>3. PICK f : LoadedRec(t, file, f, m - 1)
  BY <1>1, <1>2
<1> DEFINE g == [n \in 0..m |-> IF n < m THEN f[n]
                                ELSE hp_config_ini_def_parser(f[m - 1], file[m])]
<1>4. LoadedRec(t, file, g, m)
  <2> SUFFICES ASSUME NEW n \in 0..m
               PROVE  g[n] = IF n = 0 THEN t ELSE hp_config_ini_def_parser(g[n - 1], file[n])
    BY DEF LoadedRec
  <2>0. m \in Nat
    BY <1>1
  <2> HIDE DEF T
  <2>1. \A j \in 0..m - 1 :
          f[j] = IF j = 0 THEN t ELSE hp_config_ini_def_parser(f[j - 1], file[j])
    BY <1>3 DEF LoadedRec
  <2>2. CASE n = m
    BY <2>0, <2>2, <1>2
  <2>3. CASE n # m
    BY <2>0, <2>1, <2>3, <1>2
  <2> QED BY <2>2, <2>3
<1> QED BY <1>4, <1>1

\* Loaded satisfies its recursive definition.
LEMMA LoadedStep ==
  ASSUME NEW t, NEW file, Len(file) \in Nat
  PROVE  \A n \in 0..Len(file) :
           Loaded(t, file)[n] =
             IF n = 0 THEN t ELSE hp_config_ini_def_parser(Loaded(t, file)[n - 1], file[n])
<1> DEFINE u == Loaded(t, file)
<1>1. PICK f : LoadedRec(t, file, f, Len(file))
  <2>1. Len(file) \in 0..Len(file)
    OBVIOUS
  <2> QED
    BY <2>1, LoadedExists, Zenon
<1>2. u = CHOOSE s : LoadedRec(t, file, s, Len(file))
  BY Zenon DEF Loaded, LoadedRec
<1>3. LoadedRec(t, file, u, Len(file))
  BY <1>1, <1>2, Zenon
<1> HIDE DEF u
<1>4. \A n \in 0..Len(file) :
        u[n] = IF n = 0 THEN t ELSE hp_config_ini_def_parser(u[n - 1], file[n])
  BY <1>3 DEF LoadedRec
<1> QED BY <1>4 DEF u

Stored == Values \cup {Missing}
Tables2 == [dict : [Keys2 -> Stored], section : Sections]
Commands ==
  {[op |-> "load"], [op |-> "unload"]} \cup [op : {"entry", "set"}, key : Keys2, val : Values]

\* The table holds what the log says last of every key.
ConfInv == ini \in Tables2 /\ iniLog \in Seq(Commands) /\ LatestWins

\* Storing an entry changes one key.
LEMMA EntryStored ==
  ASSUME NEW d \in [Keys2 -> Stored], NEW key \in Keys2, NEW val \in Values, NEW e,
         e.key = key, e.val = val
  PROVE  /\ StoreEntry(d, e) \in [Keys2 -> Stored]
         /\ \A k \in Keys2 : StoreEntry(d, e)[k] = IF k = key THEN val ELSE d[k]
BY DEF StoreEntry, Stored

\* A file's entries are read into a table.
LEMMA EntryParsed ==
  ASSUME NEW t \in Tables2, NEW e \in [key : Keys2, val : Values]
  PROVE  LET t2 == hp_config_ini_def_parser(t, e)
         IN  /\ t2 \in Tables2
             /\ \A k \in Keys2 : t2.dict[k] = IF k = e.key THEN e.val ELSE t.dict[k]
<1>1. t.dict \in [Keys2 -> Stored] /\ t.section \in Sections
  BY DEF Tables2
<1>2. e.key \in Keys2 /\ e.val \in Values /\ e.key[1] \in Sections
  BY DEF Keys2
<1>3. /\ StoreEntry(t.dict, e) \in [Keys2 -> Stored]
      /\ \A k \in Keys2 : StoreEntry(t.dict, e)[k] = IF k = e.key THEN e.val ELSE t.dict[k]
  BY <1>1, <1>2, EntryStored
<1> QED
  BY <1>1, <1>2, <1>3 DEF hp_config_ini_def_parser, Tables2

\* One more command in the log.
LEMMA SaidAppend ==
  ASSUME NEW log \in Seq(Commands), NEW c \in Commands, NEW key
  PROVE  /\ Append(log, c) \in Seq(Commands)
         /\ Len(Append(log, c)) = Len(log) + 1
         /\ Said(Append(log, c), key)[Len(log) + 1] =
              IF c.op = "unload" THEN Missing
              ELSE IF c.op # "load" /\ c.key = key THEN c.val
              ELSE Said(log, key)[Len(log)]
<1> DEFINE log2 == Append(log, c)
           w == Said(log2, key)
<1>1. Len(log) \in Nat
  BY LenProperties
<1>2. /\ log2 \in Seq(Commands) /\ Len(log2) = Len(log) + 1 /\ log2[Len(log) + 1] = c
      /\ \A k \in 1..Len(log) : log2[k] = log[k]
  BY AppendProperties
<1> HIDE DEF log2
<1>3. \A k \in 0..Len(log) : w[k] = Said(log, key)[k]
  BY <1>1, <1>2, SaidPrefix
<1>4. \A k \in 0..Len(log) + 1 : w[k] = SaidAt(log2, key, k, w[k - 1])
  BY <1>1, <1>2, SaidStep
<1> HIDE DEF w
<1>5. w[Len(log) + 1] = SaidAt(log2, key, Len(log) + 1, w[Len(log)])
  BY <1>1, <1>4
<1>6. w[Len(log) + 1] =
        IF c.op = "unload" THEN Missing
        ELSE IF c.op # "load" /\ c.key = key THEN c.val ELSE Said(log, key)[Len(log)]
  BY <1>1, <1>2, <1>3, <1>5 DEF SaidAt
<1> QED
  BY <1>2, <1>6 DEF log2, w

\* The table after each entry of a file is a table.
LEMMA LoadedTables ==
  ASSUME NEW t \in Tables2, NEW f \in Seq([key : Keys2, val : Values])
  PROVE  \A n \in 0..Len(f) : Loaded(t, f)[n] \in Tables2
<1> DEFINE u == Loaded(t, f)
<1>1. Len(f) \in Nat /\ \A n \in 1..Len(f) : f[n] \in [key : Keys2, val : Values]
  BY LenProperties, ElementOfSeq
<1>2. \A n \in 0..Len(f) : u[n] = IF n = 0 THEN t ELSE hp_config_ini_def_parser(u[n - 1], f[n])
  BY <1>1, LoadedStep
<1> HIDE DEF u
<1> DEFINE T == {n \in 0..Len(f) : u[n] \notin Tables2}
<1> SUFFICES ASSUME T # {} PROVE FALSE
  BY DEF u
<1>3. PICK m \in T : \A k \in T : m <= k
  BY NatMin, T \subseteq Nat
<1>4. CASE m = 0
  BY <1>2, <1>3, <1>4
<1>5. CASE m # 0
  <2>1. m - 1 \in 0..Len(f) /\ m \in 1..Len(f) /\ m \in 0..Len(f) /\ m - 1 < m
    BY <1>3, <1>5
  <2>2. u[m - 1] \in Tables2 /\ f[m] \in [key : Keys2, val : Values]
    BY <1>1, <1>3, <2>1
  <2>3. hp_config_ini_def_parser(u[m - 1], f[m]) \in Tables2
    BY <2>2, EntryParsed
  <2>4. u[m] \in Tables2
    BY <1>2, <1>5, <2>1, <2>3
  <2> QED
    BY <1>3, <2>4
<1> QED BY <1>4, <1>5

\* What the log of a #load says: each entry stored says what the table has.
Entry(e) == [op |-> "entry", key |-> e.key, val |-> e.val]
LoadLog(log, f, n) == Append(log, [op |-> "load"]) \o [k \in 1..n |-> Entry(f[k])]

\* The log is one of commands, its parts those it is put together from.
LEMMA LoadLogParts ==
  ASSUME NEW log \in Seq(Commands), NEW f \in Seq([key : Keys2, val : Values]),
         NEW n \in 0..Len(f)
  PROVE  /\ LoadLog(log, f, n) \in Seq(Commands)
         /\ Len(LoadLog(log, f, n)) = Len(log) + 1 + n
         /\ LoadLog(log, f, n)[Len(log) + 1] = [op |-> "load"]
         /\ \A k \in 1..Len(log) : LoadLog(log, f, n)[k] = log[k]
         /\ \A j \in 1..n : LoadLog(log, f, n)[Len(log) + 1 + j] = Entry(f[j])
<1> DEFINE a == Append(log, [op |-> "load"])
           b == [k \in 1..n |-> Entry(f[k])]
<1>1. Len(log) \in Nat /\ Len(f) \in Nat /\ n \in Nat
  BY LenProperties
<1>2. [op |-> "load"] \in Commands
  BY DEF Commands
<1>3. /\ a \in Seq(Commands) /\ Len(a) = Len(log) + 1 /\ a[Len(log) + 1] = [op |-> "load"]
      /\ \A k \in 1..Len(log) : a[k] = log[k]
  BY <1>2, AppendProperties
<1>4. ASSUME NEW k \in 1..n PROVE Entry(f[k]) \in Commands
  <2>0. k \in 1..Len(f)
    BY <1>1
  <2>1. f[k] \in [key : Keys2, val : Values]
    BY <2>0, ElementOfSeq, Zenon
  <2> QED
    BY <2>1 DEF Entry, Commands
<1> HIDE DEF a
<1>5. b \in Seq(Commands) /\ Len(b) = n /\ \A k \in 1..n : b[k] = Entry(f[k])
  <2>1. b \in [1..n -> Commands]
    BY <1>4
  <2>2. b \in Seq(Commands)
    BY <1>1, <2>1, IsASeq
  <2> QED
    BY <1>1, <2>1, <2>2, LenProperties
<1> HIDE DEF b
<1>6. /\ a \o b \in Seq(Commands) /\ Len(a \o b) = Len(a) + Len(b)
      /\ \A k \in 1..Len(a) + Len(b) :
           (a \o b)[k] = IF k <= Len(a) THEN a[k] ELSE b[k - Len(a)]
  BY <1>3, <1>5, ConcatProperties
<1>7. LoadLog(log, f, n) = a \o b
  BY DEF LoadLog, a, b
<1>8. \A k \in 1..Len(log) + 1 : (a \o b)[k] = a[k]
  BY <1>1, <1>3, <1>5, <1>6
<1>9. \A j \in 1..n : (a \o b)[Len(log) + 1 + j] = b[j]
  <2> SUFFICES ASSUME NEW j \in 1..n PROVE (a \o b)[Len(log) + 1 + j] = b[j]
    OBVIOUS
  <2> DEFINE p == Len(log) + 1 + j
  <2>1. p \in 1..Len(a) + Len(b) /\ ~(p <= Len(a)) /\ p - Len(a) = j
    BY <1>1, <1>3, <1>5
  <2> HIDE DEF p
  <2>2. (a \o b)[p] = IF p <= Len(a) THEN a[p] ELSE b[p - Len(a)]
    BY <1>6, <2>1, Zenon
  <2>3. (a \o b)[p] = b[j]
    BY <2>1, <2>2, Zenon
  <2> QED
    BY <2>3 DEF p
<1> QED
  BY <1>1, <1>3, <1>5, <1>6, <1>7, <1>8, <1>9

\* After each entry the log says what the table has.
LEMMA LoadedSaid ==
  ASSUME NEW t \in Tables2, NEW log \in Seq(Commands), NEW key \in Keys2,
         t.dict[key] = Said(log, key)[Len(log)],
         NEW f \in Seq([key : Keys2, val : Values]), NEW n \in 0..Len(f)
  PROVE  Loaded(t, f)[n].dict[key] = Said(LoadLog(log, f, n), key)[Len(log) + 1 + n]
<1> DEFINE u == Loaded(t, f)
           log2 == LoadLog(log, f, n)
           w == Said(log2, key)
           L == Len(log)
<1>1. Len(f) \in Nat /\ n \in Nat /\ L \in Nat
  BY LenProperties
<1>2. \A j \in 1..Len(f) : f[j] \in [key : Keys2, val : Values]
  BY ElementOfSeq
<1>3. \A j \in 0..Len(f) : u[j] = IF j = 0 THEN t ELSE hp_config_ini_def_parser(u[j - 1], f[j])
  BY <1>1, LoadedStep
<1>4. \A j \in 0..Len(f) : u[j] \in Tables2
  BY LoadedTables
<1>5. /\ log2 \in Seq(Commands) /\ Len(log2) = L + 1 + n
      /\ log2[L + 1] = [op |-> "load"]
      /\ \A k \in 1..L : log2[k] = log[k]
      /\ \A j \in 1..n : log2[L + 1 + j] = Entry(f[j])
  BY LoadLogParts
<1> HIDE DEF u, log2, L
<1>0. L = Len(log)
  BY DEF L
<1>6. w[L] = Said(log, key)[L]
  <2>0. Len(log) \in Nat /\ \A k \in 1..Len(log) : log2[k] = log[k]
    BY <1>0, <1>1, <1>5
  <2>1. Len(log) <= Len(log2) /\ Len(log2) \in Nat /\ L \in 0..Len(log)
    BY <1>0, <1>1, <1>5
  <2>2. \A k \in 0..Len(log) : Said(log2, key)[k] = Said(log, key)[k]
    BY <2>0, <2>1, SaidPrefix
  <2> QED
    BY <2>1, <2>2
<1>7. \A k \in 0..L + 1 + n : w[k] = SaidAt(log2, key, k, w[k - 1])
  BY <1>1, <1>5, SaidStep
<1> HIDE DEF w
<1> DEFINE T == {j \in 0..n : u[j].dict[key] # w[L + 1 + j]}
<1> SUFFICES ASSUME T # {} PROVE FALSE
  BY <1>1 DEF u, w, log2, L
<1>8. PICK m \in T : \A j \in T : m <= j
  BY NatMin, T \subseteq Nat
<1>9. CASE m = 0
  <2>1. w[L + 1] = SaidAt(log2, key, L + 1, w[L])
    BY <1>1, <1>7, SMTT(30)
  <2>2. w[L + 1] = w[L]
    BY <1>1, <1>5, <2>1 DEF SaidAt
  <2>3. u[0] = t
    BY <1>1, <1>3, SMTT(30)
  <2>4. L + 1 + 0 = L + 1
    BY <1>1
  <2> QED
    BY <1>6, <1>8, <1>9, <2>2, <2>3, <2>4 DEF L
<1>10. CASE m # 0
  <2>1. /\ m - 1 \in 0..n /\ m \in 1..n /\ m \in 0..n /\ m - 1 < m /\ m \in 1..Len(f)
        /\ m - 1 \in 0..Len(f) /\ m \in 0..Len(f)
        /\ L + 1 + m \in 0..L + 1 + n /\ L + 1 + m # 0 /\ (L + 1 + m) - 1 = L + 1 + (m - 1)
    BY <1>1, <1>8, <1>10
  <2>2. u[m - 1].dict[key] = w[L + 1 + (m - 1)]
    BY <1>8, <2>1
  <2>3. /\ w[L + 1 + m] = SaidAt(log2, key, L + 1 + m, w[L + 1 + (m - 1)])
        /\ log2[L + 1 + m] = Entry(f[m])
    <3>1. w[L + 1 + m] = SaidAt(log2, key, L + 1 + m, w[(L + 1 + m) - 1])
      BY <1>7, <2>1, Zenon
    <3>2. log2[L + 1 + m] = Entry(f[m])
      BY <1>5, <2>1
    <3> QED
      BY <2>1, <3>1, <3>2
  <2>4. w[L + 1 + m] = IF f[m].key = key THEN f[m].val ELSE w[L + 1 + (m - 1)]
    <3>1. Entry(f[m]).op = "entry" /\ Entry(f[m]).key = f[m].key /\ Entry(f[m]).val = f[m].val
      BY DEF Entry
    <3> QED
      BY <2>1, <2>3, <3>1 DEF SaidAt
  <2>5. u[m].dict[key] = IF key = f[m].key THEN f[m].val ELSE u[m - 1].dict[key]
    <3>1. u[m - 1] \in Tables2 /\ f[m] \in [key : Keys2, val : Values]
      BY <1>2, <1>4, <2>1
    <3>2. u[m] = hp_config_ini_def_parser(u[m - 1], f[m])
      BY <1>3, <1>10, <2>1
    <3> QED
      BY <3>1, <3>2, EntryParsed
  <2> QED
    BY <1>8, <2>2, <2>4, <2>5
<1> QED BY <1>9, <1>10

\* #load, whether the file is read to its end or not.
LEMMA LoadInv == ASSUME ConfInv, Load PROVE ConfInv'
<1>0. PICK f \in Files : \E n \in 0..Len(f) :
        /\ ini' = Loaded(ini, f)[n]
        /\ iniLog' = Append(iniLog, [op |-> "load"]) \o
             [k \in 1..n |-> [op |-> "entry", key |-> f[k].key, val |-> f[k].val]]
  BY DEF Load
<1>1. PICK n \in 0..Len(f) :
        /\ ini' = Loaded(ini, f)[n]
        /\ iniLog' = Append(iniLog, [op |-> "load"]) \o
             [k \in 1..n |-> [op |-> "entry", key |-> f[k].key, val |-> f[k].val]]
  BY <1>0
<1>2. ini \in Tables2 /\ iniLog \in Seq(Commands) /\ LatestWins
  BY DEF ConfInv
<1>3. f \in Seq([key : Keys2, val : Values])
  BY ConfAssumption
<1>4. iniLog' = LoadLog(iniLog, f, n)
  BY <1>1 DEF LoadLog, Entry
<1>5. ini' \in Tables2
  BY <1>1, <1>2, <1>3, LoadedTables
<1>6. iniLog' \in Seq(Commands) /\ Len(iniLog') = Len(iniLog) + 1 + n
  BY <1>2, <1>3, <1>4, LoadLogParts, ZenonT(60)
<1>7. ASSUME NEW key \in Keys2 PROVE ini'.dict[key] = Said(iniLog', key)[Len(iniLog')]
  <2>1. ini.dict[key] = Said(iniLog, key)[Len(iniLog)]
    BY <1>2 DEF LatestWins
  <2>2. Loaded(ini, f)[n].dict[key] =
          Said(LoadLog(iniLog, f, n), key)[Len(iniLog) + 1 + n]
    BY <1>2, <1>3, <2>1, LoadedSaid
  <2> QED
    BY <1>1, <1>4, <1>6, <2>2
<1> QED
  BY <1>5, <1>6, <1>7 DEF ConfInv, LatestWins

\* #set.
LEMMA SetInv == ASSUME ConfInv, Set PROVE ConfInv'
<1>1. PICK key \in Keys2, val \in Values :
        /\ ini' = [ini EXCEPT !.dict = StoreEntry(ini.dict, [key |-> key, val |-> val])]
        /\ iniLog' = Append(iniLog, [op |-> "set", key |-> key, val |-> val])
  BY DEF Set
<1>2. ini \in Tables2 /\ iniLog \in Seq(Commands) /\ LatestWins
  BY DEF ConfInv
<1> DEFINE c == [op |-> "set", key |-> key, val |-> val]
           d == StoreEntry(ini.dict, [key |-> key, val |-> val])
<1>3. c \in Commands
  BY DEF Commands
<1>4. d \in [Keys2 -> Stored] /\ \A k \in Keys2 : d[k] = IF k = key THEN val ELSE ini.dict[k]
  <2>1. ini.dict \in [Keys2 -> Stored]
    BY <1>2 DEF Tables2
  <2> QED
    BY <2>1, EntryStored
<1> HIDE DEF d
<1>5. ini' \in Tables2 /\ ini'.dict = d
  BY <1>1, <1>2, <1>4 DEF Tables2, d
<1>6. ASSUME NEW k \in Keys2
      PROVE  /\ iniLog' \in Seq(Commands)
             /\ ini'.dict[k] = Said(iniLog', k)[Len(iniLog')]
  <2>1. /\ iniLog' \in Seq(Commands) /\ Len(iniLog') = Len(iniLog) + 1
        /\ Said(iniLog', k)[Len(iniLog) + 1] =
              IF c.op = "unload" THEN Missing
              ELSE IF c.op # "load" /\ c.key = k THEN c.val ELSE Said(iniLog, k)[Len(iniLog)]
    BY <1>1, <1>2, <1>3, SaidAppend
  <2>2. Said(iniLog', k)[Len(iniLog')] =
          IF key = k THEN val ELSE Said(iniLog, k)[Len(iniLog)]
    BY <2>1
  <2>3. Said(iniLog, k)[Len(iniLog)] = ini.dict[k]
    BY <1>2 DEF LatestWins
  <2> QED
    BY <1>4, <1>5, <2>1, <2>2, <2>3
<1>7. iniLog' \in Seq(Commands)
  BY <1>1, <1>6
<1> QED
  BY <1>5, <1>6, <1>7 DEF ConfInv, LatestWins

\* #unload.
LEMMA UnloadInv == ASSUME ConfInv, Unload PROVE ConfInv'
<1>1. /\ ini' = [dict |-> Empty, section |-> NoSection]
      /\ iniLog' = Append(iniLog, [op |-> "unload"])
  BY DEF Unload
<1>2. ini \in Tables2 /\ iniLog \in Seq(Commands)
  BY DEF ConfInv
<1>3. ini' \in Tables2 /\ \A k \in Keys2 : ini'.dict[k] = Missing
  BY <1>1, ConfAssumption DEF Tables2, Empty, Stored
<1>4. [op |-> "unload"] \in Commands
  BY DEF Commands
<1>5. iniLog' \in Seq(Commands) /\ Len(iniLog') = Len(iniLog) + 1
  BY <1>1, <1>2, <1>4, SaidAppend
<1>6. ASSUME NEW k \in Keys2 PROVE Said(iniLog', k)[Len(iniLog')] = Missing
  BY <1>1, <1>2, <1>4, <1>5, SaidAppend
<1> QED
  BY <1>3, <1>5, <1>6 DEF ConfInv, LatestWins

\* A key has the value that was said of it last since the table was emptied
\* (hp_ini.c:86-112), for any files and any number of commands.
THEOREM LatestValueWins == ConfSpec => []LatestWins
<1>1. ConfInit => ConfInv
  <2> SUFFICES ASSUME ConfInit PROVE ConfInv
    OBVIOUS
  <2>1. ini = [dict |-> Empty, section |-> NoSection] /\ iniLog = <<>>
    BY DEF ConfInit
  <2>2. ini \in Tables2 /\ \A k \in Keys2 : ini.dict[k] = Missing
    BY <2>1, ConfAssumption DEF Tables2, Empty, Stored
  <2>3. iniLog \in Seq(Commands) /\ Len(iniLog) = 0
    BY <2>1, EmptySeq
  <2>4. ASSUME NEW k \in Keys2 PROVE Said(iniLog, k)[0] = Missing
    <3>1. 0 \in 0..Len(iniLog) /\ Len(iniLog) \in Nat
      BY <2>3
    <3>2. Said(iniLog, k)[0] = SaidAt(iniLog, k, 0, Said(iniLog, k)[0 - 1])
      BY <3>1, SaidStep
    <3> QED
      BY <3>2 DEF SaidAt
  <2> QED
    BY <2>2, <2>3, <2>4 DEF ConfInv, LatestWins
<1>2. ConfInv /\ [ConfNext]_confVars => ConfInv'
  <2> SUFFICES ASSUME ConfInv, [ConfNext]_confVars PROVE ConfInv'
    OBVIOUS
  <2>1. CASE hp_ini_exec
    BY <2>1 DEF hp_ini_exec, ConfInv, LatestWins
  <2>2. CASE UNCHANGED confVars
    BY <2>2 DEF confVars, ConfInv, LatestWins
  <2> QED
    BY <2>1, <2>2, LoadInv, SetInv, UnloadInv DEF ConfNext
<1>3. ConfInv => LatestWins
  BY DEF ConfInv
<1> QED
  BY <1>1, <1>2, <1>3, PTL DEF ConfSpec

-----------------------------------------------------------------------------
(* HpJson *)

\* f solves the recursion of KidsUpTo(doc, at) up to m.
KidsUpToRec(doc, at, f, m) ==
  f = [k \in 0..m |-> IF k = 0 THEN <<>>
    ELSE IF IsKid(doc[k], at) THEN Append(f[k - 1], doc[k]) ELSE f[k - 1]]

\* The recursion has a solution.
LEMMA KidsUpToExists ==
  ASSUME NEW doc, NEW at, Len(doc) \in Nat
  PROVE  \A m \in 0..Len(doc) : \E f : KidsUpToRec(doc, at, f, m)
<1> DEFINE Unfold(k, p) == IF k = 0 THEN <<>>
    ELSE IF IsKid(doc[k], at) THEN Append(p, doc[k]) ELSE p
<1> DEFINE T == {m \in 0..Len(doc) : ~ \E f : KidsUpToRec(doc, at, f, m)}
<1> SUFFICES ASSUME T # {} PROVE FALSE
  OBVIOUS
<1>1. PICK m \in T : \A i \in T : m <= i
  BY NatMin, T \subseteq Nat
<1>0. m \in Nat
  BY <1>1
<1>2. m # 0
  <2> SUFFICES ASSUME m = 0 PROVE FALSE
    OBVIOUS
  <2> DEFINE g == [k \in 0..0 |-> <<>>]
  <2>1. KidsUpToRec(doc, at, g, 0)
    BY DEF KidsUpToRec
  <2> QED
    BY <1>1, <2>1
<1>3. PICK f : KidsUpToRec(doc, at, f, m - 1)
  BY <1>1, <1>2
<1> DEFINE g == [i \in 0..m |-> IF i < m THEN f[i] ELSE Unfold(m, f[m - 1])]
<1>4. KidsUpToRec(doc, at, g, m)
  <2>1. \A i \in 0..m - 1 : f[i] = Unfold(i, f[i - 1])
    BY <1>3 DEF KidsUpToRec
  <2>2. ASSUME NEW i \in 0..m PROVE g[i] = Unfold(i, g[i - 1])
    <3>0. Unfold(0, f[0 - 1]) = Unfold(0, g[0 - 1])
      OBVIOUS
    <3> HIDE DEF Unfold, T
    <3>1. CASE i = m
      BY <1>0, <1>2, <3>1
    <3>2. CASE i = 0
      BY <1>0, <1>2, <2>1, <3>0, <3>2
    <3>3. CASE i # m /\ i # 0
      <4>1. i - 1 \in 0..m /\ i - 1 < m /\ i \in 0..m - 1 /\ i < m
        BY <1>0, <3>3
      <4>2. g[i - 1] = f[i - 1] /\ g[i] = f[i]
        BY <4>1
      <4> QED
        BY <2>1, <4>1, <4>2
    <3> QED
      BY <3>1, <3>2, <3>3
  <2>3. g = [i \in 0..m |-> Unfold(i, g[i - 1])]
    <3> HIDE DEF Unfold
    <3> QED
      BY <2>2
  <2> HIDE DEF g
  <2> QED
    BY <2>3 DEF KidsUpToRec
<1> QED
  BY <1>1, <1>4

\* KidsUpTo satisfies its recursive definition.
LEMMA KidsUpToStep ==
  ASSUME NEW doc, NEW at, Len(doc) \in Nat
  PROVE  \A k \in 0..Len(doc) :
           KidsUpTo(doc, at)[k] = IF k = 0 THEN <<>>
    ELSE IF IsKid(doc[k], at) THEN Append(KidsUpTo(doc, at)[k - 1], doc[k]) ELSE KidsUpTo(doc, at)[k - 1]
<1> DEFINE u == KidsUpTo(doc, at)
<1>1. PICK f : KidsUpToRec(doc, at, f, Len(doc))
  <2>1. Len(doc) \in 0..Len(doc)
    OBVIOUS
  <2> QED
    BY <2>1, KidsUpToExists, Zenon
<1>2. u = CHOOSE s : KidsUpToRec(doc, at, s, Len(doc))
  BY Zenon DEF KidsUpTo, KidsUpToRec
<1>3. KidsUpToRec(doc, at, u, Len(doc))
  BY <1>1, <1>2, Zenon
<1> HIDE DEF u
<1>4. \A k \in 0..Len(doc) : u[k] = IF k = 0 THEN <<>>
    ELSE IF IsKid(doc[k], at) THEN Append(u[k - 1], doc[k]) ELSE u[k - 1]
  BY <1>3 DEF KidsUpToRec
<1> QED
  BY <1>4 DEF u

\* f solves the recursion of Walk(doc, tmp, alts) up to m.
WalkRec(doc, tmp, alts, f, m) ==
  f = [j \in 0..m |-> IF j = 0 THEN [at |-> tmp, done |-> FALSE]
    ELSE Tried(doc, tmp, alts, j, f[j - 1])]

\* The recursion has a solution.
LEMMA WalkExists ==
  ASSUME NEW doc, NEW tmp, NEW alts, Len(alts) \in Nat
  PROVE  \A m \in 0..Len(alts) : \E f : WalkRec(doc, tmp, alts, f, m)
<1> DEFINE Unfold(j, p) == IF j = 0 THEN [at |-> tmp, done |-> FALSE]
    ELSE Tried(doc, tmp, alts, j, p)
<1> DEFINE T == {m \in 0..Len(alts) : ~ \E f : WalkRec(doc, tmp, alts, f, m)}
<1> SUFFICES ASSUME T # {} PROVE FALSE
  OBVIOUS
<1>1. PICK m \in T : \A i \in T : m <= i
  BY NatMin, T \subseteq Nat
<1>0. m \in Nat
  BY <1>1
<1>2. m # 0
  <2> SUFFICES ASSUME m = 0 PROVE FALSE
    OBVIOUS
  <2> DEFINE g == [j \in 0..0 |-> [at |-> tmp, done |-> FALSE]]
  <2>1. WalkRec(doc, tmp, alts, g, 0)
    BY DEF WalkRec
  <2> QED
    BY <1>1, <2>1
<1>3. PICK f : WalkRec(doc, tmp, alts, f, m - 1)
  BY <1>1, <1>2
<1> DEFINE g == [i \in 0..m |-> IF i < m THEN f[i] ELSE Unfold(m, f[m - 1])]
<1>4. WalkRec(doc, tmp, alts, g, m)
  <2>1. \A i \in 0..m - 1 : f[i] = Unfold(i, f[i - 1])
    BY <1>3 DEF WalkRec
  <2>2. ASSUME NEW i \in 0..m PROVE g[i] = Unfold(i, g[i - 1])
    <3>0. Unfold(0, f[0 - 1]) = Unfold(0, g[0 - 1])
      OBVIOUS
    <3> HIDE DEF Unfold, T
    <3>1. CASE i = m
      BY <1>0, <1>2, <3>1
    <3>2. CASE i = 0
      BY <1>0, <1>2, <2>1, <3>0, <3>2
    <3>3. CASE i # m /\ i # 0
      <4>1. i - 1 \in 0..m /\ i - 1 < m /\ i \in 0..m - 1 /\ i < m
        BY <1>0, <3>3
      <4>2. g[i - 1] = f[i - 1] /\ g[i] = f[i]
        BY <4>1
      <4> QED
        BY <2>1, <4>1, <4>2
    <3> QED
      BY <3>1, <3>2, <3>3
  <2>3. g = [i \in 0..m |-> Unfold(i, g[i - 1])]
    <3> HIDE DEF Unfold
    <3> QED
      BY <2>2
  <2> HIDE DEF g
  <2> QED
    BY <2>3 DEF WalkRec
<1> QED
  BY <1>1, <1>4

\* Walk satisfies its recursive definition.
LEMMA WalkStep ==
  ASSUME NEW doc, NEW tmp, NEW alts, Len(alts) \in Nat
  PROVE  \A j \in 0..Len(alts) :
           Walk(doc, tmp, alts)[j] = IF j = 0 THEN [at |-> tmp, done |-> FALSE]
    ELSE Tried(doc, tmp, alts, j, Walk(doc, tmp, alts)[j - 1])
<1> DEFINE u == Walk(doc, tmp, alts)
<1>1. PICK f : WalkRec(doc, tmp, alts, f, Len(alts))
  <2>1. Len(alts) \in 0..Len(alts)
    OBVIOUS
  <2> QED
    BY <2>1, WalkExists, Zenon
<1>2. u = CHOOSE s : WalkRec(doc, tmp, alts, s, Len(alts))
  BY Zenon DEF Walk, WalkRec
<1>3. WalkRec(doc, tmp, alts, u, Len(alts))
  BY <1>1, <1>2, Zenon
<1> HIDE DEF u
<1>4. \A j \in 0..Len(alts) : u[j] = IF j = 0 THEN [at |-> tmp, done |-> FALSE]
    ELSE Tried(doc, tmp, alts, j, u[j - 1])
  BY <1>3 DEF WalkRec
<1> QED
  BY <1>4 DEF u

\* f solves the recursion of Sub(doc, at, path) up to m.
SubRec(doc, at, path, f, m) ==
  f = [k \in 0..m |-> IF k = 0 THEN at
    ELSE IF f[k - 1] = Null THEN Null ELSE Segment(doc, f[k - 1], path[k])]

\* The recursion has a solution.
LEMMA SubExists ==
  ASSUME NEW doc, NEW at, NEW path, Len(path) \in Nat
  PROVE  \A m \in 0..Len(path) : \E f : SubRec(doc, at, path, f, m)
<1> DEFINE Unfold(k, p) == IF k = 0 THEN at
    ELSE IF p = Null THEN Null ELSE Segment(doc, p, path[k])
<1> DEFINE T == {m \in 0..Len(path) : ~ \E f : SubRec(doc, at, path, f, m)}
<1> SUFFICES ASSUME T # {} PROVE FALSE
  OBVIOUS
<1>1. PICK m \in T : \A i \in T : m <= i
  BY NatMin, T \subseteq Nat
<1>0. m \in Nat
  BY <1>1
<1>2. m # 0
  <2> SUFFICES ASSUME m = 0 PROVE FALSE
    OBVIOUS
  <2> DEFINE g == [k \in 0..0 |-> at]
  <2>1. SubRec(doc, at, path, g, 0)
    BY DEF SubRec
  <2> QED
    BY <1>1, <2>1
<1>3. PICK f : SubRec(doc, at, path, f, m - 1)
  BY <1>1, <1>2
<1> DEFINE g == [i \in 0..m |-> IF i < m THEN f[i] ELSE Unfold(m, f[m - 1])]
<1>4. SubRec(doc, at, path, g, m)
  <2>1. \A i \in 0..m - 1 : f[i] = Unfold(i, f[i - 1])
    BY <1>3 DEF SubRec
  <2>2. ASSUME NEW i \in 0..m PROVE g[i] = Unfold(i, g[i - 1])
    <3>0. Unfold(0, f[0 - 1]) = Unfold(0, g[0 - 1])
      OBVIOUS
    <3> HIDE DEF Unfold, T
    <3>1. CASE i = m
      BY <1>0, <1>2, <3>1
    <3>2. CASE i = 0
      BY <1>0, <1>2, <2>1, <3>0, <3>2
    <3>3. CASE i # m /\ i # 0
      <4>1. i - 1 \in 0..m /\ i - 1 < m /\ i \in 0..m - 1 /\ i < m
        BY <1>0, <3>3
      <4>2. g[i - 1] = f[i - 1] /\ g[i] = f[i]
        BY <4>1
      <4> QED
        BY <2>1, <4>1, <4>2
    <3> QED
      BY <3>1, <3>2, <3>3
  <2>3. g = [i \in 0..m |-> Unfold(i, g[i - 1])]
    <3> HIDE DEF Unfold
    <3> QED
      BY <2>2
  <2> HIDE DEF g
  <2> QED
    BY <2>3 DEF SubRec
<1> QED
  BY <1>1, <1>4

\* Sub satisfies its recursive definition.
LEMMA SubStep ==
  ASSUME NEW doc, NEW at, NEW path, Len(path) \in Nat
  PROVE  \A k \in 0..Len(path) :
           Sub(doc, at, path)[k] = IF k = 0 THEN at
    ELSE IF Sub(doc, at, path)[k - 1] = Null THEN Null ELSE Segment(doc, Sub(doc, at, path)[k - 1], path[k])
<1> DEFINE u == Sub(doc, at, path)
<1>1. PICK f : SubRec(doc, at, path, f, Len(path))
  <2>1. Len(path) \in 0..Len(path)
    OBVIOUS
  <2> QED
    BY <2>1, SubExists, Zenon
<1>2. u = CHOOSE s : SubRec(doc, at, path, s, Len(path))
  BY Zenon DEF Sub, SubRec
<1>3. SubRec(doc, at, path, u, Len(path))
  BY <1>1, <1>2, Zenon
<1> HIDE DEF u
<1>4. \A k \in 0..Len(path) : u[k] = IF k = 0 THEN at
    ELSE IF u[k - 1] = Null THEN Null ELSE Segment(doc, u[k - 1], path[k])
  BY <1>3 DEF SubRec
<1> QED
  BY <1>4 DEF u

\* f solves the recursion of Keyed(doc, path) up to m.
KeyedRec(doc, path, f, m) ==
  f = [k \in 0..m |-> IF k = 0 THEN <<>> ELSE GetObjectItem(doc, f[k - 1], path[k][1].name)]

\* The recursion has a solution.
LEMMA KeyedExists ==
  ASSUME NEW doc, NEW path, Len(path) \in Nat
  PROVE  \A m \in 0..Len(path) : \E f : KeyedRec(doc, path, f, m)
<1> DEFINE Unfold(k, p) == IF k = 0 THEN <<>> ELSE GetObjectItem(doc, p, path[k][1].name)
<1> DEFINE T == {m \in 0..Len(path) : ~ \E f : KeyedRec(doc, path, f, m)}
<1> SUFFICES ASSUME T # {} PROVE FALSE
  OBVIOUS
<1>1. PICK m \in T : \A i \in T : m <= i
  BY NatMin, T \subseteq Nat
<1>0. m \in Nat
  BY <1>1
<1>2. m # 0
  <2> SUFFICES ASSUME m = 0 PROVE FALSE
    OBVIOUS
  <2> DEFINE g == [k \in 0..0 |-> <<>>]
  <2>1. KeyedRec(doc, path, g, 0)
    BY DEF KeyedRec
  <2> QED
    BY <1>1, <2>1
<1>3. PICK f : KeyedRec(doc, path, f, m - 1)
  BY <1>1, <1>2
<1> DEFINE g == [i \in 0..m |-> IF i < m THEN f[i] ELSE Unfold(m, f[m - 1])]
<1>4. KeyedRec(doc, path, g, m)
  <2>1. \A i \in 0..m - 1 : f[i] = Unfold(i, f[i - 1])
    BY <1>3 DEF KeyedRec
  <2>2. ASSUME NEW i \in 0..m PROVE g[i] = Unfold(i, g[i - 1])
    <3>0. Unfold(0, f[0 - 1]) = Unfold(0, g[0 - 1])
      OBVIOUS
    <3> HIDE DEF Unfold, T
    <3>1. CASE i = m
      BY <1>0, <1>2, <3>1
    <3>2. CASE i = 0
      BY <1>0, <1>2, <2>1, <3>0, <3>2
    <3>3. CASE i # m /\ i # 0
      <4>1. i - 1 \in 0..m /\ i - 1 < m /\ i \in 0..m - 1 /\ i < m
        BY <1>0, <3>3
      <4>2. g[i - 1] = f[i - 1] /\ g[i] = f[i]
        BY <4>1
      <4> QED
        BY <2>1, <4>1, <4>2
    <3> QED
      BY <3>1, <3>2, <3>3
  <2>3. g = [i \in 0..m |-> Unfold(i, g[i - 1])]
    <3> HIDE DEF Unfold
    <3> QED
      BY <2>2
  <2> HIDE DEF g
  <2> QED
    BY <2>3 DEF KeyedRec
<1> QED
  BY <1>1, <1>4

\* Keyed satisfies its recursive definition.
LEMMA KeyedStep ==
  ASSUME NEW doc, NEW path, Len(path) \in Nat
  PROVE  \A k \in 0..Len(path) :
           Keyed(doc, path)[k] = IF k = 0 THEN <<>> ELSE GetObjectItem(doc, Keyed(doc, path)[k - 1], path[k][1].name)
<1> DEFINE u == Keyed(doc, path)
<1>1. PICK f : KeyedRec(doc, path, f, Len(path))
  <2>1. Len(path) \in 0..Len(path)
    OBVIOUS
  <2> QED
    BY <2>1, KeyedExists, Zenon
<1>2. u = CHOOSE s : KeyedRec(doc, path, s, Len(path))
  BY Zenon DEF Keyed, KeyedRec
<1>3. KeyedRec(doc, path, u, Len(path))
  BY <1>1, <1>2, Zenon
<1> HIDE DEF u
<1>4. \A k \in 0..Len(path) : u[k] = IF k = 0 THEN <<>> ELSE GetObjectItem(doc, u[k - 1], path[k][1].name)
  BY <1>3 DEF KeyedRec
<1> QED
  BY <1>4 DEF u

\* f solves the recursion of Leads(doc, path) up to m.
LeadsRec(doc, path, f, m) ==
  f = [k \in 0..m |-> IF k = 0 THEN <<>> ELSE FirstThatLeads(doc, f[k - 1], path[k])]

\* The recursion has a solution.
LEMMA LeadsExists ==
  ASSUME NEW doc, NEW path, Len(path) \in Nat
  PROVE  \A m \in 0..Len(path) : \E f : LeadsRec(doc, path, f, m)
<1> DEFINE Unfold(k, p) == IF k = 0 THEN <<>> ELSE FirstThatLeads(doc, p, path[k])
<1> DEFINE T == {m \in 0..Len(path) : ~ \E f : LeadsRec(doc, path, f, m)}
<1> SUFFICES ASSUME T # {} PROVE FALSE
  OBVIOUS
<1>1. PICK m \in T : \A i \in T : m <= i
  BY NatMin, T \subseteq Nat
<1>0. m \in Nat
  BY <1>1
<1>2. m # 0
  <2> SUFFICES ASSUME m = 0 PROVE FALSE
    OBVIOUS
  <2> DEFINE g == [k \in 0..0 |-> <<>>]
  <2>1. LeadsRec(doc, path, g, 0)
    BY DEF LeadsRec
  <2> QED
    BY <1>1, <2>1
<1>3. PICK f : LeadsRec(doc, path, f, m - 1)
  BY <1>1, <1>2
<1> DEFINE g == [i \in 0..m |-> IF i < m THEN f[i] ELSE Unfold(m, f[m - 1])]
<1>4. LeadsRec(doc, path, g, m)
  <2>1. \A i \in 0..m - 1 : f[i] = Unfold(i, f[i - 1])
    BY <1>3 DEF LeadsRec
  <2>2. ASSUME NEW i \in 0..m PROVE g[i] = Unfold(i, g[i - 1])
    <3>0. Unfold(0, f[0 - 1]) = Unfold(0, g[0 - 1])
      OBVIOUS
    <3> HIDE DEF Unfold, T
    <3>1. CASE i = m
      BY <1>0, <1>2, <3>1
    <3>2. CASE i = 0
      BY <1>0, <1>2, <2>1, <3>0, <3>2
    <3>3. CASE i # m /\ i # 0
      <4>1. i - 1 \in 0..m /\ i - 1 < m /\ i \in 0..m - 1 /\ i < m
        BY <1>0, <3>3
      <4>2. g[i - 1] = f[i - 1] /\ g[i] = f[i]
        BY <4>1
      <4> QED
        BY <2>1, <4>1, <4>2
    <3> QED
      BY <3>1, <3>2, <3>3
  <2>3. g = [i \in 0..m |-> Unfold(i, g[i - 1])]
    <3> HIDE DEF Unfold
    <3> QED
      BY <2>2
  <2> HIDE DEF g
  <2> QED
    BY <2>3 DEF LeadsRec
<1> QED
  BY <1>1, <1>4

\* Leads satisfies its recursive definition.
LEMMA LeadsStep ==
  ASSUME NEW doc, NEW path, Len(path) \in Nat
  PROVE  \A k \in 0..Len(path) :
           Leads(doc, path)[k] = IF k = 0 THEN <<>> ELSE FirstThatLeads(doc, Leads(doc, path)[k - 1], path[k])
<1> DEFINE u == Leads(doc, path)
<1>1. PICK f : LeadsRec(doc, path, f, Len(path))
  <2>1. Len(path) \in 0..Len(path)
    OBVIOUS
  <2> QED
    BY <2>1, LeadsExists, Zenon
<1>2. u = CHOOSE s : LeadsRec(doc, path, s, Len(path))
  BY Zenon DEF Leads, LeadsRec
<1>3. LeadsRec(doc, path, u, Len(path))
  BY <1>1, <1>2, Zenon
<1> HIDE DEF u
<1>4. \A k \in 0..Len(path) : u[k] = IF k = 0 THEN <<>> ELSE FirstThatLeads(doc, u[k - 1], path[k])
  BY <1>3 DEF LeadsRec
<1> QED
  BY <1>4 DEF u

\* The members are a sequence of nodes.
LEMMA KidsAreNodes ==
  ASSUME NEW doc, NEW S, doc \in Seq(S), NEW at
  PROVE  Kids(doc, at) \in Seq(S)
<1> DEFINE u == KidsUpTo(doc, at)
<1>1. Len(doc) \in Nat /\ \A k \in 1..Len(doc) : doc[k] \in S
  BY LenProperties, ElementOfSeq
<1>2. \A k \in 0..Len(doc) :
        u[k] = IF k = 0 THEN <<>>
               ELSE IF IsKid(doc[k], at) THEN Append(u[k - 1], doc[k]) ELSE u[k - 1]
  BY <1>1, KidsUpToStep
<1> HIDE DEF u
<1> DEFINE T == {k \in 0..Len(doc) : u[k] \notin Seq(S)}
<1>3. T = {}
  <2> SUFFICES ASSUME T # {} PROVE FALSE
    OBVIOUS
  <2>1. PICK m \in T : \A k \in T : m <= k
    BY NatMin, T \subseteq Nat
  <2>2. CASE m = 0
    BY <1>2, <2>1, <2>2, EmptySeq
  <2>3. CASE m # 0
    <3>1. m - 1 \in 0..Len(doc) /\ m \in 1..Len(doc) /\ m \in 0..Len(doc) /\ m - 1 < m
      BY <2>1, <2>3
    <3>2. u[m - 1] \in Seq(S)
      BY <2>1, <3>1
    <3>3. Append(u[m - 1], doc[m]) \in Seq(S)
      BY <1>1, <3>1, <3>2, AppendProperties
    <3>4. u[m] \in Seq(S)
      BY <1>2, <2>3, <3>1, <3>2, <3>3
    <3> QED
      BY <2>1, <3>4
  <2> QED
    BY <2>2, <2>3
<1>4. u[Len(doc)] \in Seq(S)
  BY <1>1, <1>3
<1> QED
  BY <1>4 DEF u, Kids

\* The alternatives of a segment, only the last of them with an index.
Plainly(alts) ==
  /\ Len(alts) \in Nat \ {0} /\ DOMAIN alts = 1..Len(alts)
  /\ \A j \in 1..Len(alts) - 1 : alts[j].index = NoIndex

\* As long as no alternative leads on the walk is back at tmp, and after the last at Null.
LEMMA NoneLeads ==
  ASSUME NEW doc, NEW tmp, NEW alts, Plainly(alts), NEW n \in 0..Len(alts),
         \A j \in 1..n : Alternative(doc, tmp, alts[j]) = Null
  PROVE  \A j \in 0..n :
           Walk(doc, tmp, alts)[j] = [at |-> IF j = Len(alts) THEN Null ELSE tmp, done |-> FALSE]
<1> DEFINE W == Walk(doc, tmp, alts)
           To(j) == [at |-> IF j = Len(alts) THEN Null ELSE tmp, done |-> FALSE]
<1>1. /\ Len(alts) \in Nat /\ Len(alts) # 0 /\ n \in Nat
      /\ \A j \in 1..Len(alts) - 1 : alts[j].index = NoIndex
  BY DEF Plainly
<1>2. \A j \in 0..Len(alts) :
        W[j] = IF j = 0 THEN [at |-> tmp, done |-> FALSE] ELSE Tried(doc, tmp, alts, j, W[j - 1])
  BY <1>1, WalkStep
<1>3. ASSUME NEW j \in 1..n PROVE Tried(doc, tmp, alts, j, [at |-> tmp, done |-> FALSE]) = To(j)
  <2>1. Alternative(doc, tmp, alts[j]) = Null
    OBVIOUS
  <2>2. CASE j = Len(alts)
    <3>1. ~GoesBack(doc, tmp, alts[j], j = Len(alts))
      BY <2>2 DEF GoesBack
    <3> QED
      BY <2>1, <2>2, <3>1 DEF Tried
  <2>3. CASE j # Len(alts)
    <3>0. j \in 1..Len(alts) - 1
      BY <1>1, <2>3
    <3>1. alts[j].index = NoIndex
      BY <1>1, <3>0
    <3>2. GoesBack(doc, tmp, alts[j], j = Len(alts))
      BY <2>3, <3>1 DEF GoesBack
    <3> QED
      BY <2>1, <2>3, <3>2 DEF Tried
  <2> QED
    BY <2>2, <2>3
<1> HIDE DEF W
<1> DEFINE T == {j \in 0..n : W[j] # To(j)}
<1>4. T = {}
  <2> SUFFICES ASSUME T # {} PROVE FALSE
    OBVIOUS
  <2>1. PICK m \in T : \A j \in T : m <= j
    BY NatMin, T \subseteq Nat
  <2>2. CASE m = 0
    <3>1. W[0] = To(0)
      <4>1. 0 \in 0..Len(alts) /\ 0 # Len(alts)
        BY <1>1
      <4>2. W[0] = [at |-> tmp, done |-> FALSE]
        BY <1>2, <4>1
      <4> QED
        BY <4>1, <4>2
    <3> QED
      BY <2>1, <2>2, <3>1
  <2>3. CASE m # 0
    <3>1. /\ m - 1 \in 0..n /\ m \in 1..n /\ m \in 0..Len(alts) /\ m - 1 < m
          /\ m - 1 # Len(alts)
      BY <1>1, <2>1, <2>3
    <3>2. W[m - 1] = To(m - 1)
      BY <2>1, <3>1
    <3>3. W[m - 1] = [at |-> tmp, done |-> FALSE]
      BY <3>1, <3>2
    <3>4. W[m] = Tried(doc, tmp, alts, m, W[m - 1])
      BY <1>2, <2>3, <3>1
    <3>5. W[m] = To(m)
      BY <1>3, <3>1, <3>3, <3>4
    <3> QED
      BY <2>1, <3>5
  <2> QED
    BY <2>2, <2>3
<1> QED
  BY <1>4 DEF W

\* A segment leads where its first alternative that leads on leads.
LEMMA SegmentLeads ==
  ASSUME NEW doc, NEW tmp, tmp # Null, NEW alts, Plainly(alts)
  PROVE  Segment(doc, tmp, alts) = FirstThatLeads(doc, tmp, alts)
<1> DEFINE W == Walk(doc, tmp, alts)
           K == {j \in DOMAIN alts : Alternative(doc, tmp, alts[j]) # Null}
<1>1. Len(alts) \in Nat /\ Len(alts) # 0 /\ DOMAIN alts = 1..Len(alts)
  BY DEF Plainly
<1>2. CASE K = {}
  <2>1. \A j \in 1..Len(alts) : Alternative(doc, tmp, alts[j]) = Null
    BY <1>1, <1>2
  <2>2. Len(alts) \in 0..Len(alts)
    BY <1>1
  <2>3. W[Len(alts)] = [at |-> Null, done |-> FALSE]
    BY <2>1, <2>2, NoneLeads
  <2> QED
    BY <1>2, <2>3 DEF Segment, FirstThatLeads
<1>3. CASE K # {}
  <2> DEFINE m == CHOOSE j \in K : \A i \in K : j <= i
  <2>1. m \in K /\ \A i \in K : m <= i
    <3>1. K \subseteq Nat
      BY <1>1
    <3>2. \E j \in K : \A i \in K : j <= i
      BY <1>3, <3>1, NatMin
    <3> QED
      BY <3>2
  <2>2. FirstThatLeads(doc, tmp, alts) = Alternative(doc, tmp, alts[m])
    BY <1>3 DEF FirstThatLeads
  <2>3. \A j \in 0..Len(alts) :
          W[j] = IF j = 0 THEN [at |-> tmp, done |-> FALSE] ELSE Tried(doc, tmp, alts, j, W[j - 1])
    BY <1>1, WalkStep
  <2> HIDE DEF m, W
  <2>4. /\ m \in 1..Len(alts) /\ m - 1 \in 0..Len(alts) /\ m \in 0..Len(alts) /\ m # 0
        /\ Alternative(doc, tmp, alts[m]) # Null /\ m - 1 # Len(alts)
        /\ m - 1 \in 0..m - 1
    BY <1>1, <2>1
  <2>5. \A j \in 1..m - 1 : Alternative(doc, tmp, alts[j]) = Null
    BY <1>1, <2>1, <2>4
  <2>6. W[m - 1] = [at |-> tmp, done |-> FALSE]
    BY <2>4, <2>5, NoneLeads DEF W
  <2>7. W[m] = [at |-> Alternative(doc, tmp, alts[m]), done |-> TRUE]
    <3>1. W[m] = Tried(doc, tmp, alts, m, [at |-> tmp, done |-> FALSE])
      BY <2>3, <2>4, <2>6
    <3> QED
      BY <2>4, <3>1 DEF Tried
  <2> HIDE DEF K
  <2> DEFINE T == {j \in m..Len(alts) : W[j] # W[m]}
  <2>8. T = {}
    <3> SUFFICES ASSUME T # {} PROVE FALSE
      OBVIOUS
    <3>0. m \in Nat /\ T \subseteq Nat
      BY <1>1, <2>4
    <3>1. PICK l \in T : \A j \in T : l <= j
      BY <3>0, NatMin
    <3>2. /\ l - 1 \in m..Len(alts) /\ l \in 0..Len(alts) /\ l # 0 /\ l - 1 < l
          /\ l - 1 \in Nat /\ l \in Nat
      BY <1>1, <2>4, <3>1
    <3>3. W[l - 1] = W[m]
      BY <3>1, <3>2
    <3>4. W[l] = Tried(doc, tmp, alts, l, W[l - 1])
      BY <2>3, <3>2
    <3>5. W[l] = W[m]
      <4>1. W[l - 1].done
        BY <2>7, <3>3
      <4> QED
        BY <3>3, <3>4, <4>1 DEF Tried
    <3> QED
      BY <3>1, <3>5
  <2>9. W[Len(alts)] = W[m]
    <3>1. Len(alts) \in m..Len(alts)
      BY <1>1, <2>4
    <3> QED
      BY <2>8, <3>1
  <2> QED
    BY <2>2, <2>7, <2>9 DEF Segment, W
<1> QED
  BY <1>2, <1>3

\* A path leads where its segments lead one after the other.
LEMMA PathLeads ==
  ASSUME NEW doc, NEW path, Len(path) \in Nat, \A k \in 1..Len(path) : Plainly(path[k])
  PROVE  cjson_(doc, <<>>, path) = Leads(doc, path)[Len(path)]
<1> DEFINE u == Sub(doc, <<>>, path)
           w == Leads(doc, path)
<1>1. \A k \in 0..Len(path) :
        u[k] = IF k = 0 THEN <<>>
               ELSE IF u[k - 1] = Null THEN Null ELSE Segment(doc, u[k - 1], path[k])
  BY SubStep
<1>2. \A k \in 0..Len(path) :
        w[k] = IF k = 0 THEN <<>> ELSE FirstThatLeads(doc, w[k - 1], path[k])
  BY LeadsStep
<1> HIDE DEF u, w
<1> DEFINE T == {k \in 0..Len(path) : u[k] # w[k]}
<1>3. T = {}
  <2> SUFFICES ASSUME T # {} PROVE FALSE
    OBVIOUS
  <2>1. PICK m \in T : \A k \in T : m <= k
    BY NatMin, T \subseteq Nat
  <2>2. CASE m = 0
    BY <1>1, <1>2, <2>1, <2>2
  <2>3. CASE m # 0
    <3>1. m - 1 \in 0..Len(path) /\ m \in 1..Len(path) /\ m \in 0..Len(path) /\ m - 1 < m
      BY <2>1, <2>3
    <3>2. u[m - 1] = w[m - 1]
      BY <2>1, <3>1
    <3>3. /\ u[m] = IF u[m - 1] = Null THEN Null ELSE Segment(doc, u[m - 1], path[m])
          /\ w[m] = FirstThatLeads(doc, w[m - 1], path[m])
      BY <1>1, <1>2, <2>3, <3>1
    <3>4. Plainly(path[m])
      BY <3>1
    <3>5. u[m - 1] = Null => FirstThatLeads(doc, u[m - 1], path[m]) = Null
      BY Zenon DEF FirstThatLeads
    <3>6. u[m - 1] # Null =>
            Segment(doc, u[m - 1], path[m]) = FirstThatLeads(doc, u[m - 1], path[m])
      BY <3>4, SegmentLeads, Zenon
    <3>7. u[m] = w[m]
      BY <3>2, <3>3, <3>5, <3>6, Zenon
    <3> QED
      BY <2>1, <3>7
  <2> QED
    BY <2>2, <2>3
<1>4. u[Len(path)] = w[Len(path)]
  BY <1>3
<1> QED
  BY <1>4 DEF u, w, cjson_

\* A segment of one plain key leads to the member with that name, if there is one.
LEMMA KeyLeads ==
  ASSUME NEW doc, NEW at, NEW s, s.index = NoIndex
  PROVE  Segment(doc, at, <<s>>) = GetObjectItem(doc, at, s.name)
<1> DEFINE W == Walk(doc, at, <<s>>)
           r == GetObjectItem(doc, at, s.name)
<1>1. Len(<<s>>) = 1 /\ <<s>>[1] = s
  OBVIOUS
<1>2. \A j \in 0..1 :
        W[j] = IF j = 0 THEN [at |-> at, done |-> FALSE] ELSE Tried(doc, at, <<s>>, j, W[j - 1])
  <2>1. Len(<<s>>) \in Nat
    BY <1>1
  <2>2. \A j \in 0..Len(<<s>>) :
          W[j] = IF j = 0 THEN [at |-> at, done |-> FALSE] ELSE Tried(doc, at, <<s>>, j, W[j - 1])
    BY <2>1, WalkStep
  <2> HIDE DEF W
  <2> QED
    BY <1>1, <2>2
<1> HIDE DEF W
<1>3. W[1] = Tried(doc, at, <<s>>, 1, [at |-> at, done |-> FALSE])
  <2>1. W[0] = [at |-> at, done |-> FALSE]
    BY <1>2
  <2>2. W[1] = Tried(doc, at, <<s>>, 1, W[1 - 1])
    BY <1>2
  <2> QED
    BY <2>1, <2>2
<1>4. Alternative(doc, at, s) = r
  BY DEF Alternative
<1>5. ~GoesBack(doc, at, s, 1 = Len(<<s>>))
  BY <1>1 DEF GoesBack
<1> HIDE DEF r
<1>6. Tried(doc, at, <<s>>, 1, [at |-> at, done |-> FALSE]).at = r
  <2>1. CASE r = Null
    BY <1>1, <1>4, <1>5, <2>1 DEF Tried
  <2>2. CASE r # Null
    BY <1>1, <1>4, <2>2 DEF Tried
  <2> QED
    BY <2>1, <2>2
<1> QED
  BY <1>1, <1>3, <1>6 DEF Segment, W, r

\* cjson_exists and cjson_ walk the same way along plain keys.
LEMMA KeysAgree ==
  ASSUME NEW doc, NEW path, Len(path) \in Nat,
         \A k \in 1..Len(path) : \E s : path[k] = <<s>> /\ s.index = NoIndex
  PROVE  Keyed(doc, path)[Len(path)] = cjson_(doc, <<>>, path)
<1> DEFINE u == Sub(doc, <<>>, path)
           w == Keyed(doc, path)
<1>1. \A k \in 0..Len(path) :
        u[k] = IF k = 0 THEN <<>>
               ELSE IF u[k - 1] = Null THEN Null ELSE Segment(doc, u[k - 1], path[k])
  BY SubStep
<1>2. \A k \in 0..Len(path) :
        w[k] = IF k = 0 THEN <<>> ELSE GetObjectItem(doc, w[k - 1], path[k][1].name)
  BY KeyedStep
<1> HIDE DEF u, w
<1> DEFINE T == {k \in 0..Len(path) : u[k] # w[k]}
<1>3. T = {}
  <2> SUFFICES ASSUME T # {} PROVE FALSE
    OBVIOUS
  <2>1. PICK m \in T : \A k \in T : m <= k
    BY NatMin, T \subseteq Nat
  <2>2. CASE m = 0
    BY <1>1, <1>2, <2>1, <2>2
  <2>3. CASE m # 0
    <3>1. m - 1 \in 0..Len(path) /\ m \in 1..Len(path) /\ m \in 0..Len(path) /\ m - 1 < m
      BY <2>1, <2>3
    <3>2. u[m - 1] = w[m - 1]
      BY <2>1, <3>1
    <3>3. /\ u[m] = IF u[m - 1] = Null THEN Null ELSE Segment(doc, u[m - 1], path[m])
          /\ w[m] = GetObjectItem(doc, w[m - 1], path[m][1].name)
      BY <1>1, <1>2, <2>3, <3>1
    <3>4. PICK s : path[m] = <<s>> /\ s.index = NoIndex
      BY <3>1
    <3>5. path[m][1].name = s.name
      BY <3>4
    <3>6. Segment(doc, u[m - 1], path[m]) = GetObjectItem(doc, u[m - 1], s.name)
      BY <3>4, KeyLeads, Zenon
    <3>7. u[m - 1] = Null => GetObjectItem(doc, u[m - 1], s.name) = Null
      <4>1. Kind(doc, Null) = "null"
        BY DEF Kind
      <4> QED
        BY <4>1 DEF GetObjectItem
    <3>8. u[m] = w[m]
      BY <3>2, <3>3, <3>5, <3>6, <3>7, Zenon
    <3> QED
      BY <2>1, <3>8
  <2> QED
    BY <2>2, <2>3
<1>4. u[Len(path)] = w[Len(path)]
  BY <1>3
<1> QED
  BY <1>4 DEF u, w, cjson_

\* What the texts of the checks are made of.
Characters == {"1", " "}

\* val is core, a text that begins and ends with something, between blanks.
Between(val, core, l, n, r) ==
  /\ l \in Nat /\ n \in Nat /\ r \in Nat
  /\ val \in Seq(Characters) /\ Len(val) = l + n + r
  /\ core \in Seq(Characters) /\ Len(core) = n
  /\ n # 0 => core[1] # " " /\ core[n] # " "
  /\ \A i \in 1..n : val[l + i] = core[i]
  /\ \A k \in 1..l : val[k] = " "
  /\ \A k \in l + n + 1..l + n + r : val[k] = " "

\* Where the blanks before and behind it are.
LEMMA AroundCore ==
  ASSUME NEW l \in Nat, NEW n \in Nat, NEW r \in Nat, NEW k \in Nat, 1 <= k, k <= l + n + r
  PROVE  \/ k \in 1..l
         \/ k \in l + n + 1..l + n + r
         \/ l + 1 <= k /\ k <= l + n
OBVIOUS

\* What a place of an array is.
LEMMA InRange ==
  ASSUME NEW k, NEW n \in Int, k \in 1..n
  PROVE  k \in Nat /\ 1 <= k /\ k <= n
OBVIOUS

\* The places of what is not blank: between the first and the last of the core.
LEMMA NotBlank ==
  ASSUME NEW val, NEW core, NEW l, NEW n, NEW r, Between(val, core, l, n, r)
  PROVE  /\ \A k \in DOMAIN val : val[k] # " " => k \in Nat /\ l + 1 <= k /\ k <= l + n
         /\ n # 0 => /\ l + 1 \in DOMAIN val /\ val[l + 1] # " "
                     /\ l + n \in DOMAIN val /\ val[l + n] # " "
<1>1. l \in Nat /\ n \in Nat /\ r \in Nat
  BY DEF Between
<1>2. val \in Seq(Characters) /\ Len(val) = l + n + r
  BY DEF Between
<1>3. DOMAIN val = 1..l + n + r
  BY <1>2, LenProperties
<1>4. /\ \A i \in 1..n : val[l + i] = core[i]
      /\ \A k \in 1..l : val[k] = " "
      /\ \A k \in l + n + 1..l + n + r : val[k] = " "
      /\ n # 0 => core[1] # " " /\ core[n] # " "
  BY DEF Between
<1>5. ASSUME NEW k \in DOMAIN val, val[k] # " " PROVE k \in Nat /\ l + 1 <= k /\ k <= l + n
  <2>1. k \in Nat /\ 1 <= k /\ k <= l + n + r
    <3>1. k \in 1..l + n + r
      BY <1>3, Zenon
    <3> QED
      BY <1>1, <3>1, InRange
  <2>2. k \notin 1..l /\ k \notin l + n + 1..l + n + r
    BY <1>4, <1>5, Zenon
  <2> QED
    BY <1>1, <2>1, <2>2, AroundCore
<1>6. ASSUME n # 0 PROVE /\ l + 1 \in DOMAIN val /\ val[l + 1] # " "
                         /\ l + n \in DOMAIN val /\ val[l + n] # " "
  <2>1. /\ 1 \in 1..n /\ n \in 1..n
        /\ l + 1 \in 1..l + n + r /\ l + n \in 1..l + n + r
    BY <1>1, <1>6
  <2>2. val[l + 1] = core[1] /\ val[l + n] = core[n]
    BY <1>4, <2>1, Zenon
  <2> QED
    BY <1>3, <1>4, <1>6, <2>1, <2>2, Zenon
<1> QED
  BY <1>5, <1>6

\* The blanks around a text are what sdstrim takes away.
LEMMA TrimBetween ==
  ASSUME NEW val, NEW core, NEW l, NEW n, NEW r, Between(val, core, l, n, r)
  PROVE  sdstrim(val) = core
<1> DEFINE N == {k \in DOMAIN val : val[k] # " "}
           sp == CHOOSE k \in N : \A j \in N : k <= j
           ep == CHOOSE k \in N : \A j \in N : j <= k
<1>1. sdstrim(val) = IF N = {} THEN <<>> ELSE SubSeq(val, sp, ep)
  BY DEF sdstrim
<1>2. \A k \in N : k \in Nat /\ l + 1 <= k /\ k <= l + n
  BY NotBlank
<1>3. n # 0 => l + 1 \in N /\ l + n \in N
  <2>1. n # 0 => /\ l + 1 \in DOMAIN val /\ val[l + 1] # " "
                 /\ l + n \in DOMAIN val /\ val[l + n] # " "
    BY NotBlank, Zenon
  <2> QED
    BY <2>1, Zenon
<1> HIDE DEF N
<1>4. l \in Nat /\ n \in Nat /\ r \in Nat
  BY DEF Between
<1>5. core \in Seq(Characters) /\ Len(core) = n
  BY DEF Between
<1>6. CASE n = 0
  <2>1. N = {}
    BY <1>2, <1>4, <1>6
  <2>2. core = <<>>
    BY <1>5, <1>6, EmptySeq
  <2> QED
    BY <1>1, <2>1, <2>2
<1>7. CASE n # 0
  <2>1. l + 1 \in N /\ l + n \in N
    BY <1>3, <1>7
  <2>2. sp \in N /\ \A j \in N : sp <= j
    BY <1>2, <2>1
  <2>3. ep \in N /\ \A j \in N : j <= ep
    BY <1>2, <2>1
  <2> HIDE DEF sp, ep
  <2>4. sp = l + 1
    <3>1. sp \in Nat /\ l + 1 <= sp /\ sp <= l + 1
      BY <1>2, <2>1, <2>2
    <3> QED
      BY <1>4, <3>1
  <2>5. ep = l + n
    <3>1. ep \in Nat /\ ep <= l + n /\ l + n <= ep
      BY <1>2, <2>1, <2>3
    <3> QED
      BY <1>4, <3>1
  <2>6. sdstrim(val) = SubSeq(val, l + 1, l + n)
    BY <1>1, <2>1, <2>4, <2>5
  <2>7. val \in Seq(Characters) /\ Len(val) = l + n + r
    BY DEF Between
  <2>8. /\ l + 1 \in Int /\ l + n \in Int
        /\ \A i \in l + 1..l + n : val[i] \in Characters
    <3>1. \A i \in 1..l + n + r : val[i] \in Characters
      BY <2>7, ElementOfSeq, LenProperties
    <3>2. \A i \in l + 1..l + n : i \in 1..l + n + r
      BY <1>4
    <3>3. l + 1 \in Int /\ l + n \in Int
      BY <1>4
    <3> QED
      BY <3>1, <3>2, <3>3, Zenon
  <2>9. /\ SubSeq(val, l + 1, l + n) \in Seq(Characters)
        /\ Len(SubSeq(val, l + 1, l + n)) = IF l + 1 <= l + n THEN (l + n) - (l + 1) + 1 ELSE 0
        /\ \A i \in 1..(l + n) - (l + 1) + 1 :
             SubSeq(val, l + 1, l + n)[i] = val[l + 1 + i - 1]
    BY <2>8, SubSeqProperties
  <2>10. (l + n) - (l + 1) + 1 = n /\ l + 1 <= l + n
    BY <1>4, <1>7
  <2>11. ASSUME NEW i \in 1..n PROVE SubSeq(val, l + 1, l + n)[i] = core[i]
    <3>1. SubSeq(val, l + 1, l + n)[i] = val[l + 1 + i - 1]
      BY <2>9, <2>10
    <3>2. l + 1 + i - 1 = l + i
      BY <1>4
    <3>3. val[l + i] = core[i]
      BY DEF Between
    <3> QED
      BY <3>1, <3>2, <3>3
  <2> QED
    BY <1>5, <2>6, <2>9, <2>10, <2>11, SeqEqual
<1> QED
  BY <1>6, <1>7

\* What is known of the texts that the checks are given.
LEMMA CoreIs ==
  ASSUME NEW s, s \in Cores
  PROVE  /\ s \in Seq(Characters) /\ Len(s) \in Nat
         /\ Len(s) # 0 => s[1] # " " /\ s[Len(s)] # " "
<1>1. \E n : n \in Nat /\ s \in [1..n -> Characters]
  <2>1. s \in UNION {[1..n -> Characters] : n \in 0..4}
    BY Zenon DEF Cores, Characters
  <2>2. \E n \in 0..4 : s \in [1..n -> Characters]
    BY <2>1, Zenon
  <2>3. \A n \in 0..4 : n \in Nat
    OBVIOUS
  <2> QED
    BY <2>2, <2>3, Zenon
<1>2. PICK n : n \in Nat /\ s \in [1..n -> Characters]
  BY <1>1, Zenon
<1>3. s \in Seq(Characters)
  BY <1>2, IsASeq
<1>4. Len(s) \in Nat
  BY <1>3, LenProperties
<1>5. s # <<>> => s[1] = "1" /\ s[Len(s)] = "1"
  BY DEF Cores
<1>6. Len(s) # 0 => s # <<>>
  BY EmptySeq
<1>7. "1" # " "
  OBVIOUS
<1> QED
  BY <1>3, <1>4, <1>5, <1>6, <1>7, Zenon

\* Arrays with the same places have the same length.
LEMMA SameRange ==
  ASSUME NEW m \in Nat, NEW n \in Nat, 1..m = 1..n
  PROVE  m = n
OBVIOUS

\* The parameters of Padded.
Pads(l, s, r) ==
  /\ l \in Nat /\ r \in Nat
  /\ s \in Seq(Characters) /\ Len(s) \in Nat
  /\ Len(s) # 0 => s[1] # " " /\ s[Len(s)] # " "

\* A padded text is the text between blanks.
LEMMA PaddedBetween ==
  ASSUME NEW l, NEW s, NEW r, Pads(l, s, r)
  PROVE  Between(Padded(l, s, r), s, l, Len(s), r)
<1> DEFINE val == Padded(l, s, r)
           n == Len(s)
<1>1. l \in Nat /\ n \in Nat /\ r \in Nat
  BY DEF Pads
<1>2. /\ DOMAIN val = 1..l + n + r
      /\ \A k \in 1..l + n + r : val[k] = IF k \in l + 1..l + n THEN s[k - l] ELSE " "
      /\ val = [k \in 1..l + n + r |-> val[k]]
  BY DEF Padded
<1>3. s \in Seq(Characters) /\ n = Len(s)
  BY DEF Pads
<1>4. \A i \in 1..n : s[i] \in Characters
  BY <1>3, ElementOfSeq
<1> HIDE DEF val, n
<1>5. ASSUME NEW i \in 1..n PROVE val[l + i] = s[i]
  <2>1. l + i \in 1..l + n + r /\ l + i \in l + 1..l + n /\ (l + i) - l = i
    BY <1>1
  <2> QED
    BY <1>2, <2>1
<1>6. ASSUME NEW k \in 1..l PROVE val[k] = " "
  <2>1. k \in 1..l + n + r /\ k \notin l + 1..l + n
    BY <1>1
  <2> QED
    BY <1>2, <2>1
<1>7. ASSUME NEW k \in l + n + 1..l + n + r PROVE val[k] = " "
  <2>1. k \in 1..l + n + r /\ k \notin l + 1..l + n
    BY <1>1
  <2> QED
    BY <1>2, <2>1
<1>8. val \in Seq(Characters) /\ Len(val) = l + n + r
  <2>1. ASSUME NEW k \in 1..l + n + r PROVE val[k] \in Characters
    <3>1. CASE k \in l + 1..l + n
      <4>1. k - l \in 1..n
        BY <1>1, <3>1
      <4>2. val[k] = s[k - l]
        BY <1>2, <3>1
      <4> QED
        BY <1>4, <4>1, <4>2
    <3>2. CASE k \notin l + 1..l + n
      BY <1>2, <3>2 DEF Characters
    <3> QED
      BY <3>1, <3>2
  <2>2. val \in [1..l + n + r -> Characters]
    BY <1>2, <2>1
  <2>3. l + n + r \in Nat
    BY <1>1
  <2>4. val \in Seq(Characters)
    BY <2>2, <2>3, IsASeq
  <2>5. Len(val) \in Nat /\ DOMAIN val = 1..Len(val)
    BY <2>4, LenProperties
  <2>6. 1..Len(val) = 1..l + n + r
    BY <1>2, <2>5, Zenon
  <2>7. Len(val) = l + n + r
    BY <2>3, <2>5, <2>6, SameRange, Zenon
  <2> QED
    BY <2>4, <2>7
<1>9. n # 0 => s[1] # " " /\ s[n] # " "
  BY DEF Pads, n
<1> QED
  BY <1>1, <1>3, <1>5, <1>6, <1>7, <1>8, <1>9 DEF Between, val, n

\* A check keeps a text within the limits without the blanks around it.
LEMMA CheckRight ==
  ASSUME NEW l, NEW s, NEW r, Pads(l, s, r), NEW min, NEW max
  PROVE  cjson_check(Padded(l, s, r), min, max)
           = IF Len(s) \in min..max THEN s ELSE Padded(l, s, r)
<1>1. sdstrim(Padded(l, s, r)) = s
  BY PaddedBetween, TrimBetween, Zenon
<1>2. s # Null
  <2>1. s \in Seq(Characters)
    BY DEF Pads
  <2> SUFFICES ASSUME s = Null PROVE FALSE
    OBVIOUS
  <2>2. Len(s) = 1 /\ s[1] = "null"
    BY DEF Null
  <2>3. s[1] \in Characters
    <3>1. 1 \in 1..Len(s)
      BY <2>2
    <3> QED
      BY <2>1, <3>1, ElementOfSeq, Zenon
  <2> QED
    BY <2>2, <2>3 DEF Characters
<1> QED
  BY <1>1, <1>2, Zenon DEF cjson_check, check_string

\* A column is as long as the array, or it is not there.
LEMMA ColumnRight ==
  ASSUME NEW doc, doc \in Docs, NEW arr, NEW name
  PROVE  \/ cjson_col(doc, arr, name) = <<Null>>
         \/ Len(cjson_col(doc, arr, name)) = Len(Kids(doc, arr))
<1> DEFINE kids == Kids(doc, arr)
           col == [k \in DOMAIN kids |-> GetObjectItem(doc, kids[k].at, name)]
<1>1. kids \in Seq({doc[k] : k \in DOMAIN doc})
  BY JsonAssumption, KidsAreNodes, Zenon
<1>2. Len(kids) \in Nat /\ DOMAIN kids = 1..Len(kids)
  BY <1>1, LenProperties
<1> HIDE DEF kids
<1>3. Len(col) = Len(kids)
  <2> DEFINE S == {col[k] : k \in DOMAIN kids}
  <2>1. col \in [1..Len(kids) -> S]
    BY <1>2
  <2>2. DOMAIN col = 1..Len(kids)
    BY <1>2
  <2> HIDE DEF col, S
  <2>3. col \in Seq(S)
    BY <1>2, <2>1, IsASeq
  <2>4. Len(col) \in Nat /\ DOMAIN col = 1..Len(col)
    BY <2>3, LenProperties
  <2> QED
    BY <1>2, <2>2, <2>4
<1>4. cjson_col(doc, arr, name) = IF \E k \in DOMAIN col : col[k] = Null THEN <<Null>> ELSE col
  BY DEF cjson_col, kids
<1> HIDE DEF col
<1> QED
  BY <1>3, <1>4 DEF kids

\* The part of 1..n from b to e, or the default.
PartOrDefault(n, b, e) ==
  LET P == {k \in 1..n : k - 1 >= b /\ k - 1 <= e} IN IF P = {} THEN {0} ELSE P

\* The substring is that part.
LEMMA SubStringRight ==
  ASSUME NEW n \in Nat, NEW b \in Nat, NEW e \in Nat
  PROVE  SubString(n, b, e) = PartOrDefault(n, b, e)
<1> DEFINE P == {k \in 1..n : k - 1 >= b /\ k - 1 <= e}
           top == IF e > n - 1 THEN n - 1 ELSE e
<1>0. top \in Int /\ top <= e /\ top <= n - 1 /\ (top = e \/ top = n - 1)
  OBVIOUS
<1>1. SubString(n, b, e) = IF b > n - 1 \/ top < b THEN {0} ELSE b + 1..top + 1
  BY DEF SubString
<1> HIDE DEF top
<1>2. CASE b > n - 1 \/ top < b
  <2>1. P = {}
    BY <1>0, <1>2
  <2> QED
    BY <1>1, <1>2, <2>1 DEF PartOrDefault
<1>3. CASE ~(b > n - 1 \/ top < b)
  <2>1. b + 1 \in P
    BY <1>0, <1>3
  <2>2. P = b + 1..top + 1
    <3>1. ASSUME NEW k \in P PROVE k \in b + 1..top + 1
      BY <1>0
    <3>2. ASSUME NEW k \in b + 1..top + 1 PROVE k \in P
      BY <1>0
    <3> HIDE DEF P
    <3> QED
      BY <3>1, <3>2
  <2> HIDE DEF P
  <2>3. P # {}
    BY <2>1
  <2>4. SubString(n, b, e) = P
    BY <1>1, <1>3, <2>2, Zenon
  <2> QED
    BY <2>3, <2>4 DEF P, PartOrDefault
<1> QED
  BY <1>2, <1>3

\* The length and the places of a segment.
LEMMA SegmentIs ==
  ASSUME NEW alts, alts \in Segments
  PROVE  Len(alts) \in Nat \ {0} /\ DOMAIN alts = 1..Len(alts)
<1>1. \E k : k \in Nat \ {0} /\ alts \in [1..k -> Steps]
  <2>1. \E k \in 1..3 : alts \in [1..k -> Steps]
    BY Zenon DEF Segments
  <2>2. \A k \in 1..3 : k \in Nat \ {0}
    OBVIOUS
  <2> QED
    BY <2>1, <2>2, Zenon
<1>2. PICK k : k \in Nat \ {0} /\ alts \in [1..k -> Steps]
  BY <1>1, Zenon
<1>3. alts \in Seq(Steps)
  BY <1>2, IsASeq
<1>4. Len(alts) \in Nat /\ DOMAIN alts = 1..Len(alts)
  BY <1>3, LenProperties
<1>5. 1..Len(alts) = 1..k
  BY <1>2, <1>4, Zenon
<1>6. Len(alts) = k
  BY <1>2, <1>4, <1>5, SameRange
<1> QED
  BY <1>2, <1>4, <1>6

\* A path of segments.
PathOf(path) ==
  /\ Len(path) \in Nat /\ DOMAIN path = 1..Len(path)
  /\ \A k \in DOMAIN path : path[k] \in Segments

\* The paths of the calls are paths of segments.
LEMMA PathIs ==
  ASSUME NEW first, NEW second, first \in Segments,
         second \in {<<>>} \cup {<<s>> : s \in Steps}
  PROVE  PathOf(IF second = <<>> THEN <<first>> ELSE <<first, second>>)
<1>1. CASE second = <<>>
  <2>1. PathOf(<<first>>)
    BY DEF PathOf
  <2> QED
    BY <1>1, <2>1
<1>2. CASE second # <<>>
  <2>1. PICK s \in Steps : second = <<s>>
    BY <1>2
  <2>2. <<s>> \in [1..1 -> Steps]
    OBVIOUS
  <2>3. second \in Segments
    BY <2>1, <2>2 DEF Segments
  <2>4. PathOf(<<first, second>>)
    <3> DEFINE path == <<first, second>>
    <3>1. Len(path) = 2 /\ DOMAIN path = 1..2 /\ path[1] = first /\ path[2] = second
      OBVIOUS
    <3>2. \A k \in 1..2 : k = 1 \/ k = 2
      OBVIOUS
    <3> HIDE DEF path
    <3>3. \A k \in DOMAIN path : path[k] \in Segments
      BY <2>3, <3>1, <3>2, Zenon
    <3>4. 2 \in Nat
      OBVIOUS
    <3> QED
      BY <3>1, <3>3, <3>4, Zenon DEF PathOf, path
  <2> QED
    BY <1>2, <2>4
<1> QED
  BY <1>1, <1>2

\* A call with a path finds what the alternatives lead to.
LEMMA PathRight ==
  ASSUME NEW doc, NEW path, PathOf(path),
         JsonReturns("path", <<doc, path>>, cjson_(doc, <<>>, path))
  PROVE  PathFinds'
<1>1. json'.in[1] = doc /\ json'.in[2] = path /\ json'.ret = cjson_(doc, <<>>, path)
  BY DEF JsonReturns
<1>2. ASSUME \A k \in DOMAIN path : \A j \in 1..Len(path[k]) - 1 : path[k][j].index = NoIndex
      PROVE  cjson_(doc, <<>>, path) = Leads(doc, path)[Len(path)]
  <2>1. Len(path) \in Nat /\ DOMAIN path = 1..Len(path)
    BY DEF PathOf
  <2>2. ASSUME NEW k, k \in 1..Len(path) PROVE Plainly(path[k])
    <3>1. k \in DOMAIN path /\ path[k] \in Segments
      BY <2>1, <2>2, Zenon DEF PathOf
    <3>2. Len(path[k]) \in Nat \ {0} /\ DOMAIN path[k] = 1..Len(path[k])
      BY <3>1, SegmentIs, Zenon
    <3>3. \A j \in 1..Len(path[k]) - 1 : path[k][j].index = NoIndex
      BY <1>2, <3>1, Zenon
    <3> QED
      BY <3>2, <3>3, Zenon DEF Plainly
  <2> QED
    BY <2>1, <2>2, PathLeads, Zenon
<1> QED
  BY <1>1, <1>2, Zenon DEF PathFinds

\* A path of plain keys.
LEMMA KeyPathIs ==
  ASSUME NEW p, p \in KeyPaths
  PROVE  /\ Len(p) \in Nat
         /\ \A k \in 1..Len(p) : \E s : p[k] = <<s>> /\ s.index = NoIndex
<1> DEFINE S == {<<s>> : s \in {t \in Steps : t.index = NoIndex}}
<1>1. \E k \in 1..2 : p \in [1..k -> S]
  BY Zenon DEF KeyPaths
<1>2. \A k \in 1..2 : k \in Nat
  OBVIOUS
<1>3. PICK k : k \in Nat /\ p \in [1..k -> S]
  BY <1>1, <1>2, Zenon
<1>4. \A x \in S : \E s : x = <<s>> /\ s.index = NoIndex
  BY Zenon
<1> HIDE DEF S
<1>5. p \in Seq(S)
  BY <1>3, IsASeq
<1>6. Len(p) \in Nat /\ DOMAIN p = 1..Len(p)
  BY <1>5, LenProperties
<1>7. \A i \in 1..Len(p) : p[i] \in S
  BY <1>5, ElementOfSeq
<1> QED
  BY <1>4, <1>6, <1>7, Zenon

\* cjson_exists says of plain keys what cjson_ finds.
LEMMA ExistsRight ==
  ASSUME NEW doc, NEW paths, \A p \in paths : p \in KeyPaths,
         JsonReturns("exists", <<doc, paths>>, cjson_exists(doc, paths))
  PROVE  ExistsAgrees'
<1>1. json'.in[1] = doc /\ json'.in[2] = paths /\ json'.ret = cjson_exists(doc, paths)
  BY Zenon DEF JsonReturns
<1>2. ASSUME NEW p, p \in paths PROVE Keyed(doc, p)[Len(p)] = cjson_(doc, <<>>, p)
  BY <1>2, KeyPathIs, KeysAgree, Zenon
<1>3. cjson_exists(doc, paths) <=> \A p \in paths : cjson_(doc, <<>>, p) # Null
  BY <1>2, Zenon DEF cjson_exists
<1> QED
  BY <1>1, <1>3, Zenon DEF ExistsAgrees

\* A call is one of the five functions.
LEMMA OtherCalls ==
  /\ json'.fn # "path" => PathFinds'
  /\ json'.fn # "exists" => ExistsAgrees'
  /\ json'.fn # "col" => ColumnWhole'
  /\ json'.fn # "check" => CheckKeeps'
  /\ json'.fn # "sval" => SubStringExists'
BY DEF PathFinds, ExistsAgrees, ColumnWhole, CheckKeeps, SubStringExists

\* Every call returns what the document has.
LEMMA JsonNextRight == JsonNext => JsonRight'
<1> SUFFICES ASSUME JsonNext PROVE JsonRight'
  OBVIOUS
<1>1. CASE CallPath
  <2>1. PICK doc \in Docs, first \in Segments, second \in {<<>>} \cup {<<s>> : s \in Steps} :
          LET path == IF second = <<>> THEN <<first>> ELSE <<first, second>>
          IN  JsonReturns("path", <<doc, path>>, cjson_(doc, <<>>, path))
    BY <1>1, Zenon DEF CallPath
  <2> DEFINE path == IF second = <<>> THEN <<first>> ELSE <<first, second>>
  <2>2. PathOf(path)
    BY PathIs, Zenon
  <2>3. JsonReturns("path", <<doc, path>>, cjson_(doc, <<>>, path))
    BY <2>1
  <2> HIDE DEF path
  <2>4. PathFinds'
    BY <2>2, <2>3, PathRight, Zenon
  <2>5. json'.fn = "path"
    BY <2>3, Zenon DEF JsonReturns
  <2> QED
    BY <2>4, <2>5, OtherCalls DEF JsonRight
<1>2. CASE CallExists
  <2>1. PICK doc \in Docs, p \in KeyPaths, q \in KeyPaths :
          JsonReturns("exists", <<doc, {p, q}>>, cjson_exists(doc, {p, q}))
    BY <1>2, Zenon DEF CallExists
  <2>2. \A x \in {p, q} : x \in KeyPaths
    BY Zenon
  <2>3. ExistsAgrees'
    BY <2>1, <2>2, ExistsRight, Zenon
  <2>4. json'.fn = "exists"
    BY <2>1, Zenon DEF JsonReturns
  <2> QED
    BY <2>3, <2>4, OtherCalls DEF JsonRight
<1>3. CASE CallCol
  <2>1. PICK doc \in Docs, s \in {u \in Steps : u.index = NoIndex},
             t \in {u \in Steps : u.index = NoIndex} :
          LET arr == cjson_(doc, <<>>, <<<<s>>>>)
          IN  /\ Kind(doc, arr) = "arr"
              /\ JsonReturns("col", <<doc, arr, t.name>>, cjson_col(doc, arr, t.name))
    BY <1>3, Zenon DEF CallCol
  <2> DEFINE arr == cjson_(doc, <<>>, <<<<s>>>>)
  <2>2. JsonReturns("col", <<doc, arr, t.name>>, cjson_col(doc, arr, t.name))
    BY <2>1, Zenon
  <2> HIDE DEF arr
  <2>3. /\ json'.fn = "col" /\ json'.ret = cjson_col(doc, arr, t.name)
        /\ json'.in[1] = doc /\ json'.in[2] = arr
    BY <2>2 DEF JsonReturns
  <2>4. ColumnWhole'
    <3>1. \/ cjson_col(doc, arr, t.name) = <<Null>>
          \/ Len(cjson_col(doc, arr, t.name)) = Len(Kids(doc, arr))
      BY ColumnRight, Zenon
    <3>2. \/ json'.ret = <<Null>>
          \/ Len(json'.ret) = Len(Kids(json'.in[1], json'.in[2]))
      BY <2>3, <3>1
    <3> QED
      BY <3>2 DEF ColumnWhole
  <2> QED
    BY <2>3, <2>4, OtherCalls DEF JsonRight
<1>4. CASE CallSval
  <2>1. PICK n \in 0..3, b \in 0..4, e \in 0..4 :
          JsonReturns("sval", <<n, b, e>>, SubString(n, b, e))
    BY <1>4, Zenon DEF CallSval
  <2>2. n \in Nat /\ b \in Nat /\ e \in Nat
    OBVIOUS
  <2>3. SubString(n, b, e) = PartOrDefault(n, b, e)
    BY <2>2, SubStringRight, Zenon
  <2>4. /\ json'.fn = "sval" /\ json'.ret = SubString(n, b, e)
        /\ json'.in[1] = n /\ json'.in[2] = b /\ json'.in[3] = e
    <3>1. json' = [fn |-> "sval", in |-> <<n, b, e>>, ret |-> SubString(n, b, e)]
      BY <2>1, Zenon DEF JsonReturns
    <3> QED
      BY <3>1
  <2>5. SubStringExists'
    <3>1. json'.ret = PartOrDefault(json'.in[1], json'.in[2], json'.in[3])
      BY <2>3, <2>4, Zenon
    <3> QED
      BY <3>1, Zenon DEF SubStringExists, PartOrDefault
  <2> QED
    BY <2>4, <2>5, OtherCalls DEF JsonRight
<1>5. CASE CallCheck
  <2>1. PICK l \in 0..3, r \in 0..3, core \in Cores, min \in 0..2, max \in 2..3 :
          LET val == Padded(l, core, r)
          IN  JsonReturns("check", <<val, core, min, max>>, cjson_check(val, min, max))
    BY <1>5, Zenon DEF CallCheck
  <2> DEFINE val == Padded(l, core, r)
  <2>2. Pads(l, core, r)
    <3>1. l \in Nat /\ r \in Nat
      OBVIOUS
    <3> QED
      BY <3>1, CoreIs, Zenon DEF Pads
  <2>3. cjson_check(val, min, max) = IF Len(core) \in min..max THEN core ELSE val
    BY <2>2, CheckRight, Zenon
  <2>4. JsonReturns("check", <<val, core, min, max>>, cjson_check(val, min, max))
    BY <2>1, Zenon
  <2> HIDE DEF val
  <2>5. /\ json'.fn = "check" /\ json'.ret = cjson_check(val, min, max)
        /\ json'.in[1] = val /\ json'.in[2] = core /\ json'.in[3] = min /\ json'.in[4] = max
    <3>1. json' = [fn |-> "check", in |-> <<val, core, min, max>>,
                   ret |-> cjson_check(val, min, max)]
      BY <2>4, Zenon DEF JsonReturns
    <3> QED
      BY <3>1
  <2>6. CheckKeeps'
    BY <2>3, <2>5, Zenon DEF CheckKeeps
  <2> QED
    BY <2>5, <2>6, OtherCalls DEF JsonRight
<1> QED
  BY <1>1, <1>2, <1>3, <1>4, <1>5, Zenon DEF JsonNext

\* Paths, columns, substrings and checked texts of any document are what it has, or the
\* default: the alternatives and the way back of cjson_, cjson_col, cjson_sval's [b,e],
\* cjson_check.
THEOREM JsonFinds == JsonSpec => []JsonRight
<1>1. JsonInit => JsonRight
  <2> SUFFICES ASSUME JsonInit PROVE JsonRight
    OBVIOUS
  <2>1. json.fn = "none"
    BY DEF JsonInit
  <2> QED
    BY <2>1 DEF JsonRight, PathFinds, ExistsAgrees, ColumnWhole, CheckKeeps, SubStringExists
<1>2. JsonRight /\ UNCHANGED jsonVars => JsonRight'
  BY Zenon DEF jsonVars, JsonRight, PathFinds, ExistsAgrees, ColumnWhole, CheckKeeps,
       SubStringExists
<1>3. JsonRight /\ [JsonNext]_jsonVars => JsonRight'
  BY <1>2, JsonNextRight
<1> QED
  BY <1>1, <1>3, PTL DEF JsonSpec

-----------------------------------------------------------------------------
(* HpStrings *)

\* Every nonempty set of naturals that is bounded has a greatest element.
LEMMA NatMax ==
  ASSUME NEW n \in Nat, NEW T, T \subseteq 0..n, T # {}
  PROVE  \E m \in T : \A k \in T : k <= m
<1> DEFINE D == {n - k : k \in T}
<1>0. \A k \in T : k \in Nat /\ k <= n
  OBVIOUS
<1>1. D \subseteq Nat /\ D # {}
  <2>1. \A k \in T : n - k \in Nat
    BY <1>0
  <2> QED
    BY <2>1
<1>2. PICK d \in D : \A e \in D : d <= e
  BY <1>1, NatMin
<1>3. PICK m \in T : d = n - m
  BY <1>2
<1>4. ASSUME NEW k \in T PROVE k <= m
  <2>1. n - k \in D
    BY <1>4
  <2>2. n - m <= n - k
    BY <1>2, <1>3, <2>1
  <2>3. k \in Nat /\ m \in Nat
    BY <1>0, <1>3, <1>4
  <2> QED
    BY <2>2, <2>3
<1> QED
  BY <1>4

\* A loop that writes sequences over S and goes on at a later place, or at the end.
IsLoop(S, next, outs) ==
  /\ outs \in Seq(Seq(S))
  /\ \A k \in 1..Len(outs) : next[k] \in Nat /\ k < next[k] /\ next[k] <= Len(outs) + 1

\* f solves the recursion of Pass(next, outs) from place m on.
PassRec(next, outs, f, m) ==
  f = [k \in m..Len(outs) + 1 |-> IF k > Len(outs) THEN <<>> ELSE outs[k] \o f[next[k]]]

\* The recursion has a solution.
LEMMA PassExists ==
  ASSUME NEW S, NEW next, NEW outs, IsLoop(S, next, outs)
  PROVE  \E f : PassRec(next, outs, f, 1)
<1> DEFINE n == Len(outs)
           T == {m \in 0..n + 1 : m > 0 /\ ~ \E f : PassRec(next, outs, f, m)}
<1>1. n \in Nat /\ \A k \in 1..n : next[k] \in Nat /\ k < next[k] /\ next[k] <= n + 1
  BY LenProperties DEF IsLoop
<1> SUFFICES ASSUME 1 \in T PROVE FALSE
  BY <1>1
<1>2. PICK m \in T : \A i \in T : i <= m
  <2>1. T \subseteq 0..n + 1 /\ T # {} /\ n + 1 \in Nat
    BY <1>1
  <2> HIDE DEF T
  <2> QED
    BY <2>1, NatMax
<1>3. m \in Nat /\ m > 0 /\ m <= n + 1 /\ ~ \E f : PassRec(next, outs, f, m)
  BY <1>1, <1>2
<1>4. m # n + 1
  <2> SUFFICES ASSUME m = n + 1 PROVE FALSE
    OBVIOUS
  <2> DEFINE g == [k \in n + 1..n + 1 |-> <<>>]
  <2>1. PassRec(next, outs, g, n + 1)
    <3>1. \A k \in n + 1..n + 1 : k > n
      BY <1>1
    <3> QED
      BY <3>1 DEF PassRec
  <2> QED
    BY <1>3, <2>1
<1>5. PICK f : PassRec(next, outs, f, m + 1)
  <2>1. m + 1 \notin T /\ m + 1 \in 0..n + 1 /\ m + 1 > 0
    BY <1>1, <1>2, <1>3, <1>4
  <2> QED
    BY <2>1
<1> DEFINE h(k, q) == IF k > n THEN <<>> ELSE outs[k] \o q
           g == [k \in m..n + 1 |-> IF k = m THEN outs[m] \o f[next[m]] ELSE f[k]]
<1>6. \A k \in m + 1..n + 1 : f[k] = h(k, f[next[k]])
  BY <1>5 DEF PassRec
<1>7. ASSUME NEW k \in m..n + 1 PROVE g[k] = h(k, g[next[k]])
  <2>1. CASE k = m
    <3>1. m \in 1..n /\ ~(m > n) /\ m \in m..n + 1
      BY <1>1, <1>3, <1>4
    <3>2. next[m] \in m..n + 1 /\ next[m] # m
      BY <1>1, <1>3, <3>1
    <3> QED
      BY <2>1, <3>1, <3>2
  <2>2. CASE k # m /\ k <= n
    <3>1. k \in 1..n /\ ~(k > n) /\ k \in m + 1..n + 1
      BY <1>1, <1>3, <2>2
    <3>2. next[k] \in m..n + 1 /\ next[k] # m
      BY <1>1, <1>3, <3>1
    <3>3. f[k] = outs[k] \o f[next[k]]
      BY <1>6, <3>1
    <3> QED
      BY <2>2, <3>1, <3>2, <3>3
  <2>3. CASE k # m /\ k = n + 1
    <3>1. k > n /\ k \in m + 1..n + 1
      BY <1>1, <1>3, <2>3
    <3>2. f[k] = <<>>
      BY <1>6, <3>1
    <3> QED
      BY <2>3, <3>1, <3>2
  <2> QED
    BY <1>1, <1>3, <2>1, <2>2, <2>3
<1>8. g = [k \in m..n + 1 |-> h(k, g[next[k]])]
  <2> HIDE DEF h
  <2> QED
    BY <1>7
<1>9. PassRec(next, outs, g, m)
  <2> HIDE DEF g
  <2> QED
    BY <1>8 DEF PassRec
<1> QED
  BY <1>3, <1>9

\* u is what a loop writes from each place on.
Writes(S, next, outs, u) ==
  /\ Len(outs) \in Nat /\ u[Len(outs) + 1] = <<>>
  /\ \A k \in 1..Len(outs) : u[k] = outs[k] \o u[next[k]]
  /\ \A k \in 1..Len(outs) + 1 : u[k] \in Seq(S)

\* Pass satisfies its recursive definition, and is a sequence everywhere.
LEMMA PassStep ==
  ASSUME NEW S, NEW next, NEW outs, IsLoop(S, next, outs)
  PROVE  Writes(S, next, outs, Pass(next, outs))
<1> DEFINE n == Len(outs)
           u == Pass(next, outs)
<1>1. n \in Nat /\ \A k \in 1..n : next[k] \in Nat /\ k < next[k] /\ next[k] <= n + 1
  BY LenProperties DEF IsLoop
<1>2. \A k \in 1..n : outs[k] \in Seq(S)
  BY ElementOfSeq DEF IsLoop
<1>3. PassRec(next, outs, u, 1)
  <2>1. PICK f : PassRec(next, outs, f, 1)
    BY PassExists, Zenon
  <2>2. u = CHOOSE s : PassRec(next, outs, s, 1)
    BY Zenon DEF Pass, PassRec
  <2> HIDE DEF u
  <2> QED
    BY <2>1, <2>2, Zenon
<1> HIDE DEF u
<1>4. /\ u[n + 1] = <<>>
      /\ \A k \in 1..n : u[k] = outs[k] \o u[next[k]]
  <2>1. \A k \in 1..n + 1 : u[k] = IF k > n THEN <<>> ELSE outs[k] \o u[next[k]]
    BY <1>3 DEF PassRec
  <2>2. n + 1 \in 1..n + 1 /\ n + 1 > n /\ \A k \in 1..n : k \in 1..n + 1 /\ ~(k > n)
    BY <1>1
  <2> HIDE DEF n
  <2> QED
    BY <2>1, <2>2, Zenon
<1>5. \A k \in 1..n + 1 : u[k] \in Seq(S)
  <2> DEFINE T == {k \in 0..n + 1 : k > 0 /\ u[k] \notin Seq(S)}
  <2> SUFFICES ASSUME T # {} PROVE FALSE
    BY <1>1
  <2>1. PICK k \in T : \A i \in T : i <= k
    <3>1. T \subseteq 0..n + 1 /\ n + 1 \in Nat
      BY <1>1
    <3> HIDE DEF T
    <3> QED
      BY <3>1, NatMax
  <2>2. k \in 1..n + 1 /\ u[k] \notin Seq(S)
    BY <1>1, <2>1
  <2>3. k # n + 1
    BY <1>4, <2>2, EmptySeq
  <2>4. k \in 1..n
    BY <1>1, <2>2, <2>3
  <2>5. u[next[k]] \in Seq(S)
    <3>1. next[k] \in 0..n + 1 /\ next[k] > 0 /\ ~(next[k] <= k)
      BY <1>1, <2>4
    <3>2. next[k] \notin T
      BY <2>1, <3>1
    <3> QED
      BY <3>1, <3>2
  <2> HIDE DEF T
  <2>6. outs[k] \o u[next[k]] \in Seq(S)
    BY <1>2, <2>4, <2>5, ConcatProperties
  <2> QED
    BY <1>4, <2>2, <2>4, <2>6
<1> QED
  BY <1>1, <1>4, <1>5 DEF u, Writes

\* t is what s holds from place p on.
TailAt(s, p, t) ==
  /\ Len(t) \in Nat /\ p \in Nat /\ Len(s) = p - 1 + Len(t)
  /\ \A i \in 1..Len(t) : s[p + i - 1] = t[i]

\* s holds a from place p on, and then b.
CutAt(s, p, a, b) ==
  /\ Len(a) \in Nat /\ Len(b) \in Nat /\ p \in Nat
  /\ Len(s) = p - 1 + Len(a) + Len(b)
  /\ \A i \in 1..Len(a) : s[p + i - 1] = a[i]
  /\ TailAt(s, p + Len(a), b)

\* The first part of what s holds from p on, and what it holds after it.
LEMMA TailAtCut ==
  ASSUME NEW S, NEW s, NEW p, NEW a \in Seq(S), NEW b \in Seq(S), TailAt(s, p, a \o b)
  PROVE  CutAt(s, p, a, b)
<1>1. /\ Len(a) \in Nat /\ Len(b) \in Nat /\ p \in Nat /\ Len(a \o b) = Len(a) + Len(b)
      /\ Len(s) = p - 1 + Len(a \o b)
  BY LenProperties, ConcatProperties DEF TailAt
<1>2. \A i \in 1..Len(a) + Len(b) :
        (a \o b)[i] = IF i <= Len(a) THEN a[i] ELSE b[i - Len(a)]
  BY ConcatProperties
<1>3. \A i \in 1..Len(a) + Len(b) : s[p + i - 1] = (a \o b)[i]
  BY <1>1 DEF TailAt
<1>4. ASSUME NEW i \in 1..Len(a) PROVE s[p + i - 1] = a[i]
  BY <1>1, <1>2, <1>3
<1>5. ASSUME NEW i \in 1..Len(b) PROVE s[p + Len(a) + i - 1] = b[i]
  <2>1. Len(a) + i \in 1..Len(a) + Len(b) /\ ~(Len(a) + i <= Len(a)) /\ Len(a) + i - Len(a) = i
    BY <1>1
  <2>2. s[p + (Len(a) + i) - 1] = b[i]
    <3> DEFINE q == Len(a) + i
    <3>1. q \in 1..Len(a) + Len(b) /\ ~(q <= Len(a)) /\ q - Len(a) = i
      BY <2>1
    <3> HIDE DEF q
    <3>2. (a \o b)[q] = b[q - Len(a)] /\ s[p + q - 1] = (a \o b)[q]
      BY <1>2, <1>3, <3>1
    <3> QED
      BY <3>1, <3>2, Zenon DEF q
  <2>3. p + (Len(a) + i) - 1 = p + Len(a) + i - 1
    BY <1>1
  <2> QED
    BY <2>2, <2>3
<1> QED
  BY <1>1, <1>4, <1>5 DEF TailAt, CutAt

\* Where a second loop, over what a first one wrote, turns outs[k] into meant[k] at
\* every place k, it writes all in all what the first had written with meant.
Turns(next, outs, meant, s, next2, out2) ==
  \A k \in 1..Len(outs), p \in Nat \ {0} :
    TailAt(s, p, Pass(next, outs)[k]) =>
      /\ p <= Len(s)
      /\ next2[p] = p + Len(outs[k])
      /\ out2[p] = meant[k]

LEMMA Transduce ==
  ASSUME NEW S, NEW next, NEW outs, NEW meant, NEW next2, NEW out2,
         IsLoop(S, next, outs), IsLoop(S, next, meant), Len(meant) = Len(outs),
         IsLoop(S, next2, out2), Len(out2) = Len(Output(next, outs)),
         Turns(next, outs, meant, Output(next, outs), next2, out2)
  PROVE  Output(next2, out2) = Output(next, meant)
<1> DEFINE n == Len(outs)
           s == Output(next, outs)
           u == Pass(next, outs)
           v == Pass(next, meant)
           w == Pass(next2, out2)
<1>1. /\ n \in Nat /\ u[n + 1] = <<>>
      /\ \A k \in 1..n : u[k] = outs[k] \o u[next[k]]
      /\ \A k \in 1..n + 1 : u[k] \in Seq(S)
  <2>1. Writes(S, next, outs, u)
    BY PassStep
  <2> HIDE DEF u
  <2> QED
    BY <2>1 DEF Writes
<1>2. v[n + 1] = <<>> /\ \A k \in 1..n : v[k] = meant[k] \o v[next[k]]
  <2>1. IsLoop(S, next, meant) /\ n = Len(meant)
    OBVIOUS
  <2>2. Writes(S, next, meant, v)
    BY <2>1, PassStep
  <2> HIDE DEF n, v
  <2> QED
    BY <2>1, <2>2 DEF Writes
<1>3. /\ Len(s) \in Nat /\ w[Len(s) + 1] = <<>>
      /\ \A p \in 1..Len(s) : w[p] = out2[p] \o w[next2[p]]
  <2>1. IsLoop(S, next2, out2) /\ Len(s) = Len(out2)
    OBVIOUS
  <2>2. Writes(S, next2, out2, w)
    BY <2>1, PassStep
  <2> HIDE DEF s, w
  <2> QED
    BY <2>1, <2>2 DEF Writes
<1>4. \A k \in 1..n : next[k] \in Nat /\ k < next[k] /\ next[k] <= n + 1
  BY DEF IsLoop
<1>5. \A k \in 1..n : outs[k] \in Seq(S)
  BY ElementOfSeq DEF IsLoop
<1>6. \A k \in 1..n, p \in Nat \ {0} :
        TailAt(s, p, u[k]) => p <= Len(s) /\ next2[p] = p + Len(outs[k]) /\ out2[p] = meant[k]
  BY DEF Turns
<1>7. s = u[1]
  BY DEF Output
<1> HIDE DEF n, s, u, v, w
<1> DEFINE Good(k) == \A p \in Nat \ {0} : TailAt(s, p, u[k]) => w[p] = v[k]
           T == {k \in 0..n + 1 : k > 0 /\ ~Good(k)}
<1>8. T = {}
  <2> SUFFICES ASSUME T # {} PROVE FALSE
    OBVIOUS
  <2>1. PICK k \in T : \A i \in T : i <= k
    <3>1. T \subseteq 0..n + 1 /\ n + 1 \in Nat
      BY <1>1
    <3> HIDE DEF T
    <3> QED
      BY <3>1, NatMax
  <2>2. k \in 1..n + 1 /\ ~Good(k)
    BY <1>1, <2>1
  <2>3. PICK p \in Nat \ {0} : TailAt(s, p, u[k]) /\ w[p] # v[k]
    BY <2>2
  <2>4. k # n + 1
    <3> SUFFICES ASSUME k = n + 1 PROVE FALSE
      OBVIOUS
    <3>1. TailAt(s, p, <<>>)
      BY <1>1, <2>3
    <3>2. p = Len(s) + 1
      BY <1>3, <3>1, EmptySeq DEF TailAt
    <3> QED
      BY <1>2, <1>3, <2>3, <3>2
  <2>5. k \in 1..n
    BY <1>1, <2>2, <2>4
  <2>6. next[k] \in 1..n + 1 /\ Good(next[k])
    <3>1. next[k] \in 0..n + 1 /\ next[k] > 0 /\ ~(next[k] <= k)
      BY <1>1, <1>4, <2>5
    <3>2. next[k] \notin T
      BY <2>1, <3>1
    <3> HIDE DEF Good
    <3> QED
      BY <1>1, <3>1, <3>2
  <2>7. p <= Len(s) /\ next2[p] = p + Len(outs[k]) /\ out2[p] = meant[k]
    BY <1>6, <2>3, <2>5
  <2>8. /\ TailAt(s, p + Len(outs[k]), u[next[k]])
        /\ Len(outs[k]) \in Nat
    <3>1. outs[k] \in Seq(S) /\ u[next[k]] \in Seq(S) /\ TailAt(s, p, outs[k] \o u[next[k]])
      BY <1>1, <1>5, <2>3, <2>5, <2>6
    <3>2. CutAt(s, p, outs[k], u[next[k]])
      BY <3>1, TailAtCut
    <3> QED
      BY <3>2 DEF CutAt
  <2>9. w[p + Len(outs[k])] = v[next[k]]
    BY <2>6, <2>8
  <2>10. w[p] = meant[k] \o v[next[k]]
    <3>1. p \in 1..Len(s)
      BY <1>3, <2>7
    <3>2. w[p] = out2[p] \o w[next2[p]]
      BY <1>3, <3>1
    <3> QED
      BY <2>7, <2>9, <3>2
  <2> QED
    BY <1>2, <2>3, <2>5, <2>10
<1>9. TailAt(s, 1, u[1])
  BY <1>3, <1>7 DEF TailAt
<1>10. Good(1)
  <2>1. 1 \in 0..n + 1
    BY <1>1
  <2> QED
    BY <1>8, <2>1
<1>11. w[1] = v[1]
  BY <1>9, <1>10
<1> QED
  BY <1>11 DEF Output, v, w

\* A loop that copies what it goes over writes its input.
LEMMA Copies ==
  ASSUME NEW S, NEW next, NEW outs, NEW s \in Seq(S), IsLoop(S, next, outs), Len(outs) = Len(s),
         \A k \in 1..Len(s) : outs[k] = SubSeq(s, k, next[k] - 1)
  PROVE  Output(next, outs) = s
<1> DEFINE n == Len(s)
           u == Pass(next, outs)
<1>1. /\ n \in Nat /\ u[n + 1] = <<>>
      /\ \A k \in 1..n : u[k] = outs[k] \o u[next[k]]
  <2>1. n = Len(outs)
    OBVIOUS
  <2>2. Writes(S, next, outs, u)
    BY PassStep
  <2> HIDE DEF n, u
  <2> QED
    BY <2>1, <2>2 DEF Writes
<1>2. \A k \in 1..n : next[k] \in Nat /\ k < next[k] /\ next[k] <= n + 1
  BY DEF IsLoop
<1> HIDE DEF u
<1> DEFINE T == {k \in 0..n + 1 : k > 0 /\ u[k] # SubSeq(s, k, n)}
<1>3. T = {}
  <2> SUFFICES ASSUME T # {} PROVE FALSE
    OBVIOUS
  <2>1. PICK k \in T : \A i \in T : i <= k
    <3>1. T \subseteq 0..n + 1 /\ n + 1 \in Nat
      BY <1>1
    <3> HIDE DEF T
    <3> QED
      BY <3>1, NatMax
  <2>2. k \in 1..n + 1 /\ u[k] # SubSeq(s, k, n)
    BY <1>1, <2>1
  <2>3. k # n + 1
    <3>1. SubSeq(s, n + 1, n) = <<>>
      BY <1>1, SubSeqEmpty
    <3> QED
      BY <1>1, <2>2, <3>1
  <2>5. k \in 1..n
    BY <1>1, <2>2, <2>3
  <2>6. next[k] \in 1..n + 1 /\ u[next[k]] = SubSeq(s, next[k], n)
    <3>1. next[k] \in 0..n + 1 /\ next[k] > 0 /\ ~(next[k] <= k)
      BY <1>1, <1>2, <2>5
    <3>2. next[k] \notin T
      BY <2>1, <3>1
    <3> QED
      BY <1>1, <3>1, <3>2
  <2>7. SubSeq(s, k, next[k] - 1) \o SubSeq(s, next[k], n) = SubSeq(s, k, n)
    <3>1. /\ k \in 1..n + 1 /\ next[k] - 1 \in k - 1..n /\ n \in next[k] - 1..n
          /\ (next[k] - 1) + 1 = next[k]
      BY <1>1, <1>2, <2>5
    <3> QED
      BY <3>1, ConcatAdjacentSubSeq
  <2> QED
    BY <1>1, <2>2, <2>5, <2>6, <2>7
<1>4. u[1] = SubSeq(s, 1, n)
  <2>1. 1 \in 0..n + 1
    BY <1>1
  <2> QED
    BY <1>3, <2>1
<1>5. SubSeq(s, 1, n) = s
  BY SubSeqFull
<1> QED
  BY <1>4, <1>5 DEF Output, u

\* Parts one after the other.
LEMMA JoinedLoop ==
  ASSUME NEW S, NEW parts \in Seq(Seq(S))
  PROVE  IsLoop(S, [k \in DOMAIN parts |-> k + 1], parts)
<1>1. DOMAIN parts = 1..Len(parts) /\ Len(parts) \in Nat
  BY LenProperties
<1> QED
  BY <1>1 DEF IsLoop

\* The bytes of a sequence one after the other are the sequence.
LEMMA JoinedBytes ==
  ASSUME NEW S, NEW s \in Seq(S)
  PROVE  Joined([k \in DOMAIN s |-> <<s[k]>>]) = s
<1> DEFINE parts == [k \in DOMAIN s |-> <<s[k]>>]
           next == [k \in DOMAIN parts |-> k + 1]
<1>1. Len(s) \in Nat /\ DOMAIN s = 1..Len(s) /\ \A k \in 1..Len(s) : s[k] \in S
  BY LenProperties, ElementOfSeq
<1>2. parts \in Seq(Seq(S)) /\ Len(parts) = Len(s)
  BY <1>1
<1>3. IsLoop(S, next, parts)
  BY <1>2, JoinedLoop
<1>4. ASSUME NEW k \in 1..Len(s) PROVE parts[k] = SubSeq(s, k, next[k] - 1)
  <2>1. next[k] - 1 = k /\ parts[k] = <<s[k]>>
    BY <1>1
  <2>2. SubSeq(s, k, k) = <<s[k]>>
    <3>1. /\ SubSeq(s, k, k) \in Seq(S) /\ Len(SubSeq(s, k, k)) = 1
          /\ SubSeq(s, k, k)[1] = s[k]
      <4>1. \A i \in k..k : s[i] \in S
        BY <1>1
      <4>2. /\ SubSeq(s, k, k) \in Seq(S) /\ Len(SubSeq(s, k, k)) = IF k <= k THEN k - k + 1 ELSE 0
            /\ \A i \in 1..k - k + 1 : SubSeq(s, k, k)[i] = s[k + i - 1]
        BY <4>1, k \in Int, SubSeqProperties
      <4> QED
        BY <4>2
    <3>2. <<s[k]>> \in Seq(S) /\ Len(<<s[k]>>) = 1 /\ <<s[k]>>[1] = s[k]
      BY <1>1
    <3>3. \A i \in 1..1 : SubSeq(s, k, k)[i] = <<s[k]>>[i]
      BY <3>1, <3>2
    <3> QED
      BY <3>1, <3>2, <3>3, SeqEqual, Zenon
  <2> QED
    BY <2>1, <2>2
<1> HIDE DEF parts, next
<1>5. Output(next, parts) = s
  BY <1>2, <1>3, <1>4, Copies
<1> QED
  BY <1>5 DEF Joined, parts, next

\* A generated text.
LEMMA UpToSeq ==
  ASSUME NEW S, NEW n \in Nat, NEW t \in UpTo(S, n)
  PROVE  t \in Seq(S) /\ Len(t) \in 0..n /\ DOMAIN t = 1..Len(t)
<1>1. PICK k \in 0..n : t \in [1..k -> S]
  BY DEF UpTo
<1>2. k \in Nat
  BY <1>1
<1>3. t \in Seq(S)
  BY <1>1, <1>2
<1>4. Len(t) = k
  BY <1>1, <1>2, <1>3, LenProperties
<1> QED
  BY <1>1, <1>2, <1>3, <1>4

\* A generated text of numbers, and what it is.
NumberText(S, n, t) == n \in Nat /\ t \in UpTo(S, n) /\ \A c \in S : c \in Nat
NumberSeq(S, t) ==
  /\ t \in Seq(Nat) /\ Len(t) \in Nat /\ DOMAIN t = 1..Len(t)
  /\ \A k \in 1..Len(t) : t[k] \in S

\* Such a text is a sequence of them.
LEMMA UpToNat ==
  ASSUME NEW S, NEW n, NEW t, NumberText(S, n, t)
  PROVE  NumberSeq(S, t)
<1>0. n \in Nat /\ t \in UpTo(S, n) /\ \A c \in S : c \in Nat
  BY DEF NumberText
<1>1. t \in Seq(S) /\ Len(t) \in 0..n /\ DOMAIN t = 1..Len(t)
  BY <1>0, UpToSeq, Zenon
<1>2. \A k \in 1..Len(t) : t[k] \in S
  BY <1>1, ElementOfSeq
<1>3. t \in Seq(Nat)
  BY <1>0, <1>1, <1>2
<1>4. Len(t) \in Nat
  BY <1>0, <1>1
<1> QED
  BY <1>1, <1>2, <1>3, <1>4 DEF NumberSeq

\* The length of two sequences one after the other.
LEMMA ConcatLen ==
  ASSUME NEW S, NEW a, NEW b, a \in Seq(S), b \in Seq(S)
  PROVE  a \o b \in Seq(S) /\ Len(a \o b) = Len(a) + Len(b)
BY ConcatProperties

\* A byte twice.
LEMMA Twice ==
  ASSUME NEW d, d \in Seq(Nat), Len(d) = 1
  PROVE  d \o d \in Seq(Nat) /\ Len(d \o d) = 2 /\ (d \o d)[1] = d[1] /\ (d \o d)[2] = d[1]
<1>1. /\ d \o d \in Seq(Nat) /\ Len(d \o d) = Len(d) + Len(d)
      /\ \A i \in 1..Len(d) + Len(d) : (d \o d)[i] = IF i <= Len(d) THEN d[i] ELSE d[i - Len(d)]
  BY ConcatProperties
<1> QED
  BY <1>1

\* What a loop writes is a sequence.
LEMMA OutputSeq ==
  ASSUME NEW S, NEW next, NEW outs, IsLoop(S, next, outs)
  PROVE  Output(next, outs) \in Seq(S)
<1>1. Writes(S, next, outs, Pass(next, outs))
  BY PassStep
<1>2. 1 \in 1..Len(outs) + 1
  BY <1>1 DEF Writes
<1> QED
  BY <1>1, <1>2 DEF Writes, Output

\* s holds a part from place p on, and after it the rest.
HoldsAt(s, p, part, rest) ==
  p \in Nat /\ p > 0 /\ rest \in Seq(Nat) /\ TailAt(s, p, part \o rest)

\* The elements of a part of s.
LEMMA HoldsPart ==
  ASSUME NEW s, NEW p, NEW part, NEW rest, part \in Seq(Nat), HoldsAt(s, p, part, rest)
  PROVE  p > 0 /\ CutAt(s, p, part, rest)
<1>1. p > 0 /\ rest \in Seq(Nat) /\ TailAt(s, p, part \o rest)
  BY DEF HoldsAt
<1> QED
  BY <1>1, TailAtCut, Zenon

\* A loop over s, which holds the parts one after the other, turns each into what it
\* means.
ReadsParts(parts, meant, s, next2, out2) ==
  \A k \in 1..Len(parts) : \A p, rest :
    /\ HoldsAt(s, p, parts[k], rest)
    /\ k = Len(parts) => rest = <<>>
    /\ k < Len(parts) => \E after \in Seq(Nat) : rest = parts[k + 1] \o after
    => /\ p <= Len(s)
       /\ next2[p] = p + Len(parts[k])
       /\ out2[p] = meant[k]

\* Such a loop writes the meanings one after the other.
LEMMA JoinedTurns ==
  ASSUME NEW parts \in Seq(Seq(Nat)), NEW meant \in Seq(Seq(Nat)), Len(meant) = Len(parts),
         NEW next2, NEW out2, IsLoop(Nat, next2, out2), Len(out2) = Len(Joined(parts)),
         ReadsParts(parts, meant, Joined(parts), next2, out2)
  PROVE  Output(next2, out2) = Joined(meant)
<1> DEFINE next == [k \in DOMAIN parts |-> k + 1]
           s == Joined(parts)
           u == Pass(next, parts)
<1>1. /\ Len(parts) \in Nat /\ DOMAIN parts = 1..Len(parts) /\ DOMAIN meant = 1..Len(parts)
      /\ \A k \in 1..Len(parts) : parts[k] \in Seq(Nat)
  BY LenProperties, ElementOfSeq
<1>2. IsLoop(Nat, next, parts) /\ IsLoop(Nat, next, meant)
  <2>1. next = [k \in DOMAIN meant |-> k + 1]
    BY <1>1
  <2> HIDE DEF next
  <2>2. IsLoop(Nat, next, meant)
    BY <2>1, JoinedLoop
  <2> QED
    BY <2>2, JoinedLoop DEF next
<1>3. s = Output(next, parts) /\ Joined(meant) = Output(next, meant)
  BY <1>1 DEF Joined
<1>4. Writes(Nat, next, parts, u)
  BY <1>2, PassStep
<1>5. \A k \in 1..Len(parts) : next[k] = k + 1
  BY <1>1
<1> HIDE DEF next, s, u
<1>6. ASSUME NEW k \in 1..Len(parts), NEW p \in Nat \ {0}, TailAt(s, p, u[k])
      PROVE  p <= Len(s) /\ next2[p] = p + Len(parts[k]) /\ out2[p] = meant[k]
  <2>1. u[k] = parts[k] \o u[k + 1] /\ u[k + 1] \in Seq(Nat)
    <3>1. k + 1 \in 1..Len(parts) + 1
      BY <1>1
    <3>2. u[k] = parts[k] \o u[next[k]] /\ u[k + 1] \in Seq(Nat)
      BY <1>4, <3>1 DEF Writes
    <3> QED
      BY <1>5, <3>2
  <2>2. k = Len(parts) => u[k + 1] = <<>>
    BY <1>4 DEF Writes
  <2>3. ASSUME k < Len(parts) PROVE \E after \in Seq(Nat) : u[k + 1] = parts[k + 1] \o after
    <3>1. k + 1 \in 1..Len(parts)
      BY <1>1, <2>3
    <3>2. k + 1 + 1 \in 1..Len(parts) + 1
      BY <1>1, <3>1
    <3>3. u[k + 1] = parts[k + 1] \o u[k + 1 + 1] /\ u[k + 1 + 1] \in Seq(Nat)
      BY <1>4, <1>5, <3>1, <3>2 DEF Writes
    <3> QED
      BY <3>3
  <2>4. HoldsAt(s, p, parts[k], u[k + 1])
    BY <1>6, <2>1 DEF HoldsAt
  <2> QED
    BY <2>1, <2>2, <2>3, <2>4, Zenon DEF ReadsParts, s
<1>7. Turns(next, parts, meant, s, next2, out2)
  BY <1>6 DEF Turns, u
<1>8. Output(next2, out2) = Output(next, meant)
  <2>1. Len(out2) = Len(Output(next, parts)) /\ Turns(next, parts, meant, Output(next, parts), next2, out2)
    BY <1>3, <1>7 DEF s
  <2> QED
    BY <1>2, <2>1, Transduce
<1> QED
  BY <1>3, <1>8

\* The loop of urldecode_ex.
UrlNext(s) == [k \in DOMAIN s |-> IF EscapeAt(s, k) THEN k + 3 ELSE k + 1]
UrlOut(s) == [k \in DOMAIN s |->
  IF EscapeAt(s, k) THEN <<16 * HEX_VALUE(s[k + 1]) + HEX_VALUE(s[k + 2])>>
  ELSE IF s[k] = PLUS THEN <<SP>> ELSE <<s[k]>>]

\* The two digits of a byte are read as the byte.
LEMMA HexRead ==
  ASSUME NEW c \in 0..255
  PROVE  /\ IS_HEX_CHAR(HexDigit(c \div 16)) /\ IS_HEX_CHAR(HexDigit(c % 16))
         /\ 16 * HEX_VALUE(HexDigit(c \div 16)) + HEX_VALUE(HexDigit(c % 16)) = c
         /\ HexDigit(c \div 16) \in Nat /\ HexDigit(c % 16) \in Nat
<1>1. /\ c \div 16 \in 0..15 /\ c % 16 \in 0..15
      /\ c = 16 * (c \div 16) + (c % 16)
  OBVIOUS
<1>2. ASSUME NEW d \in 0..15
      PROVE  IS_HEX_CHAR(HexDigit(d)) /\ HEX_VALUE(HexDigit(d)) = d /\ HexDigit(d) \in Nat
  BY DEF IS_HEX_CHAR, HEX_VALUE, HexDigit, tolower, Digit
<1> HIDE DEF IS_HEX_CHAR, HEX_VALUE, HexDigit
<1>3. HEX_VALUE(HexDigit(c \div 16)) = c \div 16 /\ HEX_VALUE(HexDigit(c % 16)) = c % 16
  BY <1>1, <1>2
<1> QED
  BY <1>1, <1>2, <1>3

\* The value of a digit is a number.
LEMMA HexNat ==
  ASSUME NEW c \in Nat, IS_HEX_CHAR(c)
  PROVE  HEX_VALUE(c) \in Nat
BY DEF IS_HEX_CHAR, HEX_VALUE, tolower, Digit

\* urldecode_ex goes on behind what it read.
LEMMA UrlLoop ==
  ASSUME NEW s \in Seq(Nat)
  PROVE  IsLoop(Nat, UrlNext(s), UrlOut(s)) /\ Len(UrlOut(s)) = Len(s)
<1>1. Len(s) \in Nat /\ DOMAIN s = 1..Len(s) /\ \A k \in 1..Len(s) : s[k] \in Nat
  BY LenProperties, ElementOfSeq
<1>2. ASSUME NEW k \in 1..Len(s), EscapeAt(s, k)
      PROVE  k + 2 <= Len(s) /\ 16 * HEX_VALUE(s[k + 1]) + HEX_VALUE(s[k + 2]) \in Nat
  <2>1. k + 2 <= Len(s) /\ IS_HEX_CHAR(s[k + 1]) /\ IS_HEX_CHAR(s[k + 2])
    BY <1>2 DEF EscapeAt
  <2>2. s[k + 1] \in Nat /\ s[k + 2] \in Nat
    BY <1>1, <2>1
  <2>3. HEX_VALUE(s[k + 1]) \in Nat /\ HEX_VALUE(s[k + 2]) \in Nat
    BY <2>1, <2>2, HexNat, Zenon
  <2> QED
    BY <2>1, <2>3, SMTT(40)
<1>3. ASSUME NEW k \in 1..Len(s)
      PROVE  /\ UrlOut(s)[k] \in Seq(Nat)
             /\ UrlNext(s)[k] \in Nat /\ k < UrlNext(s)[k] /\ UrlNext(s)[k] <= Len(s) + 1
  <2>1. CASE EscapeAt(s, k)
    <3>1. /\ UrlOut(s)[k] = <<16 * HEX_VALUE(s[k + 1]) + HEX_VALUE(s[k + 2])>>
          /\ UrlNext(s)[k] = k + 3
      BY <1>1, <2>1 DEF UrlOut, UrlNext
    <3> QED
      BY <1>1, <1>2, <2>1, <3>1
  <2>2. CASE ~EscapeAt(s, k)
    <3>1. /\ UrlOut(s)[k] = IF s[k] = PLUS THEN <<SP>> ELSE <<s[k]>>
          /\ UrlNext(s)[k] = k + 1
      BY <1>1, <2>2 DEF UrlOut, UrlNext
    <3> QED
      BY <1>1, <3>1 DEF SP
  <2> QED
    BY <2>1, <2>2
<1>4. DOMAIN UrlOut(s) = 1..Len(s)
  BY <1>1 DEF UrlOut
<1>5. UrlOut(s) \in [1..Len(s) -> Seq(Nat)]
  <2>1. UrlOut(s) = [k \in 1..Len(s) |-> UrlOut(s)[k]]
    BY <1>1 DEF UrlOut
  <2> QED
    BY <1>3, <2>1
<1>6. UrlOut(s) \in Seq(Seq(Nat)) /\ Len(UrlOut(s)) = Len(s)
  BY <1>1, <1>5
<1> QED
  BY <1>3, <1>6 DEF IsLoop

\* What urldecode_ex reads where an encoded byte stands.
LEMMA UrlByte ==
  ASSUME NEW s \in Seq(Nat), NEW p \in Nat \ {0}, NEW c \in 0..255
  PROVE  /\ p + 2 <= Len(s) /\ s[p] = PERCENT /\ s[p + 1] = HexDigit(c \div 16)
              /\ s[p + 2] = HexDigit(c % 16)
            => UrlNext(s)[p] = p + 3 /\ UrlOut(s)[p] = <<c>>
         /\ p <= Len(s) /\ c \notin MustEscape /\ s[p] = (IF c = SP THEN PLUS ELSE c)
            => UrlNext(s)[p] = p + 1 /\ UrlOut(s)[p] = <<c>>
<1>1. Len(s) \in Nat /\ DOMAIN s = 1..Len(s)
  BY LenProperties
<1>2. ASSUME p + 2 <= Len(s), s[p] = PERCENT, s[p + 1] = HexDigit(c \div 16),
             s[p + 2] = HexDigit(c % 16)
      PROVE  UrlNext(s)[p] = p + 3 /\ UrlOut(s)[p] = <<c>>
  <2>1. EscapeAt(s, p)
    BY <1>2, HexRead DEF EscapeAt
  <2>2. p \in DOMAIN s
    BY <1>1, <1>2
  <2>3. 16 * HEX_VALUE(s[p + 1]) + HEX_VALUE(s[p + 2]) = c
    BY <1>2, HexRead
  <2> QED
    BY <2>1, <2>2, <2>3 DEF UrlNext, UrlOut
<1>3. ASSUME p <= Len(s), c \notin MustEscape, s[p] = (IF c = SP THEN PLUS ELSE c)
      PROVE  UrlNext(s)[p] = p + 1 /\ UrlOut(s)[p] = <<c>>
  <2>1. s[p] # PERCENT /\ (s[p] = PLUS <=> c = SP) /\ (c # SP => s[p] = c)
    BY <1>3 DEF MustEscape, PERCENT, PLUS, SP
  <2>2. ~EscapeAt(s, p)
    BY <2>1 DEF EscapeAt
  <2>3. p \in DOMAIN s
    BY <1>1, <1>3
  <2> QED
    BY <2>1, <2>2, <2>3 DEF UrlNext, UrlOut
<1> QED
  BY <1>2, <1>3

\* A function on 1..n is a sequence of length n.
LEMMA FunSeq ==
  ASSUME NEW S, NEW n \in Nat, NEW f, f \in [1..n -> S]
  PROVE  f \in Seq(S) /\ Len(f) = n
OBVIOUS

\* The parts of an encoded text, and what they mean.
UrlParts(t, E) == [k \in DOMAIN t |-> IF k \in E THEN Escaped(t[k]) ELSE Plain(t[k])]
Bytes(t) == [k \in DOMAIN t |-> <<t[k]>>]
Encodes(t, E) ==
  /\ t \in Seq(Nat) /\ \A k \in 1..Len(t) : t[k] \in 0..255
  /\ \A k \in DOMAIN t : t[k] \in MustEscape => k \in E

\* One part of an encoded text.
LEMMA UrlPart ==
  ASSUME NEW t, NEW E, Encodes(t, E), NEW k \in 1..Len(t)
  PROVE  /\ UrlParts(t, E)[k] \in Seq(Nat) /\ Bytes(t)[k] \in Seq(Nat) /\ Bytes(t)[k] = <<t[k]>>
         /\ k \in E =>
              /\ Len(UrlParts(t, E)[k]) = 3 /\ UrlParts(t, E)[k][1] = PERCENT
              /\ UrlParts(t, E)[k][2] = HexDigit(t[k] \div 16)
              /\ UrlParts(t, E)[k][3] = HexDigit(t[k] % 16)
         /\ k \notin E =>
              /\ Len(UrlParts(t, E)[k]) = 1
              /\ UrlParts(t, E)[k][1] = IF t[k] = SP THEN PLUS ELSE t[k]
              /\ t[k] \notin MustEscape
<1> DEFINE a == UrlParts(t, E)[k]
<1>1. t[k] \in 0..255 /\ t[k] \in Nat /\ k \in DOMAIN t
  BY LenProperties DEF Encodes
<1>2. HexDigit(t[k] \div 16) \in Nat /\ HexDigit(t[k] % 16) \in Nat
  BY <1>1, HexRead
<1>3. Bytes(t)[k] = <<t[k]>>
  BY <1>1 DEF Bytes
<1>4. Bytes(t)[k] \in Seq(Nat)
  BY <1>1, <1>3
<1>5. ASSUME k \in E
      PROVE  /\ a \in Seq(Nat) /\ Len(a) = 3 /\ a[1] = PERCENT
             /\ a[2] = HexDigit(t[k] \div 16) /\ a[3] = HexDigit(t[k] % 16)
  <2>1. a = <<PERCENT, HexDigit(t[k] \div 16), HexDigit(t[k] % 16)>>
    BY <1>1, <1>5 DEF UrlParts, Escaped
  <2>2. PERCENT \in Nat
    BY DEF PERCENT
  <2> HIDE DEF a
  <2> QED
    BY <1>2, <2>1, <2>2
<1>6. ASSUME k \notin E
      PROVE  a \in Seq(Nat) /\ Len(a) = 1 /\ a[1] = IF t[k] = SP THEN PLUS ELSE t[k]
  <2>1. a = <<IF t[k] = SP THEN PLUS ELSE t[k]>>
    BY <1>1, <1>6 DEF UrlParts, Plain
  <2>2. PLUS \in Nat
    BY DEF PLUS
  <2> HIDE DEF a
  <2> QED
    BY <1>1, <2>1, <2>2
<1>7. k \notin E => t[k] \notin MustEscape
  BY <1>1 DEF Encodes
<1> HIDE DEF a
<1> QED
  BY <1>3, <1>4, <1>5, <1>6, <1>7 DEF a

\* urldecode_ex reads an encoded text byte by byte.
LEMMA UrlReads ==
  ASSUME NEW t, NEW E, Encodes(t, E), NEW s, s \in Seq(Nat)
  PROVE  ReadsParts(UrlParts(t, E), Bytes(t), s, UrlNext(s), UrlOut(s))
<1> DEFINE parts == UrlParts(t, E)
<1>1. Len(t) \in Nat /\ Len(parts) = Len(t) /\ \A k \in 1..Len(t) : t[k] \in 0..255
  <2>1. Len(t) \in Nat /\ DOMAIN t = 1..Len(t) /\ \A k \in 1..Len(t) : t[k] \in 0..255
    BY LenProperties DEF Encodes
  <2>2. DOMAIN parts = 1..Len(t)
    BY <2>1 DEF UrlParts
  <2>3. Len(parts) = Len(t)
    BY <2>1, <2>2 DEF UrlParts
  <2> QED
    BY <2>1, <2>3
<1> SUFFICES ASSUME NEW k \in 1..Len(parts), NEW p, NEW rest, HoldsAt(s, p, parts[k], rest)
             PROVE  /\ p <= Len(s) /\ UrlNext(s)[p] = p + Len(parts[k])
                    /\ UrlOut(s)[p] = Bytes(t)[k]
  BY DEF ReadsParts
<1>2. k \in 1..Len(t) /\ t[k] \in 0..255
  BY <1>1
<1>3. /\ parts[k] \in Seq(Nat) /\ Bytes(t)[k] = <<t[k]>>
      /\ k \in E => /\ Len(parts[k]) = 3 /\ parts[k][1] = PERCENT
                    /\ parts[k][2] = HexDigit(t[k] \div 16) /\ parts[k][3] = HexDigit(t[k] % 16)
      /\ k \notin E => /\ Len(parts[k]) = 1 /\ t[k] \notin MustEscape
                       /\ parts[k][1] = IF t[k] = SP THEN PLUS ELSE t[k]
  BY <1>2, UrlPart, SMTT(40)
<1> HIDE DEF parts
<1>4. /\ p \in Nat /\ p > 0 /\ Len(rest) \in Nat /\ Len(s) = p - 1 + Len(parts[k]) + Len(rest)
      /\ \A i \in 1..Len(parts[k]) : s[p + i - 1] = parts[k][i]
  <2>1. parts[k] \in Seq(Nat)
    BY <1>3
  <2>2. p > 0 /\ CutAt(s, p, parts[k], rest)
    BY <2>1, HoldsPart, Zenon
  <2> QED
    BY <2>2 DEF CutAt
<1>5. CASE k \in E
  <2>0. Len(parts[k]) = 3
    BY <1>3, <1>5
  <2>1. s[p + 1 - 1] = parts[k][1] /\ s[p + 2 - 1] = parts[k][2] /\ s[p + 3 - 1] = parts[k][3]
    <3>1. 1 \in 1..Len(parts[k]) /\ 2 \in 1..Len(parts[k]) /\ 3 \in 1..Len(parts[k])
      BY <2>0
    <3> QED
      BY <1>4, <3>1, Zenon
  <2>2. p + 2 <= Len(s) /\ p <= Len(s)
    BY <1>4, <2>0, SMTT(40)
  <2>3. s[p] = parts[k][1] /\ s[p + 1] = parts[k][2] /\ s[p + 2] = parts[k][3]
    <3>1. p + 1 - 1 = p /\ p + 2 - 1 = p + 1 /\ p + 3 - 1 = p + 2
      BY <1>4
    <3> QED
      BY <2>1, <3>1
  <2>4. UrlNext(s)[p] = p + 3 /\ UrlOut(s)[p] = <<t[k]>>
    <3>1. /\ s[p] = PERCENT /\ s[p + 1] = HexDigit(t[k] \div 16)
          /\ s[p + 2] = HexDigit(t[k] % 16) /\ p \in Nat \ {0}
      BY <1>3, <1>4, <1>5, <2>3
    <3> QED
      BY <1>2, <2>2, <3>1, UrlByte, Zenon
  <2> QED
    BY <1>3, <2>0, <2>2, <2>4
<1>6. CASE k \notin E
  <2>0. Len(parts[k]) = 1
    BY <1>3, <1>6
  <2>1. s[p + 1 - 1] = parts[k][1]
    BY <1>4, <2>0
  <2>2. p <= Len(s) /\ s[p] = parts[k][1]
    BY <1>4, <2>0, <2>1
  <2>3. UrlNext(s)[p] = p + 1 /\ UrlOut(s)[p] = <<t[k]>>
    <3>1. /\ s[p] = (IF t[k] = SP THEN PLUS ELSE t[k])
          /\ t[k] \notin MustEscape /\ p \in Nat \ {0}
      BY <1>3, <1>4, <1>6, <2>2
    <3> QED
      BY <1>2, <2>2, <3>1, UrlByte, Zenon
  <2> QED
    BY <1>3, <2>0, <2>2, <2>3
<1> QED
  BY <1>5, <1>6

\* Decoding gives the text of which one of its encodings is decoded.
LEMMA UrlDecodes ==
  ASSUME NEW t, NEW E, Encodes(t, E)
  PROVE  urldecode_ex(Encoded(t, E)) = t
<1> DEFINE parts == UrlParts(t, E)
           s == Joined(parts)
<1>1. Len(t) \in Nat /\ DOMAIN t = 1..Len(t) /\ t \in Seq(Nat)
  BY LenProperties DEF Encodes
<1>2. /\ parts \in Seq(Seq(Nat)) /\ Len(parts) = Len(t)
      /\ Bytes(t) \in Seq(Seq(Nat)) /\ Len(Bytes(t)) = Len(t)
  <2>1. parts = [k \in 1..Len(t) |-> parts[k]] /\ Bytes(t) = [k \in 1..Len(t) |-> Bytes(t)[k]]
    BY <1>1 DEF UrlParts, Bytes
  <2>2. \A k \in 1..Len(t) : parts[k] \in Seq(Nat) /\ Bytes(t)[k] \in Seq(Nat)
    BY UrlPart
  <2> HIDE DEF parts
  <2>3. parts \in [1..Len(t) -> Seq(Nat)] /\ Bytes(t) \in [1..Len(t) -> Seq(Nat)]
    BY <2>1, <2>2
  <2> QED
    BY <1>1, <2>3, FunSeq
<1>3. s = Encoded(t, E)
  BY DEF Encoded, UrlParts
<1>4. Joined(Bytes(t)) = t
  BY <1>1, JoinedBytes DEF Bytes
<1>5. s \in Seq(Nat)
  <2>1. IsLoop(Nat, [k \in DOMAIN parts |-> k + 1], parts)
    BY <1>2, JoinedLoop
  <2> QED
    BY <2>1, OutputSeq DEF Joined
<1> HIDE DEF s
<1>6. IsLoop(Nat, UrlNext(s), UrlOut(s)) /\ Len(UrlOut(s)) = Len(s)
  BY <1>5, UrlLoop
<1>7. ReadsParts(parts, Bytes(t), s, UrlNext(s), UrlOut(s))
  BY <1>5, UrlReads
<1> HIDE DEF parts
<1>8. Output(UrlNext(s), UrlOut(s)) = Joined(Bytes(t))
  <2>1. Len(UrlOut(s)) = Len(Joined(parts)) /\ Len(Bytes(t)) = Len(parts)
    BY <1>2, <1>6 DEF s
  <2>2. ReadsParts(parts, Bytes(t), Joined(parts), UrlNext(s), UrlOut(s))
    BY <1>7 DEF s
  <2> QED
    BY <1>2, <1>6, <2>1, <2>2, JoinedTurns
<1>9. urldecode_ex(s) = Output(UrlNext(s), UrlOut(s))
  BY DEF urldecode_ex, UrlNext, UrlOut
<1> QED
  BY <1>3, <1>4, <1>8, <1>9

\* What hp_urldecode returns.
LEMMA UrldecodeRight ==
  ASSUME StringsAssumption, CallUrldecode
  PROVE  StringsRight'
<1>1. PICK t \in UpTo(UrlBytes, MaxText) :
        \E E \in SUBSET DOMAIN t :
          /\ \A k \in DOMAIN t : t[k] \in MustEscape => k \in E
          /\ Returns("urldecode", t, urldecode_ex(Encoded(t, E)))
  BY DEF CallUrldecode
<1>2. PICK E \in SUBSET DOMAIN t :
        /\ \A k \in DOMAIN t : t[k] \in MustEscape => k \in E
        /\ Returns("urldecode", t, urldecode_ex(Encoded(t, E)))
  BY <1>1
<1>3. t \in Seq(Nat) /\ \A k \in 1..Len(t) : t[k] \in 0..255
  <2>1. MaxText \in Nat /\ UrlBytes \subseteq Nat /\ UrlBytes \subseteq 0..255
    BY DEF StringsAssumption
  <2>2. NumberText(UrlBytes, MaxText, t)
    BY <2>1 DEF NumberText
  <2>3. NumberSeq(UrlBytes, t)
    BY <2>2, UpToNat, Zenon
  <2> QED
    BY <2>1, <2>3 DEF NumberSeq
<1>4. urldecode_ex(Encoded(t, E)) = t
  BY <1>2, <1>3, UrlDecodes DEF Encodes
<1>5. text' = [fn |-> "urldecode", in |-> t, ret |-> t]
  BY <1>2, <1>4 DEF Returns
<1> QED
  BY <1>5 DEF StringsRight, UrlRoundTrip, ReplacedAll, VersionsOrdered, DumpPrints, SizesFit,
              VarsExpand, CompressedFits

\* The loop of hp_str_replace.
ReplaceNext(search, s) == [k \in DOMAIN s |-> NextMatch(search, k, s)]
ReplaceOut(search, replace, s) ==
  [k \in DOMAIN s |-> IF At(search, k, s) THEN replace ELSE <<s[k]>>]

\* x stands in s from place k on.
Match(x, k, s) ==
  k + Len(x) - 1 <= Len(s) /\ \A i \in 1..Len(x) : s[k + i - 1] = x[i]

\* A match, byte by byte.
LEMMA MatchIs ==
  ASSUME NEW x, NEW k, NEW s, x \in Seq(Nat), s \in Seq(Nat), k \in Nat, k > 0
  PROVE  At(x, k, s) <=> Match(x, k, s)
<1>1. Len(x) \in Nat /\ Len(s) \in Nat /\ \A j \in 1..Len(s) : s[j] \in Nat
  BY LenProperties, ElementOfSeq
<1>2. ASSUME k + Len(x) - 1 <= Len(s)
      PROVE  SubSeq(s, k, k + Len(x) - 1) = x <=> \A i \in 1..Len(x) : s[k + i - 1] = x[i]
  <2> DEFINE m == k + Len(x) - 1
             y == SubSeq(s, k, m)
  <2>1. m \in Int /\ k \in Int /\ \A i \in k..m : s[i] \in Nat
    BY <1>1, <1>2
  <2>2. m - k + 1 = Len(x) /\ (IF k <= m THEN m - k + 1 ELSE 0) = Len(x)
    BY <1>1
  <2> HIDE DEF m
  <2>3. y \in Seq(Nat) /\ Len(y) = Len(x) /\ \A i \in 1..Len(x) : y[i] = s[k + i - 1]
    <3>1. /\ y \in Seq(Nat) /\ Len(y) = IF k <= m THEN m - k + 1 ELSE 0
          /\ \A i \in 1..m - k + 1 : y[i] = s[k + i - 1]
      BY <2>1, SubSeqProperties
    <3> HIDE DEF y
    <3> QED
      BY <2>2, <3>1
  <2> HIDE DEF y
  <2>4. y = x => \A i \in 1..Len(x) : s[k + i - 1] = x[i]
    BY <2>3
  <2>5. ASSUME \A i \in 1..Len(x) : s[k + i - 1] = x[i] PROVE y = x
    <3>1. \A i \in 1..Len(y) : y[i] = x[i]
      BY <2>3, <2>5
    <3> QED
      BY <2>3, <3>1, SeqEqual, Zenon
  <2> QED
    BY <2>4, <2>5 DEF y, m
<1> QED
  BY <1>2 DEF At, Match

\* The search text is not empty, and shares no byte with the replacement.
Replaces(search, replace, s) ==
  /\ search \in Seq(Nat) /\ replace \in Seq(Nat) /\ s \in Seq(Nat)
  /\ Len(search) > 0 /\ Len(replace) > 0

\* The steps of the loop.
ReplaceSteps(x, r, s) ==
  /\ Len(s) \in Nat
  /\ IsLoop(Nat, ReplaceNext(x, s), ReplaceOut(x, r, s)) /\ Len(ReplaceOut(x, r, s)) = Len(s)
  /\ \A k \in 1..Len(s) :
       /\ ReplaceOut(x, r, s)[k] = IF At(x, k, s) THEN r ELSE <<s[k]>>
       /\ ReplaceNext(x, s)[k] = IF At(x, k, s) THEN k + Len(x) ELSE k + 1

\* hp_str_replace goes on behind what it replaced or copied.
LEMMA ReplaceLoop ==
  ASSUME NEW x, NEW r, NEW s, Replaces(x, r, s)
  PROVE  ReplaceSteps(x, r, s)
<1>1. /\ Len(s) \in Nat /\ DOMAIN s = 1..Len(s) /\ \A k \in 1..Len(s) : s[k] \in Nat
      /\ r \in Seq(Nat) /\ Len(x) \in Nat /\ Len(x) > 0
  BY LenProperties, ElementOfSeq DEF Replaces
<1>2. ASSUME NEW k \in 1..Len(s)
      PROVE  /\ ReplaceOut(x, r, s)[k] = IF At(x, k, s) THEN r ELSE <<s[k]>>
             /\ ReplaceNext(x, s)[k] = IF At(x, k, s) THEN k + Len(x) ELSE k + 1
  BY <1>1 DEF ReplaceOut, ReplaceNext, NextMatch
<1>3. ASSUME NEW k \in 1..Len(s)
      PROVE  /\ ReplaceOut(x, r, s)[k] \in Seq(Nat)
             /\ ReplaceNext(x, s)[k] \in Nat /\ k < ReplaceNext(x, s)[k]
             /\ ReplaceNext(x, s)[k] <= Len(s) + 1
  <2>1. s[k] \in Nat /\ k \in Nat
    BY <1>1
  <2>2. <<s[k]>> \in Seq(Nat)
    BY <2>1
  <2>3. At(x, k, s) => k + Len(x) - 1 <= Len(s)
    BY DEF At
  <2>4. ReplaceOut(x, r, s)[k] \in Seq(Nat)
    BY <1>1, <1>2, <2>2
  <2>5. ReplaceNext(x, s)[k] = IF At(x, k, s) THEN k + Len(x) ELSE k + 1
    BY <1>2
  <2>6. k <= Len(s) /\ Len(s) \in Nat /\ Len(x) \in Nat /\ Len(x) > 0
    BY <1>1
  <2>7. CASE At(x, k, s)
    BY <2>1, <2>3, <2>4, <2>5, <2>6, <2>7
  <2>8. CASE ~At(x, k, s)
    BY <2>1, <2>4, <2>5, <2>6, <2>8
  <2> QED
    BY <2>7, <2>8
<1>4. ReplaceOut(x, r, s) \in Seq(Seq(Nat)) /\ Len(ReplaceOut(x, r, s)) = Len(s)
  <2>1. ReplaceOut(x, r, s) = [k \in 1..Len(s) |-> ReplaceOut(x, r, s)[k]]
    BY <1>1 DEF ReplaceOut
  <2>2. ReplaceOut(x, r, s) \in [1..Len(s) -> Seq(Nat)]
    BY <1>3, <2>1
  <2> QED
    BY <1>1, <2>2, FunSeq
<1>5. IsLoop(Nat, ReplaceNext(x, s), ReplaceOut(x, r, s))
  BY <1>3, <1>4 DEF IsLoop
<1> QED
  BY <1>1, <1>2, <1>4, <1>5 DEF ReplaceSteps

\* One byte of a sequence.
LEMMA SubSeqOne ==
  ASSUME NEW s, s \in Seq(Nat), NEW k \in 1..Len(s)
  PROVE  SubSeq(s, k, k) = <<s[k]>>
<1>1. s[k] \in Nat /\ k \in Int
  BY LenProperties, ElementOfSeq
<1>2. \A i \in k..k : s[i] \in Nat
  BY <1>1
<1>3. /\ SubSeq(s, k, k) \in Seq(Nat) /\ Len(SubSeq(s, k, k)) = IF k <= k THEN k - k + 1 ELSE 0
      /\ \A i \in 1..k - k + 1 : SubSeq(s, k, k)[i] = s[k + i - 1]
  BY <1>1, <1>2, SubSeqProperties
<1>4. SubSeq(s, k, k) \in Seq(Nat) /\ Len(SubSeq(s, k, k)) = 1 /\ SubSeq(s, k, k)[1] = s[k]
  BY <1>1, <1>3
<1>5. <<s[k]>> \in Seq(Nat) /\ Len(<<s[k]>>) = 1 /\ <<s[k]>>[1] = s[k]
  BY <1>1
<1>6. \A i \in 1..1 : SubSeq(s, k, k)[i] = <<s[k]>>[i]
  BY <1>4, <1>5
<1> QED
  BY <1>4, <1>5, <1>6, SeqEqual, Zenon

\* The replacement has no byte of the search text or of the subject.
Foreign(x, r, s) ==
  /\ Replaces(x, r, s)
  /\ \A i \in 1..Len(x), j \in 1..Len(r) : x[i] # r[j]
  /\ \A i \in 1..Len(s) : s[i] # r[1]

\* Replacing a match by itself changes nothing.
LEMMA ReplaceItself ==
  ASSUME NEW x, NEW r, NEW s, Replaces(x, r, s)
  PROVE  /\ IsLoop(Nat, ReplaceNext(x, s), ReplaceOut(x, x, s))
         /\ Len(ReplaceOut(x, x, s)) = Len(s)
         /\ Output(ReplaceNext(x, s), ReplaceOut(x, x, s)) = s
<1>1. Replaces(x, x, s)
  BY DEF Replaces
<1>2. /\ Len(s) \in Nat
      /\ IsLoop(Nat, ReplaceNext(x, s), ReplaceOut(x, x, s)) /\ Len(ReplaceOut(x, x, s)) = Len(s)
      /\ \A k \in 1..Len(s) :
           /\ ReplaceOut(x, x, s)[k] = IF At(x, k, s) THEN x ELSE <<s[k]>>
           /\ ReplaceNext(x, s)[k] = IF At(x, k, s) THEN k + Len(x) ELSE k + 1
  <2>1. ReplaceSteps(x, x, s)
    BY <1>1, ReplaceLoop
  <2> QED
    BY <2>1, Zenon DEF ReplaceSteps
<1>3. s \in Seq(Nat) /\ x \in Seq(Nat) /\ Len(x) \in Nat
  BY LenProperties DEF Replaces
<1>4. ASSUME NEW k \in 1..Len(s)
      PROVE  ReplaceOut(x, x, s)[k] = SubSeq(s, k, ReplaceNext(x, s)[k] - 1)
  <2>1. CASE At(x, k, s)
    <3>1. SubSeq(s, k, k + Len(x) - 1) = x
      BY <2>1 DEF At
    <3>2. ReplaceNext(x, s)[k] = k + Len(x) /\ ReplaceOut(x, x, s)[k] = x
      BY <1>2, <2>1
    <3> QED
      BY <3>1, <3>2
  <2>2. CASE ~At(x, k, s)
    <3>1. SubSeq(s, k, k) = <<s[k]>>
      BY <1>3, SubSeqOne
    <3>2. ReplaceNext(x, s)[k] = k + 1 /\ ReplaceOut(x, x, s)[k] = <<s[k]>>
      BY <1>2, <2>2
    <3>3. k + 1 - 1 = k
      BY <1>2
    <3> QED
      BY <3>1, <3>2, <3>3
  <2> QED
    BY <2>1, <2>2
<1>5. Output(ReplaceNext(x, s), ReplaceOut(x, x, s)) = s
  BY <1>2, <1>3, <1>4, Copies, Zenon
<1> QED
  BY <1>2, <1>5

\* What the loop that puts x back does at place p of t, where place k was written.
PutBack(x, r, s, t, k, p) ==
  /\ p <= Len(t)
  /\ ReplaceNext(r, t)[p] = p + Len(ReplaceOut(x, r, s)[k])
  /\ ReplaceOut(r, x, t)[p] = ReplaceOut(x, x, s)[k]

\* Where the replacement, or a byte that was kept, stands in what was returned.
LEMMA ReplaceTurns ==
  ASSUME NEW x, NEW r, NEW s, Foreign(x, r, s), NEW t, t \in Seq(Nat),
         NEW k \in 1..Len(s), NEW p, NEW rest, HoldsAt(t, p, ReplaceOut(x, r, s)[k], rest)
  PROVE  PutBack(x, r, s, t, k, p)
<1> DEFINE a == ReplaceOut(x, r, s)[k]
<1>1. Replaces(x, r, s) /\ Replaces(x, x, s) /\ Replaces(r, x, t)
  BY DEF Foreign, Replaces
<1>2. /\ a = IF At(x, k, s) THEN r ELSE <<s[k]>>
      /\ ReplaceOut(x, x, s)[k] = IF At(x, k, s) THEN x ELSE <<s[k]>>
  BY <1>1, ReplaceLoop DEF ReplaceSteps
<1>3. /\ r \in Seq(Nat) /\ Len(r) \in Nat /\ Len(r) > 0 /\ s[k] \in Nat /\ Len(t) \in Nat
      /\ s[k] # r[1]
  <2>1. s \in Seq(Nat) /\ r \in Seq(Nat) /\ Len(r) > 0
    BY <1>1 DEF Replaces
  <2>2. Len(r) \in Nat /\ Len(t) \in Nat /\ s[k] \in Nat
    BY <2>1, LenProperties, ElementOfSeq
  <2> QED
    BY <2>1, <2>2 DEF Foreign
<1>4. a \in Seq(Nat)
  <2>1. <<s[k]>> \in Seq(Nat)
    BY <1>3
  <2> QED
    BY <1>2, <1>3, <2>1
<1>5. /\ p \in Nat /\ p > 0 /\ Len(a) \in Nat /\ Len(rest) \in Nat
      /\ Len(t) = p - 1 + Len(a) + Len(rest)
      /\ \A i \in 1..Len(a) : t[p + i - 1] = a[i]
  <2>1. p > 0 /\ CutAt(t, p, a, rest)
    BY <1>4, HoldsPart, Zenon
  <2> HIDE DEF a
  <2> QED
    BY <2>1 DEF CutAt
<1> HIDE DEF a
<1>6. p <= Len(t) => /\ ReplaceOut(r, x, t)[p] = IF At(r, p, t) THEN x ELSE <<t[p]>>
                     /\ ReplaceNext(r, t)[p] = IF At(r, p, t) THEN p + Len(r) ELSE p + 1
  <2>1. p <= Len(t) => p \in 1..Len(t)
    BY <1>3, <1>5
  <2>2. ReplaceSteps(r, x, t)
    BY <1>1, ReplaceLoop, Zenon
  <2> QED
    BY <2>1, <2>2 DEF ReplaceSteps
<1>7. At(r, p, t) <=> p + Len(r) - 1 <= Len(t) /\ \A i \in 1..Len(r) : t[p + i - 1] = r[i]
  <2>1. At(r, p, t) <=> Match(r, p, t)
    BY <1>3, <1>5, MatchIs, Zenon
  <2> QED
    BY <2>1 DEF Match
<1>8. CASE At(x, k, s)
  <2>1. a = r /\ ReplaceOut(x, x, s)[k] = x
    BY <1>2, <1>8
  <2>2. At(r, p, t) /\ p <= Len(t)
    BY <1>3, <1>5, <1>7, <2>1
  <2> QED
    BY <1>6, <2>1, <2>2 DEF a, PutBack
<1>9. CASE ~At(x, k, s)
  <2>1. a = <<s[k]>> /\ ReplaceOut(x, x, s)[k] = <<s[k]>>
    BY <1>2, <1>9
  <2>2. Len(a) = 1 /\ a[1] = s[k]
    BY <2>1
  <2>3. p <= Len(t) /\ t[p] = s[k]
    <3>1. t[p + 1 - 1] = a[1] /\ p + 1 - 1 = p
      BY <1>5, <2>2
    <3> QED
      BY <1>5, <2>2, <3>1
  <2>4. ~At(r, p, t)
    <3> SUFFICES ASSUME At(r, p, t) PROVE FALSE
      OBVIOUS
    <3>1. t[p + 1 - 1] = r[1] /\ p + 1 - 1 = p
      BY <1>3, <1>5, <1>7
    <3> QED
      BY <1>3, <2>3, <3>1
  <2> QED
    BY <1>6, <2>1, <2>2, <2>3, <2>4 DEF a, PutBack
<1> QED
  BY <1>8, <1>9

\* Putting the search text back for the replacement gives the subject.
LEMMA ReplaceBack ==
  ASSUME NEW x, NEW r, NEW s, Foreign(x, r, s)
  PROVE  hp_str_replace(r, x, hp_str_replace(x, r, s)) = s
<1> DEFINE next == ReplaceNext(x, s)
           outs == ReplaceOut(x, r, s)
           t == Output(next, outs)
           u == Pass(next, outs)
<1>1. Replaces(x, r, s)
  BY DEF Foreign
<1>2. /\ Len(s) \in Nat /\ IsLoop(Nat, next, outs) /\ Len(outs) = Len(s)
      /\ \A k \in 1..Len(s) : next[k] = IF At(x, k, s) THEN k + Len(x) ELSE k + 1
  <2>1. ReplaceSteps(x, r, s)
    BY <1>1, ReplaceLoop
  <2> QED
    BY <2>1, Zenon DEF ReplaceSteps
<1>3. /\ IsLoop(Nat, next, ReplaceOut(x, x, s)) /\ Len(ReplaceOut(x, x, s)) = Len(s)
      /\ Output(next, ReplaceOut(x, x, s)) = s
  BY <1>1, ReplaceItself
<1>4. t \in Seq(Nat)
  BY <1>2, OutputSeq
<1>5. IsLoop(Nat, ReplaceNext(r, t), ReplaceOut(r, x, t)) /\ Len(ReplaceOut(r, x, t)) = Len(t)
  <2>1. Replaces(r, x, t)
    BY <1>1, <1>4 DEF Replaces
  <2> HIDE DEF t
  <2> QED
    BY <2>1, ReplaceLoop DEF ReplaceSteps
<1>6. Writes(Nat, next, outs, u)
  BY <1>2, PassStep
<1> HIDE DEF next, outs, t, u
<1>7. ASSUME NEW k \in 1..Len(outs), NEW p \in Nat \ {0}, TailAt(t, p, u[k])
      PROVE  /\ p <= Len(t) /\ ReplaceNext(r, t)[p] = p + Len(outs[k])
             /\ ReplaceOut(r, x, t)[p] = ReplaceOut(x, x, s)[k]
  <2>1. next[k] \in 1..Len(outs) + 1
    BY <1>2 DEF IsLoop
  <2>2. u[k] = outs[k] \o u[next[k]] /\ u[next[k]] \in Seq(Nat)
    BY <1>6, <2>1 DEF Writes
  <2>3. HoldsAt(t, p, outs[k], u[next[k]])
    BY <1>7, <2>2 DEF HoldsAt
  <2>4. k \in 1..Len(s)
    BY <1>2
  <2>5. PutBack(x, r, s, t, k, p)
    BY <1>4, <2>3, <2>4, ReplaceTurns, Zenon DEF outs
  <2> QED
    BY <2>5 DEF PutBack, outs
<1>8. Turns(next, outs, ReplaceOut(x, x, s), t, ReplaceNext(r, t), ReplaceOut(r, x, t))
  BY <1>7 DEF Turns, u
<1>9. Output(ReplaceNext(r, t), ReplaceOut(r, x, t)) = Output(next, ReplaceOut(x, x, s))
  <2>1. /\ Len(ReplaceOut(r, x, t)) = Len(Output(next, outs))
        /\ Turns(next, outs, ReplaceOut(x, x, s), Output(next, outs), ReplaceNext(r, t), ReplaceOut(r, x, t))
        /\ Len(ReplaceOut(x, x, s)) = Len(outs)
    BY <1>2, <1>3, <1>5, <1>8 DEF t
  <2> QED
    BY <1>2, <1>3, <1>5, <2>1, Transduce
<1>10. /\ hp_str_replace(x, r, s) = t
       /\ hp_str_replace(r, x, t) = Output(ReplaceNext(r, t), ReplaceOut(r, x, t))
  BY DEF hp_str_replace, ReplaceNext, ReplaceOut, t, next, outs
<1> QED
  BY <1>3, <1>9, <1>10

\* From place k of the subject on, what is written begins with what stands there, as far
\* as no replacement is in it.
RunFrom(r, s, u, k) ==
  \A m \in Nat :
    m <= Len(u[k]) /\ (\A i \in 1..m : u[k][i] # r[1]) =>
      k + m - 1 <= Len(s) /\ \A i \in 1..m : s[k + i - 1] = u[k][i]

\* One step of that.
LEMMA RunStep ==
  ASSUME NEW x, NEW r, NEW s, Foreign(x, r, s), NEW u,
         Writes(Nat, ReplaceNext(x, s), ReplaceOut(x, r, s), u),
         NEW k \in 1..Len(s),
         ~At(x, k, s) => RunFrom(r, s, u, k + 1)
  PROVE  RunFrom(r, s, u, k)
<1> DEFINE a == ReplaceOut(x, r, s)[k]
           v == u[ReplaceNext(x, s)[k]]
<1>1. /\ Len(s) \in Nat /\ Len(ReplaceOut(x, r, s)) = Len(s)
      /\ a = IF At(x, k, s) THEN r ELSE <<s[k]>>
      /\ ReplaceNext(x, s)[k] = IF At(x, k, s) THEN k + Len(x) ELSE k + 1
      /\ ReplaceNext(x, s)[k] \in 1..Len(s) + 1
      /\ r \in Seq(Nat) /\ Len(r) \in Nat /\ Len(r) > 0 /\ s[k] \in Nat
  <2>1. Replaces(x, r, s)
    BY DEF Foreign
  <2>2. ReplaceSteps(x, r, s)
    BY <2>1, ReplaceLoop
  <2>3. Len(s) \in Nat /\ Len(ReplaceOut(x, r, s)) = Len(s)
    BY <2>2 DEF ReplaceSteps
  <2>4. ReplaceNext(x, s)[k] \in 1..Len(s) + 1
    BY <2>2, <2>3 DEF ReplaceSteps, IsLoop
  <2>5. /\ r \in Seq(Nat) /\ Len(r) > 0 /\ s \in Seq(Nat)
    BY <2>1 DEF Replaces
  <2>6. Len(r) \in Nat /\ s[k] \in Nat
    BY <2>5, LenProperties, ElementOfSeq
  <2> QED
    BY <2>2, <2>3, <2>4, <2>5, <2>6 DEF ReplaceSteps
<1>2. u[k] = a \o v /\ v \in Seq(Nat)
  BY <1>1 DEF Writes
<1>3. a \in Seq(Nat)
  <2>1. <<s[k]>> \in Seq(Nat)
    BY <1>1
  <2> QED
    BY <1>1, <2>1
<1> HIDE DEF a, v
<1>4. /\ Len(a) \in Nat /\ Len(v) \in Nat /\ Len(u[k]) = Len(a) + Len(v)
      /\ \A i \in 1..Len(a) + Len(v) : u[k][i] = IF i <= Len(a) THEN a[i] ELSE v[i - Len(a)]
  BY <1>2, <1>3, LenProperties, ConcatProperties
<1> SUFFICES ASSUME NEW m \in Nat, m <= Len(u[k]), \A i \in 1..m : u[k][i] # r[1]
             PROVE  k + m - 1 <= Len(s) /\ \A i \in 1..m : s[k + i - 1] = u[k][i]
  BY DEF RunFrom
<1>5. CASE m = 0
  BY <1>1, <1>5
<1>6. CASE m # 0 /\ At(x, k, s)
  <2>1. 1 \in 1..m /\ 1 \in 1..Len(a) + Len(v) /\ 1 <= Len(a) /\ a = r
    BY <1>1, <1>4, <1>6
  <2>2. u[k][1] = r[1]
    BY <1>4, <2>1
  <2> QED
    BY <2>1, <2>2
<1>7. CASE m # 0 /\ ~At(x, k, s)
  <2>1. a = <<s[k]>> /\ Len(a) = 1 /\ a[1] = s[k] /\ v = u[k + 1]
    BY <1>1, <1>7 DEF v
  <2>2. \A i \in 1..m - 1 : v[i] = u[k][i + 1] /\ i + 1 \in 1..m
    <3> SUFFICES ASSUME NEW i \in 1..m - 1 PROVE v[i] = u[k][i + 1] /\ i + 1 \in 1..m
      OBVIOUS
    <3>1. i + 1 \in 1..Len(a) + Len(v) /\ ~(i + 1 <= Len(a)) /\ i + 1 - Len(a) = i
      BY <1>4, <1>7, <2>1
    <3>2. u[k][i + 1] = v[i]
      <4> DEFINE q == i + 1
      <4>1. q \in 1..Len(a) + Len(v) /\ ~(q <= Len(a)) /\ q - Len(a) = i
        BY <3>1
      <4> HIDE DEF q
      <4>2. u[k][q] = v[q - Len(a)]
        BY <1>4, <4>1
      <4> QED
        BY <4>1, <4>2, Zenon DEF q
    <3>3. i + 1 \in 1..m
      BY <1>7
    <3> QED
      BY <3>2, <3>3
  <2>3. m - 1 \in Nat /\ m - 1 <= Len(v) /\ \A i \in 1..m - 1 : v[i] # r[1]
    BY <1>4, <1>7, <2>1, <2>2
  <2>4. k + 1 + (m - 1) - 1 <= Len(s) /\ \A i \in 1..m - 1 : s[k + 1 + i - 1] = v[i]
    BY <1>7, <2>1, <2>3 DEF RunFrom
  <2>5. ASSUME NEW i \in 1..m PROVE s[k + i - 1] = u[k][i]
    <3>1. CASE i = 1
      <4>1. u[k][1] = a[1]
        BY <1>4, <2>1
      <4>2. k + 1 - 1 = k
        BY <1>1
      <4> QED
        BY <2>1, <3>1, <4>1, <4>2
    <3>2. CASE i # 1
      <4>1. i - 1 \in 1..m - 1 /\ k + 1 + (i - 1) - 1 = k + i - 1 /\ (i - 1) + 1 = i
        BY <1>1, <3>2
      <4>2. s[k + 1 + (i - 1) - 1] = v[i - 1] /\ v[i - 1] = u[k][(i - 1) + 1]
        BY <2>2, <2>4, <4>1
      <4> QED
        BY <4>1, <4>2
    <3> QED
      BY <3>1, <3>2
  <2>6. k + m - 1 <= Len(s)
    <3>1. k + 1 + (m - 1) - 1 = k + m - 1
      BY <1>1
    <3> QED
      BY <2>4, <3>1
  <2> QED
    BY <2>5, <2>6
<1> QED
  BY <1>5, <1>6, <1>7

\* Nowhere in w stands x.
NoMatch(x, w) == \A j \in Nat \ {0} : ~Match(x, j, w)

\* No match in what is written from place k on.
LEMMA NoMatchStep ==
  ASSUME NEW x, NEW r, NEW s, Foreign(x, r, s), NEW u,
         Writes(Nat, ReplaceNext(x, s), ReplaceOut(x, r, s), u),
         NEW k \in 1..Len(s), RunFrom(r, s, u, k),
         NoMatch(x, u[ReplaceNext(x, s)[k]])
  PROVE  NoMatch(x, u[k])
<1> DEFINE a == ReplaceOut(x, r, s)[k]
           v == u[ReplaceNext(x, s)[k]]
<1>1. /\ Len(s) \in Nat /\ Len(ReplaceOut(x, r, s)) = Len(s)
      /\ a = IF At(x, k, s) THEN r ELSE <<s[k]>>
      /\ ReplaceNext(x, s)[k] \in 1..Len(s) + 1
      /\ r \in Seq(Nat) /\ Len(r) \in Nat /\ Len(r) > 0 /\ s[k] \in Nat
      /\ x \in Seq(Nat) /\ s \in Seq(Nat) /\ Len(x) \in Nat /\ Len(x) > 0
      /\ \A i \in 1..Len(x), j \in 1..Len(r) : x[i] # r[j]
  <2>1. Replaces(x, r, s) /\ \A i \in 1..Len(x), j \in 1..Len(r) : x[i] # r[j]
    BY DEF Foreign
  <2>2. ReplaceSteps(x, r, s)
    BY <2>1, ReplaceLoop
  <2>3. Len(s) \in Nat /\ Len(ReplaceOut(x, r, s)) = Len(s)
    BY <2>2 DEF ReplaceSteps
  <2>4. ReplaceNext(x, s)[k] \in 1..Len(s) + 1
    BY <2>2, <2>3 DEF ReplaceSteps, IsLoop
  <2>5. r \in Seq(Nat) /\ Len(r) > 0 /\ s \in Seq(Nat) /\ x \in Seq(Nat) /\ Len(x) > 0
    BY <2>1 DEF Replaces
  <2>6. Len(r) \in Nat /\ s[k] \in Nat /\ Len(x) \in Nat
    BY <2>5, LenProperties, ElementOfSeq
  <2> QED
    BY <2>1, <2>2, <2>3, <2>4, <2>5, <2>6 DEF ReplaceSteps
<1>2. u[k] = a \o v /\ v \in Seq(Nat)
  BY <1>1 DEF Writes
<1>3. a \in Seq(Nat)
  <2>1. <<s[k]>> \in Seq(Nat)
    BY <1>1
  <2> QED
    BY <1>1, <2>1
<1>0. NoMatch(x, v)
  OBVIOUS
<1> HIDE DEF a, v
<1>4. /\ Len(a) \in Nat /\ Len(v) \in Nat /\ Len(u[k]) = Len(a) + Len(v)
      /\ \A i \in 1..Len(a) + Len(v) : u[k][i] = IF i <= Len(a) THEN a[i] ELSE v[i - Len(a)]
  BY <1>2, <1>3, LenProperties, ConcatProperties
<1> SUFFICES ASSUME NEW j \in Nat \ {0}, Match(x, j, u[k]) PROVE FALSE
  BY DEF NoMatch
<1>5. j + Len(x) - 1 <= Len(u[k]) /\ \A i \in 1..Len(x) : u[k][j + i - 1] = x[i]
  BY DEF Match
<1>9. /\ Len(a) \in Nat /\ Len(v) \in Nat /\ Len(x) \in Nat /\ j \in Nat /\ j > 0
      /\ j + Len(x) - 1 <= Len(a) + Len(v)
  <2>1. Len(u[k]) = Len(a) + Len(v) /\ j + Len(x) - 1 <= Len(u[k])
    BY <1>4, <1>5
  <2> QED
    BY <1>1, <1>4, <2>1
<1>6. CASE j > Len(a)
  <2>1. j - Len(a) \in Nat \ {0} /\ j - Len(a) + Len(x) - 1 <= Len(v)
    BY <1>6, <1>9
  <2>2. ASSUME NEW i \in 1..Len(x) PROVE v[j - Len(a) + i - 1] = x[i]
    <3>1. /\ j + i - 1 \in 1..Len(a) + Len(v) /\ ~(j + i - 1 <= Len(a))
          /\ j + i - 1 - Len(a) = j - Len(a) + i - 1
      BY <1>6, <1>9
    <3>2. u[k][j + i - 1] = v[j + i - 1 - Len(a)]
      <4> DEFINE q == j + i - 1
      <4>1. q \in 1..Len(a) + Len(v) /\ ~(q <= Len(a))
        BY <3>1
      <4>2. q \in 1..Len(a) + Len(v) /\ ~(q <= Len(a)) => u[k][q] = v[q - Len(a)]
        <5> HIDE DEF q
        <5> QED
          BY <1>4
      <4> QED
        BY <4>1, <4>2
    <3>3. u[k][j + i - 1] = x[i]
      BY <1>5
    <3> QED
      BY <3>1, <3>2, <3>3
  <2>3. Match(x, j - Len(a), v)
    BY <2>1, <2>2, Zenon DEF Match
  <2> QED
    BY <1>0, <2>1, <2>3 DEF NoMatch
<1>7. CASE j <= Len(a) /\ At(x, k, s)
  <2>0. a = r
    BY <1>1, <1>7, Zenon
  <2>1. a = r /\ 1 \in 1..Len(x) /\ j + 1 - 1 = j /\ j \in 1..Len(a) + Len(v)
    BY <2>0, <1>1, <1>7, <1>9, SMTT(40)
  <2>2. r[j] = x[1] /\ j \in 1..Len(r)
    BY <1>4, <1>5, <1>7, <2>1, SMTT(40)
  <2> QED
    BY <2>1, <2>2, <1>1
<1>8. CASE j <= Len(a) /\ ~At(x, k, s)
  <2>1. Len(a) = 1 /\ j = 1
    BY <1>1, <1>8
  <2>2. /\ Len(x) <= Len(u[k]) /\ \A i \in 1..Len(x) : u[k][i] = x[i]
    <3>1. \A i \in 1..Len(x) : 1 + i - 1 = i
      OBVIOUS
    <3> QED
      BY <1>1, <1>4, <1>5, <2>1, <3>1
  <2>3. k + Len(x) - 1 <= Len(s) /\ \A i \in 1..Len(x) : s[k + i - 1] = u[k][i]
    <3>1. \A i \in 1..Len(x) : u[k][i] # r[1]
      <4>1. 1 \in 1..Len(r)
        BY <1>1
      <4>2. \A i \in 1..Len(x) : x[i] # r[1]
        BY <1>1, <4>1, Zenon
      <4> QED
        BY <2>2, <4>2
    <3>2. RunFrom(r, s, u, k)
      OBVIOUS
    <3> QED
      BY <1>9, <2>2, <3>1, <3>2, Zenon DEF RunFrom
  <2>4. Match(x, k, s)
    BY <2>2, <2>3 DEF Match
  <2>5. k \in Nat /\ k > 0
    BY <1>1
  <2> QED
    BY <1>1, <1>8, <2>4, <2>5, MatchIs, Zenon
<1> QED
  BY <1>4, <1>6, <1>7, <1>8

\* No match is left in what hp_str_replace returns.
LEMMA NoMatchLeft ==
  ASSUME NEW x, NEW r, NEW s, Foreign(x, r, s)
  PROVE  \A k \in DOMAIN hp_str_replace(x, r, s) : ~At(x, k, hp_str_replace(x, r, s))
<1> DEFINE next == ReplaceNext(x, s)
           outs == ReplaceOut(x, r, s)
           t == Output(next, outs)
           u == Pass(next, outs)
           n == Len(s)
<1>1. Replaces(x, r, s)
  BY DEF Foreign
<1>2. /\ n \in Nat /\ IsLoop(Nat, next, outs) /\ Len(outs) = n
      /\ \A k \in 1..n : next[k] = IF At(x, k, s) THEN k + Len(x) ELSE k + 1
  <2>1. ReplaceSteps(x, r, s)
    BY <1>1, ReplaceLoop
  <2> QED
    BY <2>1, Zenon DEF ReplaceSteps
<1>3. t \in Seq(Nat) /\ t = u[1]
  BY <1>2, OutputSeq DEF Output
<1>4. Writes(Nat, next, outs, u)
  BY <1>2, PassStep
<1>5. x \in Seq(Nat) /\ Len(x) \in Nat /\ Len(x) > 0
  <2>1. x \in Seq(Nat) /\ Len(x) > 0
    BY <1>1 DEF Replaces
  <2> QED
    BY <2>1, LenProperties
<1> HIDE DEF t, u, n
<1>6. \A k \in 1..n : next[k] \in Nat /\ k < next[k] /\ next[k] <= n + 1
  BY <1>2 DEF IsLoop
<1>7. u[n + 1] = <<>>
  BY <1>2, <1>4 DEF Writes
<1> DEFINE Good(k) == RunFrom(r, s, u, k) /\ NoMatch(x, u[k])
           T == {k \in 0..n + 1 : k > 0 /\ ~Good(k)}
<1>8. Good(n + 1)
  <2>1. RunFrom(r, s, u, n + 1)
    <3>1. ASSUME NEW m \in Nat, m <= Len(u[n + 1])
          PROVE  n + 1 + m - 1 <= Len(s) /\ \A i \in 1..m : s[n + 1 + i - 1] = u[n + 1][i]
      <4>1. m = 0
        BY <1>7, <3>1
      <4> QED
        BY <1>2, <4>1 DEF n
    <3> QED
      BY <3>1, Zenon DEF RunFrom
  <2>2. NoMatch(x, u[n + 1])
    <3>1. Len(u[n + 1]) = 0
      BY <1>7
    <3>2. \A j \in Nat \ {0} : ~(j + Len(x) - 1 <= 0)
      BY <1>5
    <3> QED
      BY <3>1, <3>2 DEF NoMatch, Match
  <2> QED
    BY <2>1, <2>2
<1>9. ASSUME NEW k \in 1..n, \A i \in k + 1..n + 1 : Good(i) PROVE Good(k)
  <2>1. k + 1 \in k + 1..n + 1 /\ next[k] \in k + 1..n + 1
    BY <1>2, <1>6
  <2>2. RunFrom(r, s, u, k + 1) /\ NoMatch(x, u[next[k]])
    BY <1>9, <2>1
  <2>3. k \in 1..Len(s)
    BY DEF n
  <2>4. RunFrom(r, s, u, k)
    BY <1>4, <2>2, <2>3, RunStep, Zenon
  <2>5. NoMatch(x, u[k])
    BY <1>4, <2>2, <2>3, <2>4, NoMatchStep, Zenon
  <2> QED
    BY <2>4, <2>5
<1> HIDE DEF Good
<1>10. T = {}
  <2> SUFFICES ASSUME T # {} PROVE FALSE
    OBVIOUS
  <2>1. PICK k \in T : \A i \in T : i <= k
    <3>1. T \subseteq 0..n + 1 /\ n + 1 \in Nat
      BY <1>2
    <3> HIDE DEF T
    <3> QED
      BY <3>1, NatMax
  <2>2. k \in 1..n + 1 /\ ~Good(k)
    BY <1>2, <2>1
  <2>3. k \in 1..n
    BY <1>2, <1>8, <2>2
  <2>4. ASSUME NEW i \in k + 1..n + 1 PROVE Good(i)
    <3>1. i \in 0..n + 1 /\ i > 0 /\ ~(i <= k)
      BY <1>2, <2>3
    <3>2. i \notin T
      BY <2>1, <3>1
    <3> QED
      BY <3>1, <3>2
  <2> QED
    BY <1>9, <2>2, <2>3, <2>4
<1>11. NoMatch(x, t)
  <2>1. 1 \in 0..n + 1
    BY <1>2
  <2>2. Good(1)
    BY <1>10, <2>1
  <2> QED
    BY <1>3, <2>2 DEF Good
<1>12. ASSUME NEW k \in DOMAIN t PROVE ~At(x, k, t)
  <2>1. k \in Nat /\ k > 0 /\ k \in Nat \ {0}
    BY <1>3, LenProperties
  <2>2. At(x, k, t) <=> Match(x, k, t)
    BY <1>3, <1>5, <2>1, MatchIs, Zenon
  <2> QED
    BY <1>11, <2>1, <2>2 DEF NoMatch
<1>13. hp_str_replace(x, r, s) = t
  BY DEF hp_str_replace, ReplaceNext, ReplaceOut, t
<1> QED
  BY <1>12, <1>13

\* What hp_str_replace returns.
LEMMA ReplaceRight ==
  ASSUME StringsAssumption, CallReplace
  PROVE  StringsRight'
<1>1. PICK x \in UpTo(Letters, MaxText), r \in UpTo(Marks, MaxText), s \in UpTo(Letters, MaxText + 1) :
        x # <<>> /\ Returns("replace", <<x, r, s>>, hp_str_replace(x, r, s))
  BY DEF CallReplace
<1>2. /\ MaxText \in Nat /\ MaxText + 1 \in Nat
      /\ (\A c \in Letters : c \in Nat) /\ (\A c \in Marks : c \in Nat)
      /\ \A c \in Letters, d \in Marks : c # d
  BY DEF StringsAssumption
<1>3. /\ x \in Seq(Nat) /\ Len(x) \in Nat /\ \A k \in 1..Len(x) : x[k] \in Letters
      /\ r \in Seq(Nat) /\ Len(r) \in Nat /\ \A k \in 1..Len(r) : r[k] \in Marks
  <2>1. NumberText(Letters, MaxText, x) /\ NumberText(Marks, MaxText, r)
    BY <1>2 DEF NumberText
  <2>2. NumberSeq(Letters, x) /\ NumberSeq(Marks, r)
    BY <2>1, UpToNat, Zenon
  <2> QED
    BY <2>2, Zenon DEF NumberSeq
<1>4. s \in Seq(Nat) /\ Len(s) \in Nat /\ \A k \in 1..Len(s) : s[k] \in Letters
  <2>1. NumberText(Letters, MaxText + 1, s)
    BY <1>2 DEF NumberText
  <2>2. NumberSeq(Letters, s)
    BY <2>1, UpToNat, Zenon
  <2> QED
    BY <2>2, Zenon DEF NumberSeq
<1>5. text' = [fn |-> "replace", in |-> <<x, r, s>>, ret |-> hp_str_replace(x, r, s)]
  BY <1>1 DEF Returns
<1>6. ASSUME r # <<>>
      PROVE  /\ hp_str_replace(r, x, hp_str_replace(x, r, s)) = s
             /\ \A k \in DOMAIN hp_str_replace(x, r, s) : ~At(x, k, hp_str_replace(x, r, s))
  <2>1. Len(x) > 0 /\ Len(r) > 0
    BY <1>1, <1>3, <1>6, EmptySeq
  <2>2. Replaces(x, r, s)
    BY <1>3, <1>4, <2>1 DEF Replaces
  <2>3. 1 \in 1..Len(r)
    BY <1>3, <2>1
  <2>4. Foreign(x, r, s)
    BY <1>2, <1>3, <1>4, <2>2, <2>3, Zenon DEF Foreign
  <2> QED
    BY <2>4, ReplaceBack, NoMatchLeft, Zenon
<1>7. ReplacedAll'
  BY <1>5, <1>6 DEF ReplacedAll
<1> QED
  BY <1>5, <1>7 DEF StringsRight, UrlRoundTrip, VersionsOrdered, DumpPrints, SizesFit,
                    VarsExpand, CompressedFits

\* The loop of hp_var_do_replace.
VarNext(s) == [p \in DOMAIN s |->
  IF ~VarAt(s, p) THEN p + 1 ELSE IF s[p + 1] = DOLLAR THEN p + 2 ELSE NameEnd(s, p + 1)]
VarOut(s) == [p \in DOMAIN s |->
  IF ~VarAt(s, p) THEN <<s[p]>>
  ELSE IF s[p + 1] = DOLLAR THEN <<DOLLAR>>
  ELSE hp_var_map_find(SubSeq(s, p + 1, NameEnd(s, p + 1) - 1))]

\* The end of a name.
EndsAt(s, p, e) ==
  /\ e \in p..Len(s) + 1
  /\ \A k \in p..e - 1 : s[k] \in NameChar
  /\ e > Len(s) \/ s[e] \notin NameChar

\* There is exactly one.
LEMMA NameEndIs ==
  ASSUME NEW s, Len(s) \in Nat, NEW p \in 1..Len(s) + 1
  PROVE  EndsAt(s, p, NameEnd(s, p)) /\ \A e : EndsAt(s, p, e) => NameEnd(s, p) = e
<1> DEFINE T == {e \in p..Len(s) + 1 : e > Len(s) \/ s[e] \notin NameChar}
<1>1. PICK e \in T : \A k \in T : e <= k
  <2>1. T \subseteq Nat /\ Len(s) + 1 \in T
    OBVIOUS
  <2> HIDE DEF T
  <2> QED
    BY <2>1, NatMin
<1>2. EndsAt(s, p, e)
  <2>1. e \in p..Len(s) + 1 /\ (e > Len(s) \/ s[e] \notin NameChar)
    BY <1>1
  <2>2. ASSUME NEW k \in p..e - 1 PROVE s[k] \in NameChar
    <3>1. k \in p..Len(s) + 1 /\ ~(e <= k)
      BY <2>1
    <3> QED
      BY <1>1, <3>1
  <2> QED
    BY <2>1, <2>2 DEF EndsAt
<1>3. ASSUME NEW a, NEW b, EndsAt(s, p, a), EndsAt(s, p, b) PROVE ~(a < b)
  <2>1. a \in p..Len(s) + 1 /\ b \in p..Len(s) + 1 /\ (a > Len(s) \/ s[a] \notin NameChar)
    BY <1>3 DEF EndsAt
  <2>2. \A k \in p..b - 1 : s[k] \in NameChar
    BY <1>3 DEF EndsAt
  <2> SUFFICES ASSUME a < b PROVE FALSE
    OBVIOUS
  <2>3. a \in p..b - 1 /\ ~(a > Len(s))
    BY <2>1
  <2> QED
    BY <2>1, <2>2, <2>3
<1>4. NameEnd(s, p) = CHOOSE q \in p..Len(s) + 1 :
         (\A k \in p..q - 1 : s[k] \in NameChar) /\ (q > Len(s) \/ s[q] \notin NameChar)
  BY DEF NameEnd
<1>5. EndsAt(s, p, NameEnd(s, p))
  BY <1>2, <1>4 DEF EndsAt
<1>6. ASSUME NEW a, EndsAt(s, p, a) PROVE NameEnd(s, p) = a
  <2>1. ~(a < NameEnd(s, p)) /\ ~(NameEnd(s, p) < a)
    BY <1>3, <1>5, <1>6
  <2>2. a \in p..Len(s) + 1 /\ NameEnd(s, p) \in p..Len(s) + 1
    BY <1>5, <1>6 DEF EndsAt
  <2> QED
    BY <2>1, <2>2
<1> QED
  BY <1>5, <1>6

\* A value, or the name as it was written.
LEMMA FindSeq ==
  ASSUME StringsAssumption, NEW name, name \in Seq(Nat)
  PROVE  hp_var_map_find(name) \in Seq(Nat)
<1>1. name \in DOMAIN Vmap => Vmap[name] \in Seq(Nat)
  BY DEF StringsAssumption
<1>2. <<DOLLAR>> \in Seq(Nat)
  BY DEF DOLLAR
<1>3. <<DOLLAR>> \o name \in Seq(Nat)
  BY <1>2, ConcatProperties
<1> QED
  BY <1>1, <1>3 DEF hp_var_map_find

\* Part of a sequence.
LEMMA SubSeqNat ==
  ASSUME NEW s, NEW a, NEW b, s \in Seq(Nat), a \in Nat, a > 0, b \in Nat, b <= Len(s)
  PROVE  /\ SubSeq(s, a, b) \in Seq(Nat)
         /\ Len(SubSeq(s, a, b)) = IF a <= b THEN b - a + 1 ELSE 0
         /\ \A i \in 1..b - a + 1 : SubSeq(s, a, b)[i] = s[a + i - 1]
<1>1. Len(s) \in Nat /\ \A i \in 1..Len(s) : s[i] \in Nat
  BY LenProperties, ElementOfSeq
<1>2. a \in Int /\ b \in Int /\ \A i \in a..b : s[i] \in Nat
  BY <1>1
<1> QED
  BY <1>2, SubSeqProperties

\* The steps of the loop.
VarSteps(s) ==
  /\ Len(s) \in Nat
  /\ IsLoop(Nat, VarNext(s), VarOut(s)) /\ Len(VarOut(s)) = Len(s)
  /\ \A p \in 1..Len(s) :
       /\ VarNext(s)[p] = IF ~VarAt(s, p) THEN p + 1
                          ELSE IF s[p + 1] = DOLLAR THEN p + 2 ELSE NameEnd(s, p + 1)
       /\ VarOut(s)[p] = IF ~VarAt(s, p) THEN <<s[p]>>
                         ELSE IF s[p + 1] = DOLLAR THEN <<DOLLAR>>
                         ELSE hp_var_map_find(SubSeq(s, p + 1, NameEnd(s, p + 1) - 1))

\* hp_var_do_replace goes on behind what it read.
LEMMA VarLoop ==
  ASSUME StringsAssumption, NEW s, s \in Seq(Nat)
  PROVE  VarSteps(s)
<1>1. Len(s) \in Nat /\ DOMAIN s = 1..Len(s) /\ \A k \in 1..Len(s) : s[k] \in Nat
  BY LenProperties, ElementOfSeq
<1>2. ASSUME NEW p \in 1..Len(s)
      PROVE  /\ VarNext(s)[p] = IF ~VarAt(s, p) THEN p + 1
                                ELSE IF s[p + 1] = DOLLAR THEN p + 2 ELSE NameEnd(s, p + 1)
             /\ VarOut(s)[p] = IF ~VarAt(s, p) THEN <<s[p]>>
                               ELSE IF s[p + 1] = DOLLAR THEN <<DOLLAR>>
                               ELSE hp_var_map_find(SubSeq(s, p + 1, NameEnd(s, p + 1) - 1))
  BY <1>1 DEF VarNext, VarOut
<1>3. ASSUME NEW p \in 1..Len(s)
      PROVE  /\ VarOut(s)[p] \in Seq(Nat)
             /\ VarNext(s)[p] \in Nat /\ p < VarNext(s)[p] /\ VarNext(s)[p] <= Len(s) + 1
  <2>1. p \in Nat /\ p > 0 /\ p <= Len(s) /\ Len(s) \in Nat /\ s[p] \in Nat
    BY <1>1
  <2>2. CASE ~VarAt(s, p)
    <3>1. VarNext(s)[p] = p + 1 /\ VarOut(s)[p] = <<s[p]>>
      BY <1>2, <2>2
    <3> QED
      BY <2>1, <3>1
  <2>3. CASE VarAt(s, p) /\ s[p + 1] = DOLLAR
    <3>1. VarNext(s)[p] = p + 2 /\ VarOut(s)[p] = <<DOLLAR>> /\ p < Len(s) /\ DOLLAR \in Nat
      BY <1>2, <2>3 DEF VarAt, DOLLAR
    <3> QED
      BY <2>1, <3>1
  <2>4. CASE VarAt(s, p) /\ s[p + 1] # DOLLAR
    <3> DEFINE e == NameEnd(s, p + 1)
    <3>1. /\ VarNext(s)[p] = e /\ p < Len(s)
          /\ VarOut(s)[p] = hp_var_map_find(SubSeq(s, p + 1, e - 1))
      BY <1>2, <2>4 DEF VarAt
    <3>2. EndsAt(s, p + 1, e)
      <4>1. p + 1 \in 1..Len(s) + 1
        BY <2>1
      <4> QED
        BY <1>1, <4>1, NameEndIs, Zenon
    <3> HIDE DEF e
    <3>3. e \in p + 1..Len(s) + 1
      BY <3>2 DEF EndsAt
    <3>4. e \in Nat /\ p < e /\ e <= Len(s) + 1 /\ e - 1 \in Nat /\ e - 1 <= Len(s)
      BY <2>1, <3>3
    <3>5. SubSeq(s, p + 1, e - 1) \in Seq(Nat)
      <4>1. p + 1 \in Nat /\ p + 1 > 0
        BY <2>1
      <4> QED
        BY <3>4, <4>1, SubSeqNat, Zenon
    <3>6. VarOut(s)[p] \in Seq(Nat)
      BY <3>1, <3>5, FindSeq
    <3> QED
      BY <3>1, <3>4, <3>6
  <2> QED
    BY <2>2, <2>3, <2>4
<1>4. VarOut(s) \in Seq(Seq(Nat)) /\ Len(VarOut(s)) = Len(s)
  <2>1. VarOut(s) = [p \in 1..Len(s) |-> VarOut(s)[p]]
    BY <1>1 DEF VarOut
  <2>2. VarOut(s) \in [1..Len(s) -> Seq(Nat)]
    BY <1>3, <2>1
  <2> QED
    BY <1>1, <2>2, FunSeq
<1>5. IsLoop(Nat, VarNext(s), VarOut(s))
  BY <1>3, <1>4 DEF IsLoop
<1> QED
  BY <1>1, <1>2, <1>4, <1>5 DEF VarSteps

\* A part of a text that is expanded: a character, a dollar sign, or a variable.
IsPart(q) ==
  \/ q.kind = "char" /\ \E c \in Nat : c # DOLLAR /\ q.word = <<c>>
  \/ q.kind = "dollar" /\ q.word = <<DOLLAR>>
  \/ q.kind = "var" /\ q.word \in Seq(Nat) /\ Len(q.word) > 0
       /\ \A i \in 1..Len(q.word) : q.word[i] \in NameChar

IsVarText(parts) ==
  /\ Len(parts) \in Nat /\ DOMAIN parts = 1..Len(parts)
  /\ \A k \in 1..Len(parts) : IsPart(parts[k])
  /\ Apart(parts)

WrittenParts(parts) == [k \in DOMAIN parts |-> Written(parts[k])]
MeantParts(parts) == [k \in DOMAIN parts |-> Meant(parts[k])]

\* How a part is written.
LEMMA WrittenIs ==
  ASSUME StringsAssumption, NEW q, IsPart(q)
  PROVE  /\ Written(q) \in Seq(Nat) /\ Meant(q) \in Seq(Nat) /\ Len(Written(q)) > 0
         /\ q.kind \in {"char", "dollar", "var"}
         /\ q.kind = "char" => /\ Written(q) = Meant(q) /\ Len(Written(q)) = 1
                               /\ Meant(q) = <<Written(q)[1]>> /\ q.word[1] = Written(q)[1]
                               /\ Written(q)[1] # DOLLAR
         /\ q.kind = "dollar" => /\ Len(Written(q)) = 2 /\ Meant(q) = <<DOLLAR>>
                                 /\ Written(q)[1] = DOLLAR /\ Written(q)[2] = DOLLAR
         /\ q.kind = "var" => /\ Meant(q) = hp_var_map_find(q.word) /\ q.word \in Seq(Nat)
                              /\ Len(q.word) > 0 /\ Len(Written(q)) = 1 + Len(q.word)
                              /\ Written(q)[1] = DOLLAR
                              /\ \A i \in 1..Len(q.word) :
                                   q.word[i] \in NameChar /\ Written(q)[1 + i] = q.word[i]
<1>1. CASE q.kind = "char"
  <2>1. PICK c \in Nat : c # DOLLAR /\ q.word = <<c>>
    BY <1>1 DEF IsPart
  <2>2. Written(q) = <<c>> /\ Meant(q) = <<c>>
    BY <1>1, <2>1 DEF Written, Meant
  <2> QED
    BY <1>1, <2>1, <2>2
<1>2. CASE q.kind = "dollar"
  <2>1. q.word = <<DOLLAR>> /\ DOLLAR \in Nat
    BY <1>2 DEF IsPart, DOLLAR
  <2>2. Written(q) = <<DOLLAR>> \o <<DOLLAR>> /\ Meant(q) = <<DOLLAR>>
    BY <1>2, <2>1 DEF Written, Meant
  <2>3. <<DOLLAR>> \in Seq(Nat) /\ Len(<<DOLLAR>>) = 1 /\ <<DOLLAR>>[1] = DOLLAR
    BY <2>1
  <2> DEFINE d == <<DOLLAR>>
             y == d \o d
  <2>4. d \in Seq(Nat) /\ Len(d) = 1 /\ d[1] = DOLLAR
    BY <2>3
  <2> HIDE DEF d
  <2>5. y \in Seq(Nat) /\ Len(y) = 2 /\ y[1] = DOLLAR /\ y[2] = DOLLAR
    BY <2>4, Twice, Zenon
  <2>6. Written(q) = y
    BY <2>2 DEF d
  <2>7. Meant(q) \in Seq(Nat)
    BY <2>2, <2>3
  <2> HIDE DEF y
  <2> QED
    BY <1>2, <2>2, <2>5, <2>6, <2>7
<1>3. CASE q.kind = "var"
  <2> DEFINE w == q.word
  <2>1. w \in Seq(Nat) /\ Len(w) > 0 /\ \A i \in 1..Len(w) : w[i] \in NameChar
    BY <1>3 DEF IsPart
  <2>2. Written(q) = <<DOLLAR>> \o w /\ Meant(q) = hp_var_map_find(w)
    BY <1>3 DEF Written, Meant
  <2> HIDE DEF w
  <2>3. <<DOLLAR>> \in Seq(Nat) /\ Len(<<DOLLAR>>) = 1 /\ <<DOLLAR>>[1] = DOLLAR
    BY DEF DOLLAR
  <2>4. /\ Written(q) \in Seq(Nat) /\ Len(Written(q)) = 1 + Len(w)
        /\ \A i \in 1..1 + Len(w) : Written(q)[i] = IF i <= 1 THEN <<DOLLAR>>[i] ELSE w[i - 1]
    BY <2>1, <2>2, <2>3, ConcatProperties
  <2>5. Len(w) \in Nat
    BY <2>1, LenProperties
  <2>6. Written(q)[1] = DOLLAR
    BY <2>3, <2>4, <2>5
  <2>7. \A i \in 1..Len(w) : Written(q)[1 + i] = w[i]
    BY <2>4, <2>5
  <2>8. Meant(q) \in Seq(Nat)
    BY <2>1, <2>2, FindSeq
  <2> QED
    BY <1>3, <2>1, <2>2, <2>4, <2>5, <2>6, <2>7, <2>8 DEF w
<1>4. q.kind \in {"char", "dollar", "var"}
  BY DEF IsPart
<1> QED
  BY <1>1, <1>2, <1>3, <1>4

\* After a variable stands nothing that could be part of its name.
LEMMA AfterName ==
  ASSUME StringsAssumption, NEW parts, IsVarText(parts), NEW k \in 1..Len(parts),
         parts[k].kind = "var", k < Len(parts)
  PROVE  Written(parts[k + 1])[1] \notin NameChar
<1>1. k + 1 \in 1..Len(parts) /\ k \in 1..Len(parts) - 1 /\ Len(parts) \in Nat
  BY DEF IsVarText
<1>2. IsPart(parts[k + 1])
  BY <1>1 DEF IsVarText
<1>3. parts[k + 1].kind = "char" => parts[k + 1].word[1] \notin NameChar
  BY <1>1 DEF IsVarText, Apart
<1>4. DOLLAR \notin NameChar
  BY DEF DOLLAR, NameChar, Digit
<1> QED
  BY <1>2, <1>3, <1>4, WrittenIs

\* What the loop does where a part stands.
VarTurn(s, p, q) ==
  p <= Len(s) /\ VarNext(s)[p] = p + Len(Written(q)) /\ VarOut(s)[p] = Meant(q)

\* The loop reads a variable up to the end of its name.
LEMMA VarRead ==
  ASSUME StringsAssumption, NEW s, s \in Seq(Nat), NEW q, IsPart(q), q.kind = "var",
         NEW p, p \in Nat, p > 0, NEW rest, Len(rest) \in Nat,
         CutAt(s, p, Written(q), rest), Len(rest) > 0 => rest[1] \notin NameChar
  PROVE  VarTurn(s, p, q)
<1> DEFINE w == q.word
           e == p + 1 + Len(w)
<1>1. /\ w \in Seq(Nat) /\ Len(w) \in Nat /\ Len(w) > 0 /\ Len(Written(q)) = 1 + Len(w)
      /\ Written(q)[1] = DOLLAR /\ Meant(q) = hp_var_map_find(w)
      /\ \A i \in 1..Len(w) : w[i] \in NameChar /\ Written(q)[1 + i] = w[i]
  BY WrittenIs, LenProperties
<1>2. /\ Len(s) = p - 1 + Len(Written(q)) + Len(rest)
      /\ \A i \in 1..Len(Written(q)) : s[p + i - 1] = Written(q)[i]
      /\ Len(rest) > 0 => s[p + Len(Written(q)) + 1 - 1] = rest[1]
  <2>1. TailAt(s, p + Len(Written(q)), rest)
    BY DEF CutAt
  <2>2. Len(rest) > 0 => s[p + Len(Written(q)) + 1 - 1] = rest[1]
    <3>1. Len(rest) > 0 => 1 \in 1..Len(rest)
      OBVIOUS
    <3> QED
      BY <2>1, <3>1 DEF TailAt
  <2> QED
    BY <2>2 DEF CutAt
<1>0. Len(rest) > 0 => rest[1] \notin NameChar
  OBVIOUS
<1> HIDE DEF w
<1>3. /\ p \in Nat /\ p > 0 /\ Len(rest) \in Nat /\ Len(w) \in Nat /\ Len(w) > 0
      /\ Len(s) = p + Len(w) + Len(rest) /\ e \in Nat /\ e = p + 1 + Len(w)
      /\ p < Len(s) /\ e <= Len(s) + 1 /\ Len(s) \in Nat
  BY <1>1, <1>2
<1>4. s[p] = DOLLAR
  <2>1. 1 \in 1..Len(Written(q)) /\ p + 1 - 1 = p
    BY <1>1, <1>3
  <2> QED
    BY <1>1, <1>2, <2>1
<1>5. \A i \in 1..Len(w) : s[p + i] = w[i]
  <2> SUFFICES ASSUME NEW i \in 1..Len(w) PROVE s[p + i] = w[i]
    OBVIOUS
  <2>1. 1 + i \in 1..Len(Written(q)) /\ p + (1 + i) - 1 = p + i
    BY <1>1, <1>3
  <2>2. s[p + (1 + i) - 1] = Written(q)[1 + i]
    BY <1>2, <2>1
  <2> QED
    BY <1>1, <2>1, <2>2
<1>6. e > Len(s) \/ s[e] \notin NameChar
  <2>1. CASE Len(rest) = 0
    BY <1>3, <2>1
  <2>2. CASE Len(rest) > 0
    <3>1. p + Len(Written(q)) + 1 - 1 = e
      BY <1>1, <1>3
    <3> QED
      BY <1>0, <1>2, <2>2, <3>1
  <2> QED
    BY <1>3, <2>1, <2>2
<1> HIDE DEF e
<1>7. EndsAt(s, p + 1, e)
  <2>1. e \in p + 1..Len(s) + 1
    BY <1>3
  <2>2. ASSUME NEW j \in p + 1..e - 1 PROVE s[j] \in NameChar
    <3>1. j - p \in 1..Len(w) /\ p + (j - p) = j
      BY <1>3
    <3>2. s[p + (j - p)] = w[j - p] /\ w[j - p] \in NameChar
      BY <1>1, <1>5, <3>1
    <3> QED
      BY <3>1, <3>2
  <2> QED
    BY <1>6, <2>1, <2>2 DEF EndsAt
<1>8. NameEnd(s, p + 1) = e
  <2>1. p + 1 \in 1..Len(s) + 1 /\ Len(s) \in Nat
    BY <1>3
  <2> QED
    BY <1>7, <2>1, NameEndIs, Zenon
<1>9. SubSeq(s, p + 1, e - 1) = w
  <2> DEFINE y == SubSeq(s, p + 1, e - 1)
  <2>1. p + 1 \in Nat /\ p + 1 > 0 /\ e - 1 \in Nat /\ e - 1 <= Len(s)
    BY <1>3
  <2>2. /\ y \in Seq(Nat) /\ Len(y) = IF p + 1 <= e - 1 THEN e - 1 - (p + 1) + 1 ELSE 0
        /\ \A i \in 1..e - 1 - (p + 1) + 1 : y[i] = s[p + 1 + i - 1]
    BY <2>1, SubSeqNat, SMTT(40)
  <2> HIDE DEF y
  <2>3. e - 1 - (p + 1) + 1 = Len(w) /\ p + 1 <= e - 1
    BY <1>3
  <2>4. Len(y) = Len(w) /\ \A i \in 1..Len(w) : y[i] = s[p + 1 + i - 1]
    BY <2>2, <2>3
  <2>5. ASSUME NEW i \in 1..Len(w) PROVE y[i] = w[i]
    <3>1. p + 1 + i - 1 = p + i
      BY <1>3
    <3> QED
      BY <1>5, <2>4, <3>1
  <2>6. \A i \in 1..Len(y) : y[i] = w[i]
    BY <2>4, <2>5
  <2> QED
    BY <1>1, <2>2, <2>4, <2>6, SeqEqual, Zenon DEF y
<1>10. VarAt(s, p) /\ s[p + 1] # DOLLAR
  <2>1. 1 \in 1..Len(w)
    BY <1>3
  <2>2. s[p + 1] \in NameChar
    BY <1>1, <1>5, <2>1
  <2>3. DOLLAR \notin NameChar
    BY DEF DOLLAR, NameChar, Digit
  <2> QED
    BY <1>3, <1>4, <2>2, <2>3 DEF VarAt
<1>11. VarNext(s)[p] = e /\ VarOut(s)[p] = hp_var_map_find(w)
  <2>1. VarSteps(s)
    BY VarLoop, Zenon
  <2>2. p \in 1..Len(s)
    BY <1>3
  <2>3. /\ VarNext(s)[p] = NameEnd(s, p + 1)
        /\ VarOut(s)[p] = hp_var_map_find(SubSeq(s, p + 1, NameEnd(s, p + 1) - 1))
    BY <1>10, <2>1, <2>2 DEF VarSteps
  <2> QED
    BY <1>8, <1>9, <2>3
<1>12. p + Len(Written(q)) = e
  BY <1>1, <1>3
<1> QED
  BY <1>1, <1>3, <1>11, <1>12 DEF VarTurn

\* The loop reads a character, or two dollar signs.
LEMMA CharRead ==
  ASSUME StringsAssumption, NEW s, s \in Seq(Nat), NEW q, IsPart(q), q.kind # "var",
         NEW p, p \in Nat, p > 0, NEW rest, Len(rest) \in Nat, CutAt(s, p, Written(q), rest)
  PROVE  VarTurn(s, p, q)
<1>1. Len(s) \in Nat /\ p \in Nat /\ p > 0 /\ Len(rest) \in Nat
  BY LenProperties
<1>2. /\ Len(s) = p - 1 + Len(Written(q)) + Len(rest)
      /\ \A i \in 1..Len(Written(q)) : s[p + i - 1] = Written(q)[i]
  BY DEF CutAt
<1>3. VarSteps(s)
  BY VarLoop, Zenon
<1>4. CASE q.kind = "char"
  <2>1. /\ Len(Written(q)) = 1 /\ Meant(q) = <<Written(q)[1]>> /\ Written(q)[1] # DOLLAR
    BY <1>4, WrittenIs
  <2>2. p \in 1..Len(s) /\ p + 1 - 1 = p
    BY <1>1, <1>2, <2>1
  <2>3. s[p + 1 - 1] = Written(q)[1]
    BY <1>2, <2>1
  <2>4. ~VarAt(s, p)
    BY <2>1, <2>2, <2>3 DEF VarAt
  <2>5. VarNext(s)[p] = p + 1 /\ VarOut(s)[p] = <<s[p]>>
    BY <1>3, <2>2, <2>4 DEF VarSteps
  <2> QED
    BY <2>1, <2>2, <2>3, <2>5 DEF VarTurn
<1>5. CASE q.kind = "dollar"
  <2>1. /\ Len(Written(q)) = 2 /\ Meant(q) = <<DOLLAR>>
        /\ Written(q)[1] = DOLLAR /\ Written(q)[2] = DOLLAR
    BY <1>5, WrittenIs
  <2>2. p \in 1..Len(s) /\ p + 1 - 1 = p /\ p + 2 - 1 = p + 1 /\ p < Len(s)
    BY <1>1, <1>2, <2>1
  <2>3. s[p + 1 - 1] = Written(q)[1] /\ s[p + 2 - 1] = Written(q)[2]
    BY <1>2, <2>1
  <2>4. VarAt(s, p) /\ s[p + 1] = DOLLAR
    BY <2>1, <2>2, <2>3 DEF VarAt
  <2>5. VarNext(s)[p] = p + 2 /\ VarOut(s)[p] = <<DOLLAR>>
    BY <1>3, <2>2, <2>4 DEF VarSteps
  <2> QED
    BY <2>1, <2>2, <2>5 DEF VarTurn
<1> QED
  BY <1>4, <1>5 DEF IsPart

\* hp_var_do_replace reads a text part by part.
LEMMA VarReads ==
  ASSUME StringsAssumption, NEW parts, IsVarText(parts), NEW s, s \in Seq(Nat)
  PROVE  ReadsParts(WrittenParts(parts), MeantParts(parts), s, VarNext(s), VarOut(s))
<1> DEFINE W == WrittenParts(parts)
<1>1. Len(W) = Len(parts) /\ Len(parts) \in Nat /\ DOMAIN parts = 1..Len(parts)
  BY DEF IsVarText, WrittenParts
<1>2. \A k \in 1..Len(parts) :
        IsPart(parts[k]) /\ W[k] = Written(parts[k]) /\ MeantParts(parts)[k] = Meant(parts[k])
  BY <1>1 DEF IsVarText, WrittenParts, MeantParts
<1> HIDE DEF W
<1>3. ASSUME NEW k \in 1..Len(W), NEW p, NEW rest, HoldsAt(s, p, W[k], rest),
             k = Len(W) => rest = <<>>,
             k < Len(W) => \E after \in Seq(Nat) : rest = W[k + 1] \o after
      PROVE  /\ p <= Len(s) /\ VarNext(s)[p] = p + Len(W[k])
             /\ VarOut(s)[p] = MeantParts(parts)[k]
  <2>1. k \in 1..Len(parts) /\ k \in Nat
    BY <1>1
  <2>2. IsPart(parts[k]) /\ W[k] = Written(parts[k]) /\ MeantParts(parts)[k] = Meant(parts[k])
    BY <1>2, <2>1
  <2>3. Written(parts[k]) \in Seq(Nat)
    BY <2>2, WrittenIs
  <2>4. p > 0 /\ CutAt(s, p, Written(parts[k]), rest)
    BY <1>3, <2>2, <2>3, HoldsPart, Zenon
  <2>5. p \in Nat /\ Len(rest) \in Nat
    BY <2>4 DEF CutAt
  <2>6. ASSUME parts[k].kind = "var", Len(rest) > 0 PROVE rest[1] \notin NameChar
    <3>1. k < Len(parts)
      BY <1>1, <1>3, <2>1, <2>6
    <3>2. k + 1 \in 1..Len(parts)
      BY <1>1, <2>1, <3>1
    <3>3. PICK after \in Seq(Nat) : rest = Written(parts[k + 1]) \o after
      BY <1>1, <1>2, <1>3, <3>1, <3>2
    <3>4. /\ Written(parts[k + 1]) \in Seq(Nat) /\ Len(Written(parts[k + 1])) > 0
      BY <1>2, <3>2, WrittenIs
    <3>5. rest[1] = Written(parts[k + 1])[1]
      <4>1. Len(Written(parts[k + 1])) \in Nat /\ Len(after) \in Nat
        BY <3>4, LenProperties
      <4>2. 1 \in 1..Len(Written(parts[k + 1])) + Len(after) /\ 1 <= Len(Written(parts[k + 1]))
        BY <3>4, <4>1
      <4> QED
        BY <3>3, <3>4, <4>2, ConcatProperties
    <3>6. Written(parts[k + 1])[1] \notin NameChar
      BY <2>1, <2>6, <3>1, AfterName
    <3> QED
      BY <3>5, <3>6
  <2>7. VarTurn(s, p, parts[k])
    <3>1. CASE parts[k].kind = "var"
      BY <2>2, <2>4, <2>5, <2>6, <3>1, VarRead, Zenon
    <3>2. CASE parts[k].kind # "var"
      BY <2>2, <2>4, <2>5, <3>2, CharRead, Zenon
    <3> QED
      BY <3>1, <3>2
  <2> QED
    BY <2>2, <2>7 DEF VarTurn
<1> QED
  BY <1>3, Zenon DEF ReadsParts, W

\* The parts of a generated text.
LEMMA PartsText ==
  ASSUME StringsAssumption, NEW parts \in UpTo(Parts, MaxText), Apart(parts)
  PROVE  IsVarText(parts) /\ parts \in Seq(Parts)
<1>1. /\ MaxText \in Nat /\ VarChars \subseteq Nat \ {DOLLAR}
      /\ VarNames \subseteq Seq(NameChar) \ {<<>>}
  BY DEF StringsAssumption
<1>2. parts \in Seq(Parts) /\ Len(parts) \in 0..MaxText /\ DOMAIN parts = 1..Len(parts)
  BY <1>1, UpToSeq, Zenon
<1>3. \A k \in 1..Len(parts) : parts[k] \in Parts
  BY <1>2, ElementOfSeq
<1>4. ASSUME NEW q \in Parts PROVE IsPart(q)
  <2>1. CASE q \in [kind : {"char"}, word : {<<c>> : c \in VarChars}]
    <3>1. PICK c \in VarChars : q.word = <<c>>
      BY <2>1
    <3> QED
      BY <1>1, <2>1, <3>1 DEF IsPart
  <2>2. CASE q \in [kind : {"dollar"}, word : {<<DOLLAR>>}]
    BY <2>2 DEF IsPart
  <2>3. CASE q \in [kind : {"var"}, word : VarNames]
    <3> DEFINE w == q.word
    <3>1. q.kind = "var" /\ w \in VarNames
      BY <2>3
    <3> HIDE DEF w
    <3>2. w \in Seq(NameChar) /\ w # <<>>
      BY <1>1, <3>1
    <3>3. Len(w) \in Nat /\ \A i \in 1..Len(w) : w[i] \in NameChar
      BY <3>2, LenProperties, ElementOfSeq
    <3>4. Len(w) # 0
      BY <3>2, EmptySeq
    <3>5. w \in Seq(Nat)
      <4>1. \A c \in NameChar : c \in Nat
        BY DEF NameChar, Digit
      <4> QED
        BY <3>2, <3>3, <4>1
    <3> QED
      BY <3>1, <3>3, <3>4, <3>5 DEF IsPart, w
  <2> QED
    BY <2>1, <2>2, <2>3 DEF Parts
<1>5. Len(parts) \in Nat
  BY <1>2
<1> QED
  BY <1>2, <1>3, <1>4, <1>5 DEF IsVarText

\* A text of parts is written and meant as sequences of bytes.
LEMMA PartsSeq ==
  ASSUME StringsAssumption, NEW parts, IsVarText(parts)
  PROVE  /\ WrittenParts(parts) \in Seq(Seq(Nat)) /\ MeantParts(parts) \in Seq(Seq(Nat))
         /\ Len(WrittenParts(parts)) = Len(parts) /\ Len(MeantParts(parts)) = Len(parts)
<1>1. /\ Len(parts) \in Nat /\ DOMAIN parts = 1..Len(parts)
      /\ \A k \in 1..Len(parts) : IsPart(parts[k])
  BY DEF IsVarText
<1>2. \A k \in 1..Len(parts) : Written(parts[k]) \in Seq(Nat) /\ Meant(parts[k]) \in Seq(Nat)
  BY <1>1, WrittenIs, Zenon
<1>3. WrittenParts(parts) \in [1..Len(parts) -> Seq(Nat)]
  BY <1>1, <1>2 DEF WrittenParts
<1>4. MeantParts(parts) \in [1..Len(parts) -> Seq(Nat)]
  BY <1>1, <1>2 DEF MeantParts
<1> QED
  BY <1>1, <1>3, <1>4, FunSeq, Zenon

\* hp_var_do_replace turns a text of parts into what they mean.
LEMMA VarExpands ==
  ASSUME StringsAssumption, NEW parts, IsVarText(parts)
  PROVE  hp_var_do_replace(Joined(WrittenParts(parts))) = Joined(MeantParts(parts))
<1> DEFINE W == WrittenParts(parts)
           M == MeantParts(parts)
           s == Joined(W)
<1>1. W \in Seq(Seq(Nat)) /\ M \in Seq(Seq(Nat)) /\ Len(W) = Len(parts) /\ Len(M) = Len(parts)
  BY PartsSeq
<1>2. s \in Seq(Nat)
  <2> HIDE DEF W
  <2>1. IsLoop(Nat, [k \in DOMAIN W |-> k + 1], W)
    BY <1>1, JoinedLoop
  <2> QED
    BY <2>1, OutputSeq, Zenon DEF Joined
<1>3. VarSteps(s)
  <2> HIDE DEF s
  <2> QED
    BY <1>2, VarLoop, Zenon
<1>4. ReadsParts(W, M, s, VarNext(s), VarOut(s))
  <2> HIDE DEF s
  <2> QED
    BY <1>2, VarReads, Zenon
<1>5. IsLoop(Nat, VarNext(s), VarOut(s)) /\ Len(VarOut(s)) = Len(s)
  BY <1>3 DEF VarSteps
<1> HIDE DEF W, M, s
<1>6. Output(VarNext(s), VarOut(s)) = Joined(M)
  <2>1. Len(VarOut(s)) = Len(Joined(W)) /\ Len(M) = Len(W)
    BY <1>1, <1>5 DEF s
  <2>2. ReadsParts(W, M, Joined(W), VarNext(s), VarOut(s))
    BY <1>4 DEF s
  <2> QED
    BY <1>1, <1>5, <2>1, <2>2, JoinedTurns
<1>7. hp_var_do_replace(s) = Output(VarNext(s), VarOut(s))
  BY DEF hp_var_do_replace, VarNext, VarOut
<1> QED
  BY <1>6, <1>7 DEF s, W, M

\* hp_var_eval
LEMMA ExpandRight ==
  ASSUME StringsAssumption, CallExpand
  PROVE  StringsRight'
<1>1. PICK parts \in UpTo(Parts, MaxText) :
        /\ Apart(parts)
        /\ Returns("expand", parts,
                   hp_var_do_replace(Joined([k \in DOMAIN parts |-> Written(parts[k])])))
  BY DEF CallExpand
<1>2. IsVarText(parts)
  BY <1>1, PartsText
<1>3. hp_var_do_replace(Joined(WrittenParts(parts))) = Joined(MeantParts(parts))
  BY <1>2, VarExpands
<1>4. text' = [fn |-> "expand", in |-> parts, ret |-> Joined(MeantParts(parts))]
  BY <1>1, <1>3 DEF Returns, WrittenParts
<1>5. VarsExpand'
  BY <1>4 DEF VarsExpand, MeantParts
<1> QED
  BY <1>4, <1>5 DEF StringsRight, UrlRoundTrip, ReplacedAll, VersionsOrdered, DumpPrints,
                    SizesFit, CompressedFits

\* Parts of at most two elements are at most twice as many elements.
LEMMA JoinedLength ==
  ASSUME NEW S, NEW parts, parts \in Seq(Seq(S)), \A k \in 1..Len(parts) : Len(parts[k]) <= 2
  PROVE  /\ Joined(parts) \in Seq(S) /\ Len(Joined(parts)) \in Nat
         /\ Len(Joined(parts)) <= 2 * Len(parts)
<1> DEFINE n == Len(parts)
           next == [k \in DOMAIN parts |-> k + 1]
           u == Pass(next, parts)
<1>1. n \in Nat /\ DOMAIN parts = 1..n
  BY LenProperties
<1>2. IsLoop(S, next, parts)
  BY JoinedLoop
<1>3. /\ u[n + 1] = <<>>
      /\ \A k \in 1..n : u[k] = parts[k] \o u[k + 1]
      /\ \A k \in 1..n + 1 : u[k] \in Seq(S)
  <2>1. Writes(S, next, parts, u)
    BY <1>2, PassStep
  <2>2. \A k \in 1..n : next[k] = k + 1
    BY <1>1
  <2> HIDE DEF u, next
  <2> QED
    BY <2>1, <2>2 DEF Writes
<1>4. \A k \in 1..n : parts[k] \in Seq(S)
  BY ElementOfSeq
<1>5. \A k \in 1..n : Len(parts[k]) \in Nat /\ Len(parts[k]) <= 2
  BY <1>4, LenProperties
<1>6. \A k \in 1..n + 1 : Len(u[k]) \in Nat
  <2> HIDE DEF u, n
  <2> QED
    BY <1>3, LenProperties, Zenon
<1>7. \A k \in 1..n : Len(u[k]) = Len(parts[k]) + Len(u[k + 1])
  <2> HIDE DEF u
  <2> SUFFICES ASSUME NEW k \in 1..n PROVE Len(u[k]) = Len(parts[k]) + Len(u[k + 1])
    OBVIOUS
  <2>1. u[k] = parts[k] \o u[k + 1] /\ k + 1 \in 1..n + 1
    BY <1>1, <1>3
  <2>2. parts[k] \in Seq(S) /\ u[k + 1] \in Seq(S)
    BY <1>3, <1>4, <2>1
  <2>3. Len(parts[k] \o u[k + 1]) = Len(parts[k]) + Len(u[k + 1])
    BY <2>2, ConcatLen
  <2> QED
    BY <2>1, <2>3, Zenon
<1>8. Len(u[n + 1]) = 0
  BY <1>3, EmptySeq
<1> DEFINE T == {k \in 0..n + 1 : k > 0 /\ ~(Len(u[k]) <= 2 * (n + 1 - k))}
<1> HIDE DEF u, next, n
<1>9. T = {}
  <2> SUFFICES ASSUME T # {} PROVE FALSE
    OBVIOUS
  <2>1. PICK k \in T : \A i \in T : i <= k
    <3>1. T \subseteq 0..n + 1 /\ n + 1 \in Nat
      BY <1>1
    <3> HIDE DEF T
    <3> QED
      BY <3>1, NatMax
  <2>2. k \in 1..n + 1 /\ ~(Len(u[k]) <= 2 * (n + 1 - k))
    BY <1>1, <2>1
  <2>3. k # n + 1
    BY <1>1, <1>8, <2>2, SMTT(40)
  <2>4. k \in 1..n
    BY <1>1, <2>2, <2>3
  <2>5. k + 1 \in 1..n + 1 /\ Len(u[k + 1]) <= 2 * (n + 1 - (k + 1))
    <3>1. k + 1 \in 0..n + 1 /\ k + 1 > 0 /\ ~(k + 1 <= k)
      BY <1>1, <2>4
    <3>2. k + 1 \notin T
      BY <2>1, <3>1
    <3> QED
      BY <3>1, <3>2
  <2>6. Len(u[k]) = Len(parts[k]) + Len(u[k + 1]) /\ Len(parts[k]) <= 2
    BY <1>5, <1>7, <2>4
  <2>7. Len(parts[k]) \in Nat /\ Len(u[k + 1]) \in Nat /\ k \in Nat
    BY <1>1, <1>5, <1>6, <2>4, <2>5
  <2> QED
    BY <1>1, <2>2, <2>5, <2>6, <2>7, SMTT(40)
<1>10. u[1] \in Seq(S) /\ Len(u[1]) \in Nat /\ Len(u[1]) <= 2 * n
  <2>1. 1 \in 0..n + 1 /\ 1 \in 1..n + 1 /\ 2 * (n + 1 - 1) = 2 * n
    BY <1>1
  <2>2. Len(u[1]) <= 2 * (n + 1 - 1)
    BY <1>9, <2>1
  <2> QED
    BY <1>3, <1>6, <2>1, <2>2
<1>11. Joined(parts) = u[1]
  BY DEF Joined, Output, u, next
<1> QED
  BY <1>10, <1>11 DEF n

\* One byte is shown by one or two that can be printed.
LEMMA DumpByte ==
  ASSUME NEW c \in Nat
  PROVE  sdump_chr(c) \in Seq(32..126) /\ Len(sdump_chr(c)) <= 2
<1> DEFINE p(x) == <<Backslash, x>>
           e(x) == <<x>>
           d == IF isprint(c) THEN c ELSE 88
<1>1. ASSUME NEW x \in 32..126
      PROVE  /\ p(x) \in Seq(32..126) /\ Len(p(x)) <= 2
             /\ e(x) \in Seq(32..126) /\ Len(e(x)) <= 2
  <2>1. Backslash \in 32..126
    BY DEF Backslash
  <2> QED
    BY <2>1
<1>2. \/ sdump_chr(c) = p(114) \/ sdump_chr(c) = p(110)
      \/ sdump_chr(c) = p(116) \/ sdump_chr(c) = p(48)
      \/ sdump_chr(c) = e(d)
  BY DEF sdump_chr
<1>3. d \in 32..126
  BY DEF isprint
<1>4. 114 \in 32..126 /\ 110 \in 32..126 /\ 116 \in 32..126 /\ 48 \in 32..126
  OBVIOUS
<1> HIDE DEF p, e, d
<1> QED
  <2>1. ASSUME NEW x \in 32..126, sdump_chr(c) = p(x) \/ sdump_chr(c) = e(x)
        PROVE  sdump_chr(c) \in Seq(32..126) /\ Len(sdump_chr(c)) <= 2
    BY <1>1, <2>1
  <2> QED
    BY <1>2, <1>3, <1>4, <2>1, Zenon

\* What sdump_str shows.
LEMMA DumpAll ==
  ASSUME NEW s, s \in Seq(Nat), NEW end, end \in Seq(32..126)
  PROVE  /\ sdump_str(s, end) \in Seq(32..126) /\ Len(sdump_str(s, end)) \in Nat
         /\ Len(sdump_str(s, end)) <= 2 * Len(s) + Len(end)
<1>1. Len(s) \in Nat /\ DOMAIN s = 1..Len(s) /\ \A k \in 1..Len(s) : s[k] \in Nat
  BY LenProperties, ElementOfSeq
<1>2. Len(end) \in Nat
  BY LenProperties
<1>3. CASE s = <<>>
  <2>1. sdump_str(s, end) = <<>>
    BY <1>3 DEF sdump_str
  <2> QED
    BY <1>1, <1>2, <2>1, EmptySeq
<1>4. CASE s # <<>>
  <2> DEFINE parts == [k \in DOMAIN s |-> sdump_chr(s[k])]
             j == Joined(parts)
  <2>1. \A k \in 1..Len(s) : sdump_chr(s[k]) \in Seq(32..126) /\ Len(sdump_chr(s[k])) <= 2
    BY <1>1, DumpByte
  <2>2. parts \in [1..Len(s) -> Seq(32..126)]
    BY <1>1, <2>1
  <2>3. \A k \in 1..Len(s) : parts[k] = sdump_chr(s[k])
    BY <1>1
  <2>4. sdump_str(s, end) = j \o end
    BY <1>4 DEF sdump_str
  <2> HIDE DEF parts
  <2>5. parts \in Seq(Seq(32..126)) /\ Len(parts) = Len(s)
    BY <1>1, <2>2, FunSeq, Zenon
  <2>6. \A k \in 1..Len(parts) : Len(parts[k]) <= 2
    BY <2>1, <2>3, <2>5
  <2>7. j \in Seq(32..126) /\ Len(j) \in Nat /\ Len(j) <= 2 * Len(parts)
    BY <2>5, <2>6, JoinedLength, Zenon
  <2> HIDE DEF j
  <2>8. j \o end \in Seq(32..126) /\ Len(j \o end) = Len(j) + Len(end)
    BY <2>7, ConcatLen, ZenonT(40)
  <2> QED
    BY <1>1, <1>2, <2>4, <2>5, <2>7, <2>8
<1> QED
  BY <1>3, <1>4

\* A text of bytes that can be printed.
LEMMA Printable ==
  ASSUME NEW t, t \in Seq(32..126)
  PROVE  \A k \in DOMAIN t : isprint(t[k])
<1>1. DOMAIN t = 1..Len(t) /\ \A k \in 1..Len(t) : t[k] \in 32..126
  BY LenProperties, ElementOfSeq
<1>2. \A k \in 1..Len(t) : isprint(t[k])
  BY <1>1 DEF isprint
<1> QED
  BY <1>1, <1>2

\* dumpstr
LEMMA DumpRight ==
  ASSUME StringsAssumption, CallDump
  PROVE  StringsRight'
<1>1. PICK s \in UpTo(DumpBytes, MaxText), n \in 0..MaxText :
        Returns("dump", <<s, n>>, dumpstr(s, n))
  BY DEF CallDump
<1> DEFINE t == dumpstr(s, n)
<1>2. MaxText \in Nat /\ \A c \in DumpBytes : c \in Nat
  BY DEF StringsAssumption
<1>3. s \in Seq(Nat) /\ Len(s) \in Nat
  <2>1. NumberText(DumpBytes, MaxText, s)
    BY <1>2 DEF NumberText
  <2>2. NumberSeq(DumpBytes, s)
    BY <2>1, UpToNat, Zenon
  <2> QED
    BY <2>2, Zenon DEF NumberSeq
<1>4. n \in Nat
  BY <1>2
<1>5. t \in Seq(32..126) /\ Len(t) \in Nat /\ Len(t) <= 2 * n + 3 /\ Len(t) <= 2 * Len(s) + 3
  <2>1. CASE n < Len(s)
    <3> DEFINE h == SubSeq(s, 1, n)
    <3>1. 1 \in Nat /\ 1 > 0 /\ n <= Len(s)
      BY <1>3, <1>4, <2>1
    <3>2. h \in Seq(Nat) /\ Len(h) = IF 1 <= n THEN n - 1 + 1 ELSE 0
      BY <1>3, <1>4, <3>1, SubSeqNat, Zenon
    <3>3. Len(h) = n
      BY <1>4, <3>2
    <3>4. Dots \in Seq(32..126) /\ Len(Dots) = 3
      BY DEF Dots
    <3>5. t = sdump_str(h, Dots)
      BY <2>1 DEF dumpstr
    <3> HIDE DEF h, t
    <3>6. t \in Seq(32..126) /\ Len(t) \in Nat /\ Len(t) <= 2 * Len(h) + Len(Dots)
      BY <3>2, <3>4, <3>5, DumpAll
    <3> QED
      BY <1>3, <1>4, <2>1, <3>3, <3>4, <3>6
  <2>2. CASE ~(n < Len(s))
    <3>1. <<>> \in Seq(32..126) /\ Len(<<>>) = 0
      BY EmptySeq
    <3>2. t = sdump_str(s, <<>>)
      BY <2>2 DEF dumpstr
    <3> HIDE DEF t
    <3>3. t \in Seq(32..126) /\ Len(t) \in Nat /\ Len(t) <= 2 * Len(s) + Len(<<>>)
      BY <1>3, <3>1, <3>2, DumpAll
    <3> QED
      BY <1>3, <1>4, <2>2, <3>1, <3>3
  <2> QED
    BY <2>1, <2>2
<1>6. text' = [fn |-> "dump", in |-> <<s, n>>, ret |-> t]
  BY <1>1 DEF Returns
<1> HIDE DEF t
<1>7. \A k \in DOMAIN t : isprint(t[k])
  BY <1>5, Printable, Zenon
<1>8. DumpPrints'
  BY <1>5, <1>6, <1>7 DEF DumpPrints
<1> QED
  BY <1>6, <1>8 DEF StringsRight, UrlRoundTrip, ReplacedAll, VersionsOrdered, SizesFit,
                    VarsExpand, CompressedFits

\* byte_to_mb_kb
LEMMA UnitRight ==
  ASSUME StringsAssumption, CallUnit
  PROVE  StringsRight'
<1>1. PICK n \in Sizes : Returns("unit", n, byte_to_mb_kb(n))
  BY DEF CallUnit
<1>2. n \in Nat
  BY DEF StringsAssumption
<1> DEFINE b == byte_to_mb_kb(n)
<1>3. (b.v > 0 \/ n = 0) /\ (b.unit = "G" \/ b.v < 1024)
  <2>1. CASE n >= 1024 * 1024 * 1024
    <3>1. b = [v |-> n \div (1024 * 1024 * 1024), unit |-> "G"]
      BY <1>2, <2>1 DEF byte_to_mb_kb
    <3>2. n \div (1024 * 1024 * 1024) > 0
      BY <1>2, <2>1
    <3> QED
      BY <3>1, <3>2
  <2>2. CASE n >= 1024 * 1024 /\ n < 1024 * 1024 * 1024
    <3>1. b = [v |-> n \div (1024 * 1024), unit |-> "M"]
      BY <1>2, <2>2 DEF byte_to_mb_kb
    <3>2. n \div (1024 * 1024) > 0 /\ n \div (1024 * 1024) < 1024
      BY <1>2, <2>2
    <3> QED
      BY <3>1, <3>2
  <2>3. CASE n >= 1024 /\ n < 1024 * 1024
    <3>1. b = [v |-> n \div 1024, unit |-> "K"]
      BY <1>2, <2>3 DEF byte_to_mb_kb
    <3>2. n \div 1024 > 0 /\ n \div 1024 < 1024
      BY <1>2, <2>3
    <3> QED
      BY <3>1, <3>2
  <2>4. CASE n < 1024
    <3>1. b = [v |-> n, unit |-> "none"]
      BY <1>2, <2>4 DEF byte_to_mb_kb
    <3> QED
      BY <1>2, <2>4, <3>1
  <2> QED
    BY <1>2, <2>1, <2>2, <2>3, <2>4
<1>4. text' = [fn |-> "unit", in |-> n, ret |-> b]
  BY <1>1 DEF Returns
<1> HIDE DEF b
<1>5. SizesFit'
  BY <1>3, <1>4 DEF SizesFit
<1> QED
  BY <1>4, <1>5 DEF StringsRight, UrlRoundTrip, ReplacedAll, VersionsOrdered, DumpPrints,
                    VarsExpand, CompressedFits

\* hp_lreserve
LEMMA ReserveRight ==
  ASSUME StringsAssumption, CallReserve
  PROVE  StringsRight'
<1>1. PICK base \in BOOLEAN, nmemb \in 0..MaxText + 1 :
        \E n \in IF base THEN 0..nmemb ELSE {0}, nreserve \in 1..MaxText :
          /\ base => nmemb > 0
          /\ Returns("reserve", <<n, nreserve>>, hp_lreserve(base, nmemb, n, nreserve))
  BY DEF CallReserve
<1>2. PICK n \in IF base THEN 0..nmemb ELSE {0}, nreserve \in 1..MaxText :
        /\ base => nmemb > 0
        /\ Returns("reserve", <<n, nreserve>>, hp_lreserve(base, nmemb, n, nreserve))
  BY <1>1
<1>3. nmemb \in Nat /\ nreserve \in Nat /\ n \in Nat /\ n <= nmemb /\ (~base => n = 0)
  BY DEF StringsAssumption
<1> DEFINE r == hp_lreserve(base, nmemb, n, nreserve)
<1>4. r - n >= nreserve
  <2>1. CASE base
    <3>1. r = IF nmemb - n < nreserve THEN nmemb + nreserve ELSE nmemb
      BY <1>2, <1>3, <2>1 DEF hp_lreserve
    <3> QED
      BY <1>3, <3>1
  <2>2. CASE ~base
    <3>1. r = IF nmemb < nreserve THEN nmemb + nreserve ELSE nmemb
      BY <2>2 DEF hp_lreserve
    <3> QED
      BY <1>3, <2>2, <3>1
  <2> QED
    BY <2>1, <2>2
<1>5. text' = [fn |-> "reserve", in |-> <<n, nreserve>>, ret |-> r]
  BY <1>2 DEF Returns
<1> HIDE DEF r
<1>6. SizesFit'
  BY <1>4, <1>5 DEF SizesFit
<1> QED
  BY <1>5, <1>6 DEF StringsRight, UrlRoundTrip, ReplacedAll, VersionsOrdered, DumpPrints,
                    VarsExpand, CompressedFits

\* The chunks that hp_zc_buf has no room for.
Missed(n, room, i) ==
  NoRoom(room, Chunk * i, IF n - Chunk * i < Chunk THEN n - Chunk * i ELSE Chunk)

\* hp_zc_buf has room for every chunk exactly if it has for them all.
LEMMA ChunksFit ==
  ASSUME StringsAssumption, NEW n \in Nat, NEW room \in Nat
  PROVE  (\E i \in 0..n \div Chunk : Missed(n, room, i)) <=> room < n
<1>1. Chunk \in Nat /\ Chunk > 0
  BY DEF StringsAssumption
<1> DEFINE q == n \div Chunk
<1>2. q \in Nat /\ Chunk * q <= n /\ n < Chunk * q + Chunk /\ Chunk * q \in Nat
  BY <1>1
<1>3. ASSUME NEW i \in 0..q, Missed(n, room, i) PROVE room < n
  <2> DEFINE c == Chunk * i
  <2>1. c \in Nat
    BY <1>1, <1>2
  <2>2. room - c < IF n - c < Chunk THEN n - c ELSE Chunk
    BY <1>3 DEF Missed, NoRoom
  <2> HIDE DEF c
  <2> QED
    BY <1>1, <2>1, <2>2
<1>4. ASSUME room < n PROVE Missed(n, room, q) /\ q \in 0..q
  <2> DEFINE c == Chunk * q
  <2>1. n - c < Chunk /\ room - c < n - c
    BY <1>1, <1>2, <1>4
  <2> QED
    BY <1>2, <2>1 DEF Missed, NoRoom
<1> QED
  BY <1>3, <1>4

\* hp_zc_buf
LEMMA CompressRight ==
  ASSUME StringsAssumption, CallCompress
  PROVE  StringsRight'
<1>1. PICK n \in 1..MaxBytes, room \in 1..MaxBytes : Returns("z", <<n, room>>, hp_zc_buf(n, room))
  BY DEF CallCompress
<1>2. n \in Nat /\ room \in Nat
  BY DEF StringsAssumption
<1>3. hp_zc_buf(n, room) = IF \E i \in 0..n \div Chunk : Missed(n, room, i)
                             THEN [rc |-> 1, olen |-> room] ELSE [rc |-> 0, olen |-> n]
  BY DEF hp_zc_buf, Missed
<1>4. hp_zc_buf(n, room) = IF room < n THEN [rc |-> 1, olen |-> room] ELSE [rc |-> 0, olen |-> n]
  BY <1>2, <1>3, ChunksFit, Zenon
<1>5. text' = [fn |-> "z", in |-> <<n, room>>,
               ret |-> IF room < n THEN [rc |-> 1, olen |-> room] ELSE [rc |-> 0, olen |-> n]]
  BY <1>1, <1>4 DEF Returns
<1>6. CompressedFits'
  BY <1>2, <1>5 DEF CompressedFits
<1> QED
  BY <1>5, <1>6 DEF StringsRight, UrlRoundTrip, ReplacedAll, VersionsOrdered, DumpPrints,
                    SizesFit, VarsExpand

\* g is the last place of v that holds no zero, if any.
LastPlace(v, g) ==
  /\ g \in Nat /\ g <= Len(v)
  /\ g > 0 => VersionPart(v, g) # 0
  /\ Significant(v) \in Seq(Nat) /\ Len(Significant(v)) = g
  /\ \A k \in Nat \ {0} :
       /\ k > g => VersionPart(v, k) = 0
       /\ k <= g => Significant(v)[k] = VersionPart(v, k)

\* Significant cuts a version behind its last number that is not zero.
LEMMA SignificantIs ==
  ASSUME NEW v, v \in Seq(Nat)
  PROVE  \E g : LastPlace(v, g)
<1> DEFINE T == {0} \cup {k \in DOMAIN v : v[k] # 0}
           g == Greatest(T)
           y == SubSeq(v, 1, g)
<1>1. Len(v) \in Nat /\ DOMAIN v = 1..Len(v) /\ \A k \in 1..Len(v) : v[k] \in Nat
  BY LenProperties, ElementOfSeq
<1>2. g \in T /\ \A k \in T : k <= g
  <2>1. T \subseteq 0..Len(v) /\ T # {}
    BY <1>1
  <2> HIDE DEF T
  <2>2. \E m \in T : \A k \in T : k <= m
    BY <1>1, <2>1, NatMax, Zenon
  <2> QED
    BY <2>2, Zenon DEF Greatest
<1>3. Significant(v) = y
  BY DEF Significant
<1> HIDE DEF g
<1>4. g \in Nat /\ g <= Len(v) /\ (g > 0 => v[g] # 0)
  BY <1>1, <1>2
<1>5. /\ y \in Seq(Nat) /\ Len(y) = IF 1 <= g THEN g - 1 + 1 ELSE 0
      /\ \A i \in 1..g - 1 + 1 : y[i] = v[1 + i - 1]
  <2>1. 1 \in Nat /\ 1 > 0 /\ g \in Nat /\ g <= Len(v)
    BY <1>4
  <2> QED
    BY <2>1, SubSeqNat
<1> HIDE DEF y
<1>6. Len(y) = g /\ \A i \in 1..g : y[i] = v[i]
  BY <1>4, <1>5
<1>7. ASSUME NEW k \in Nat \ {0}, k > g PROVE VersionPart(v, k) = 0
  <2>1. CASE k <= Len(v)
    <3>1. k \in DOMAIN v /\ ~(k <= g)
      BY <1>1, <1>4, <1>7, <2>1
    <3> QED
      BY <1>2, <2>1, <3>1 DEF VersionPart
  <2>2. CASE ~(k <= Len(v))
    BY <2>2 DEF VersionPart
  <2> QED
    BY <2>1, <2>2
<1>8. ASSUME NEW k \in Nat \ {0}, k <= g PROVE y[k] = VersionPart(v, k)
  BY <1>1, <1>4, <1>6, <1>8 DEF VersionPart
<1>9. g > 0 => VersionPart(v, g) # 0
  BY <1>4 DEF VersionPart
<1> QED
  BY <1>3, <1>4, <1>5, <1>6, <1>7, <1>8, <1>9 DEF LastPlace

\* The places at which two versions differ.
Places(v, c) == 1..(IF Len(v) > Len(c) THEN Len(v) ELSE Len(c))
Differ(v, c) == {k \in Places(v, c) : VersionPart(v, k) # VersionPart(c, k)}

\* Versions of the same significant numbers do not differ, and no others.
LEMMA SignificantSame ==
  ASSUME NEW v, NEW c, v \in Seq(Nat), c \in Seq(Nat)
  PROVE  Differ(v, c) = {} <=> Significant(v) = Significant(c)
<1>1. PICK g : LastPlace(v, g)
  BY SignificantIs
<1>2. PICK h : LastPlace(c, h)
  BY SignificantIs
<1>3. Len(v) \in Nat /\ Len(c) \in Nat
  BY LenProperties
<1> DEFINE y == Significant(v)
           z == Significant(c)
<1>4. /\ g \in Nat /\ g <= Len(v) /\ (g > 0 => VersionPart(v, g) # 0)
      /\ y \in Seq(Nat) /\ Len(y) = g
      /\ \A k \in Nat \ {0} : k > g => VersionPart(v, k) = 0
      /\ \A k \in Nat \ {0} : k <= g => y[k] = VersionPart(v, k)
  BY <1>1 DEF LastPlace
<1>5. /\ h \in Nat /\ h <= Len(c) /\ (h > 0 => VersionPart(c, h) # 0)
      /\ z \in Seq(Nat) /\ Len(z) = h
      /\ \A k \in Nat \ {0} : k > h => VersionPart(c, k) = 0
      /\ \A k \in Nat \ {0} : k <= h => z[k] = VersionPart(c, k)
  BY <1>2 DEF LastPlace
<1>6. ASSUME y = z, NEW k \in Places(v, c) PROVE VersionPart(v, k) = VersionPart(c, k)
  <2> HIDE DEF y, z
  <2>1. k \in Nat \ {0} /\ g = h
    BY <1>3, <1>4, <1>5, <1>6 DEF Places
  <2> QED
    BY <1>4, <1>5, <1>6, <2>1
<1>7. ASSUME Differ(v, c) = {} PROVE y = z
  <2>1. \A k \in Places(v, c) : VersionPart(v, k) = VersionPart(c, k)
    BY <1>7 DEF Differ
  <2> HIDE DEF y, z
  <2>2. ~(g < h)
    <3> SUFFICES ASSUME g < h PROVE FALSE
      OBVIOUS
    <3>1. h \in Places(v, c) /\ h \in Nat \ {0}
      BY <1>3, <1>4, <1>5 DEF Places
    <3> QED
      BY <1>4, <1>5, <2>1, <3>1
  <2>3. ~(h < g)
    <3> SUFFICES ASSUME h < g PROVE FALSE
      OBVIOUS
    <3>1. g \in Places(v, c) /\ g \in Nat \ {0}
      BY <1>3, <1>4, <1>5 DEF Places
    <3> QED
      BY <1>4, <1>5, <2>1, <3>1
  <2>4. g = h
    BY <1>4, <1>5, <2>2, <2>3
  <2>5. ASSUME NEW k \in 1..Len(y) PROVE y[k] = z[k]
    <3>1. k \in Places(v, c) /\ k \in Nat \ {0} /\ k <= g /\ k <= h
      BY <1>3, <1>4, <1>5, <2>4 DEF Places
    <3> QED
      BY <1>4, <1>5, <2>1, <3>1
  <2>6. Len(y) = Len(z)
    BY <1>4, <1>5, <2>4
  <2> QED
    BY <1>4, <1>5, <2>5, <2>6, SeqEqual, Zenon
<1> QED
  BY <1>6, <1>7 DEF Differ

\* hp_vercmp
LEMMA VercmpRight ==
  ASSUME StringsAssumption, CallVercmp
  PROVE  StringsRight'
<1>1. PICK v \in UpTo(VerParts, MaxText), c \in UpTo(VerParts, MaxText) :
        Returns("vercmp", <<v, c>>, hp_vercmp(v, c))
  BY DEF CallVercmp
<1>2. MaxText \in Nat /\ \A p \in VerParts : p \in Nat
  BY DEF StringsAssumption
<1>3. v \in Seq(Nat) /\ c \in Seq(Nat)
  <2>1. NumberText(VerParts, MaxText, v) /\ NumberText(VerParts, MaxText, c)
    BY <1>2 DEF NumberText
  <2>2. NumberSeq(VerParts, v) /\ NumberSeq(VerParts, c)
    BY <2>1, UpToNat, Zenon
  <2> QED
    BY <2>2, Zenon DEF NumberSeq
<1>4. Len(v) \in Nat /\ Len(c) \in Nat
  BY <1>3, LenProperties
<1>5. \A k \in Nat : k > 0 => VersionPart(v, k) \in Nat /\ VersionPart(c, k) \in Nat
  BY <1>3, <1>4, ElementOfSeq DEF VersionPart
<1> DEFINE D == Differ(v, c)
           m == Least(D)
<1>6. hp_vercmp(v, c) = IF D = {} THEN 0
                        ELSE IF VersionPart(v, m) > VersionPart(c, m) THEN 1 ELSE -1
  BY DEF hp_vercmp, Differ, Places
<1>7. hp_vercmp(c, v) = IF D = {} THEN 0
                        ELSE IF VersionPart(c, m) > VersionPart(v, m) THEN 1 ELSE -1
  <2>1. Differ(c, v) = D
    BY <1>4 DEF Differ, Places
  <2>2. hp_vercmp(c, v) = IF Differ(c, v) = {} THEN 0
                          ELSE IF VersionPart(c, Least(Differ(c, v))) > VersionPart(v, Least(Differ(c, v)))
                          THEN 1 ELSE -1
    BY DEF hp_vercmp, Differ, Places
  <2> HIDE DEF D
  <2> QED
    BY <2>1, <2>2 DEF m
<1>8. ASSUME D # {} PROVE m \in D
  <2>1. D \subseteq Nat
    BY <1>4 DEF Differ, Places
  <2> HIDE DEF D
  <2>2. \E q \in D : \A k \in D : q <= k
    BY <1>8, <2>1, NatMin, Zenon
  <2> QED
    BY <2>2, Zenon DEF m, Least
<1>9. D # {} => /\ VersionPart(v, m) \in Nat /\ VersionPart(c, m) \in Nat
                /\ VersionPart(v, m) # VersionPart(c, m)
  <2>1. ASSUME NEW q \in D PROVE q \in Nat /\ q > 0 /\ VersionPart(v, q) # VersionPart(c, q)
    BY <1>4 DEF Differ, Places
  <2> HIDE DEF D, m
  <2> QED
    BY <1>5, <1>8, <2>1
<1>10. D = {} <=> Significant(v) = Significant(c)
  BY <1>3, SignificantSame
<1> HIDE DEF D, m
<1>11. hp_vercmp(v, c) = -hp_vercmp(c, v)
  BY <1>6, <1>7, <1>9
<1>12. hp_vercmp(v, c) = 0 <=> Significant(v) = Significant(c)
  BY <1>6, <1>10
<1>13. text' = [fn |-> "vercmp", in |-> <<v, c>>, ret |-> hp_vercmp(v, c)]
  BY <1>1 DEF Returns
<1>14. VersionsOrdered'
  BY <1>11, <1>12, <1>13 DEF VersionsOrdered
<1> QED
  BY <1>13, <1>14 DEF StringsRight, UrlRoundTrip, ReplacedAll, DumpPrints, SizesFit,
                      VarsExpand, CompressedFits

\* Every call of a function on strings returns what the function is for, whatever the
\* text, the encoding, the replacement or the version: decoding undoes encoding,
\* replacing leaves no match and can be undone, versions are ordered, a dump can be
\* printed, and compression succeeds exactly if the result fits.
THEOREM StringsAreRight == StringsSpec => []StringsRight
<1>1. StringsInit => StringsRight
  BY DEF StringsInit, StringsRight, UrlRoundTrip, ReplacedAll, VersionsOrdered, DumpPrints,
         SizesFit, VarsExpand, CompressedFits
<1>2. StringsRight /\ [StringsNext]_textVars => StringsRight'
  <2> SUFFICES ASSUME StringsRight, [StringsNext]_textVars PROVE StringsRight'
    OBVIOUS
  <2>1. CASE StringCalls
    BY <2>1, StringsAssumption, UrldecodeRight, ReplaceRight, VercmpRight, DumpRight,
       UnitRight, ReserveRight, ExpandRight, CompressRight, Zenon DEF StringCalls
  <2>2. CASE UNCHANGED textVars
    BY <2>2 DEF textVars, StringsRight, UrlRoundTrip, ReplacedAll, VersionsOrdered, DumpPrints,
                SizesFit, VarsExpand, CompressedFits
  <2> QED
    BY <2>1, <2>2 DEF StringsNext
<1> QED
  BY <1>1, <1>2, PTL DEF StringsSpec
=============================================================================
