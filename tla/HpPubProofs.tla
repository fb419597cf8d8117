---------------------------- MODULE HpPubProofs -----------------------------
(***************************************************************************)
(* Proofs about publish and subscribe, HpPub, for any topics and any       *)
(* number of messages, calls, lost connections and restarts: no request    *)
(* points at a freed context, and the session of a subscriber never moves  *)
(* past a message that its callback was not given.                         *)
(***************************************************************************)
EXTENDS HpPub, SequenceTheorems, FiniteSetTheorems, NaturalsInduction,
        WellFoundedInduction, TLAPS

\* What is on a pipe.
Entries(q) == {q[k] : k \in 1..Len(q)}

Request == [op : {"SUP"}, topics : SUBSET Topics]
           \cup [op : {"HSET"}, topic : Topics, score : Nat]
           \cup [op : {"HKEYS", "QUERY"}, s : Nat]
Answer == [op : {"keys"}, s : Nat, topics : SUBSET Topics]
          \cup [op : {"all"}, s : Nat, msgs : SUBSET Message]

PipeTypes ==
  /\ pubq \in [Publishers -> Seq([op : {"ZADD", "PUBLISH"}, msg : Message])]
  /\ cq \in Seq(Request) /\ cr \in Seq(Answer)
  /\ sq \in Seq([op : {"SUBSCRIBE", "UNSUBSCRIBE"}, topics : SUBSET Topics])
  /\ sr \in Seq([op : {"subscribe", "unsubscribe", "message"}, n : Nat])

\* A request or an answer that points at a context points at the living one.
Alive(e) == e.op \in {"HKEYS", "QUERY", "keys", "all"} =>
              e.s = 0 \/ (live /\ e.s = gen)
PointersInv == \A e \in Entries(cq) \cup Entries(cr) : Alive(e)

\* Redis stores finitely many messages, none with a score of the future.
StoreInv ==
  /\ IsFiniteSet(zset) /\ \A z \in zset : z.score <= now
  /\ \A p \in Publishers : \A k \in 1..Len(pubq[p]) : pubq[p][k].msg.score <= now
  /\ \A e \in Entries(cr) : e.op = "all" => e.msgs \subseteq zset

IInv == TypeOK /\ PipeTypes /\ PointersInv /\ StoreInv
-----------------------------------------------------------------------------
(* Pipes *)

\* A function on 1..m is a sequence of length m.
LEMMA FcnIsSeq ==
  ASSUME NEW S, NEW m \in Nat, NEW f \in [1..m -> S]
  PROVE  f \in Seq(S) /\ Len(f) = m
<1>1. f \in Seq(S)
  BY SeqDef, Zenon
<1>2. DOMAIN f = 1..m /\ DOMAIN f = 1..Len(f) /\ Len(f) \in Nat
  BY <1>1, LenProperties
<1> QED BY <1>1, <1>2

\* What is sent is the last on the pipe.
LEMMA AppendEntries ==
  ASSUME NEW S, NEW q \in Seq(S), NEW e \in S
  PROVE  Append(q, e) \in Seq(S) /\ Entries(Append(q, e)) = Entries(q) \cup {e}
<1>1. /\ Append(q, e) \in Seq(S) /\ Len(Append(q, e)) = Len(q) + 1 /\ Len(q) \in Nat
      /\ \A k \in 1..Len(q) : Append(q, e)[k] = q[k]
      /\ Append(q, e)[Len(q) + 1] = e
  OBVIOUS
<1>2. \A k \in 1..Len(q) + 1 : k \in 1..Len(q) \/ k = Len(q) + 1
  BY <1>1
<1>3. 1..Len(q) \subseteq 1..Len(q) + 1 /\ Len(q) + 1 \in 1..Len(q) + 1
  BY <1>1
<1> QED BY <1>1, <1>2, <1>3 DEF Entries

\* What is taken is the first, the others move up.
LEMMA TailEntries ==
  ASSUME NEW S, NEW q \in Seq(S), q # <<>>
  PROVE  /\ Head(q) \in S /\ Head(q) \in Entries(q)
         /\ Tail(q) \in Seq(S) /\ Entries(Tail(q)) \subseteq Entries(q)
         /\ Len(Tail(q)) = Len(q) - 1 /\ Len(q) \in Nat \ {0}
         /\ \A k \in 1..Len(Tail(q)) : k + 1 \in 1..Len(q) /\ Tail(q)[k] = q[k + 1]
<1>1. /\ Len(q) \in Nat /\ Len(q) # 0 /\ Head(q) = q[1]
      /\ Tail(q) \in Seq(S) /\ Len(Tail(q)) = Len(q) - 1
      /\ \A k \in 1..Len(q) - 1 : Tail(q)[k] = q[k + 1]
  BY EmptySeq, LenProperties, HeadTailProperties
<1>2. 1 \in 1..Len(q) /\ \A k \in 1..Len(q) - 1 : k + 1 \in 1..Len(q)
  BY <1>1
<1>3. q[1] \in S
  BY <1>2, ElementOfSeq
<1> QED BY <1>1, <1>2, <1>3 DEF Entries

\* Two lots are on the pipe one after the other.
LEMMA ConcatEntries ==
  ASSUME NEW S, NEW q \in Seq(S), NEW r \in Seq(S)
  PROVE  q \o r \in Seq(S) /\ Entries(q \o r) = Entries(q) \cup Entries(r)
<1>1. /\ q \o r \in Seq(S) /\ Len(q \o r) = Len(q) + Len(r)
      /\ Len(q) \in Nat /\ Len(r) \in Nat
      /\ \A k \in 1..Len(q) + Len(r) :
           (q \o r)[k] = IF k <= Len(q) THEN q[k] ELSE r[k - Len(q)]
  BY ConcatProperties, LenProperties
<1>2. ASSUME NEW k \in 1..Len(q) + Len(r)
      PROVE  (q \o r)[k] \in Entries(q) \cup Entries(r)
  <2>1. CASE k <= Len(q)
    BY <2>1, <1>1 DEF Entries
  <2>2. CASE ~(k <= Len(q))
    <3>1. k - Len(q) \in 1..Len(r)
      BY <2>2, <1>1
    <3> QED BY <3>1, <2>2, <1>1 DEF Entries
  <2> QED BY <2>1, <2>2
<1>3. ASSUME NEW k \in 1..Len(q)
      PROVE  q[k] \in Entries(q \o r)
  BY <1>1 DEF Entries
<1>4. ASSUME NEW k \in 1..Len(r)
      PROVE  r[k] \in Entries(q \o r)
  <2>1. /\ Len(q) + k \in 1..Len(q) + Len(r) /\ ~(Len(q) + k <= Len(q))
        /\ (Len(q) + k) - Len(q) = k
    BY <1>1
  <2>2. (q \o r)[Len(q) + k] = r[k]
    BY <2>1, <1>1
  <2> QED BY <2>1, <2>2, <1>1 DEF Entries
<1>5. \A e \in Entries(q \o r) : e \in Entries(q) \cup Entries(r)
  BY <1>1, <1>2 DEF Entries
<1>6. \A e \in Entries(q) \cup Entries(r) : e \in Entries(q \o r)
  BY <1>3, <1>4 DEF Entries
<1> QED BY <1>1, <1>5, <1>6

\* hp_subc_free keeps the requests, without their context.
LEMMA FreeEntries ==
  ASSUME NEW q, q \in Seq(Request) \/ q \in Seq(Answer)
  PROVE  /\ q \in Seq(Request) => hp_subc_free(q) \in Seq(Request)
         /\ q \in Seq(Answer) => hp_subc_free(q) \in Seq(Answer)
         /\ \A e \in Entries(hp_subc_free(q)) :
              \/ e.op \in {"HKEYS", "QUERY", "keys", "all"} /\ e.s = 0
              \/ e.op \notin {"HKEYS", "QUERY", "keys", "all"}
         /\ \A e \in Entries(hp_subc_free(q)) : \E f \in Entries(q) :
              e.op = f.op /\ (e.op = "HSET" => e = f) /\ (e.op = "all" => e.msgs = f.msgs)
<1> DEFINE g == hp_subc_free(q)
<1>1. Len(q) \in Nat /\ DOMAIN q = 1..Len(q)
  BY LenProperties
<1>2. g = [k \in 1..Len(q) |->
             IF q[k].op \in {"HKEYS", "QUERY", "keys", "all"}
               THEN [q[k] EXCEPT !.s = 0] ELSE q[k]]
  BY <1>1 DEF hp_subc_free
<1> HIDE DEF g
<1>3. ASSUME NEW k \in 1..Len(q), q \in Seq(Request)
      PROVE  /\ g[k] \in Request /\ g[k].op = q[k].op
             /\ g[k].op \in {"HKEYS", "QUERY"} => g[k].s = 0
             /\ g[k].op = "HSET" => g[k] = q[k]
             /\ g[k].op \notin {"keys", "all"}
  <2>1. q[k] \in Request
    BY <1>3, ElementOfSeq
  <2>2. CASE q[k] \in [op : {"HKEYS", "QUERY"}, s : Nat]
    <3>1. g[k] = [q[k] EXCEPT !.s = 0]
      BY <2>2, <1>2
    <3>2. [q[k] EXCEPT !.s = 0] \in [op : {"HKEYS", "QUERY"}, s : Nat]
      BY <2>2
    <3>3. g[k].op = q[k].op /\ g[k].s = 0
      BY <3>1, <2>2
    <3> QED BY <3>1, <3>2, <3>3, <2>2 DEF Request
  <2>3. CASE q[k] \in [op : {"SUP"}, topics : SUBSET Topics]
                      \cup [op : {"HSET"}, topic : Topics, score : Nat]
    <3>1. q[k].op \in {"SUP", "HSET"}
      BY <2>3
    <3> QED BY <3>1, <2>1, <1>2
  <2> QED BY <2>1, <2>2, <2>3 DEF Request
<1>4. ASSUME NEW k \in 1..Len(q), q \in Seq(Answer)
      PROVE  /\ g[k] \in Answer /\ g[k].op = q[k].op /\ g[k].s = 0
             /\ g[k].op = "all" => g[k].msgs = q[k].msgs
             /\ g[k].op \in {"keys", "all"}
  <2>1. q[k] \in Answer
    BY <1>4, ElementOfSeq
  <2>2. CASE q[k] \in [op : {"keys"}, s : Nat, topics : SUBSET Topics]
    <3>1. g[k] = [q[k] EXCEPT !.s = 0]
      BY <2>2, <1>2
    <3>2. [q[k] EXCEPT !.s = 0] \in [op : {"keys"}, s : Nat, topics : SUBSET Topics]
      BY <2>2
    <3>3. g[k].op = q[k].op /\ g[k].s = 0
      BY <3>1, <2>2
    <3> QED BY <3>1, <3>2, <3>3, <2>2 DEF Answer
  <2>3. CASE q[k] \in [op : {"all"}, s : Nat, msgs : SUBSET Message]
    <3>1. g[k] = [q[k] EXCEPT !.s = 0]
      BY <2>3, <1>2
    <3>2. [q[k] EXCEPT !.s = 0] \in [op : {"all"}, s : Nat, msgs : SUBSET Message]
      BY <2>3
    <3>3. g[k].op = q[k].op /\ g[k].s = 0 /\ g[k].msgs = q[k].msgs
      BY <3>1, <2>3
    <3> QED BY <3>1, <3>2, <3>3, <2>3 DEF Answer
  <2> QED BY <2>1, <2>2, <2>3 DEF Answer
<1>5. CASE q \in Seq(Request)
  <2>1. g \in [1..Len(q) -> Request]
    BY <1>5, <1>2, <1>3
  <2>2. g \in Seq(Request) /\ Len(g) = Len(q)
    BY <2>1, <1>1, FcnIsSeq
  <2>3. q \in Seq(Answer) => g \in Seq(Answer)
    <3>1. SUFFICES ASSUME q \in Seq(Answer) PROVE g \in Seq(Answer)
      OBVIOUS
    <3>2. g \in [1..Len(q) -> Answer]
      BY <3>1, <1>2, <1>4
    <3> QED BY <3>2, <1>1, FcnIsSeq
  <2> QED BY <2>2, <2>3, <1>5, <1>3 DEF Entries, g
<1>6. CASE q \in Seq(Answer)
  <2>1. g \in [1..Len(q) -> Answer]
    BY <1>6, <1>2, <1>4
  <2>2. g \in Seq(Answer) /\ Len(g) = Len(q)
    BY <2>1, <1>1, FcnIsSeq
  <2>3. q \in Seq(Request) => g \in Seq(Request)
    <3>1. SUFFICES ASSUME q \in Seq(Request) PROVE g \in Seq(Request)
      OBVIOUS
    <3>2. g \in [1..Len(q) -> Request]
      BY <3>1, <1>2, <1>3
    <3> QED BY <3>2, <1>1, FcnIsSeq
  <2> QED BY <2>2, <2>3, <1>6, <1>4 DEF Entries, g
<1> QED BY <1>5, <1>6
-----------------------------------------------------------------------------
(* Scores *)

\* A set of numbers with an upper bound has a greatest one.
LEMMA Greatest ==
  ASSUME NEW S \in SUBSET Nat, S # {}, NEW b \in Nat, \A j \in S : j <= b
  PROVE  \E k \in S : \A j \in S : j <= k
<1> DEFINE B == {n \in Nat : \A j \in S : j <= n}
<1>1. \E n \in B : \A m \in B : ~(m < n)
  <2>1. IsWellFoundedOn(OpToRel(<, Nat), Nat) /\ B \subseteq Nat /\ B # {}
    BY NatLessThanWellFounded
  <2>2. \E n \in B : \A m \in B : ~(<<m, n>> \in OpToRel(<, Nat))
    BY <2>1, WFMin, Zenon
  <2> QED BY <2>2 DEF OpToRel
<1>2. PICK n \in B : \A m \in B : ~(m < n)
  BY <1>1
<1>3. n \in S
  <2>1. SUFFICES ASSUME n \notin S PROVE FALSE
    OBVIOUS
  <2>2. \A j \in S : j < n
    BY <1>2, <2>1
  <2>3. n - 1 \in Nat /\ \A j \in S : j <= n - 1
    <3>1. PICK j \in S : TRUE
      OBVIOUS
    <3>2. j \in Nat /\ j < n /\ n \in Nat
      BY <3>1, <2>2, <1>2
    <3>3. \A l \in S : l \in Nat
      OBVIOUS
    <3> QED BY <3>2, <3>3, <2>2
  <2>4. n - 1 \in B
    BY <2>3
  <2> QED BY <2>4, <1>2
<1> QED BY <1>2, <1>3

\* zrevrange returns a stored score, if there is one.
LEMMA LatestIs ==
  ASSUME IInv, NEW t \in Topics
  PROVE  Latest(t) \in Nat /\ (Latest(t) = 0 \/ \E z \in zset : z.score = Latest(t))
<1>1. zset \subseteq Message /\ now \in Nat /\ \A z \in zset : z.score <= now
  BY DEF IInv, TypeOK, StoreInv
<1>2. Scores(t) \in SUBSET Nat /\ \A j \in Scores(t) : j <= now
  BY <1>1 DEF Scores, Message
<1>3. CASE Scores(t) = {}
  BY <1>3 DEF Latest
<1>4. CASE Scores(t) # {}
  <2>1. \E k \in Scores(t) : \A j \in Scores(t) : j <= k
    BY <1>4, <1>2, <1>1, Greatest
  <2>2. Latest(t) \in Scores(t)
    BY <2>1, <1>4 DEF Latest
  <2> QED BY <2>2, <1>2 DEF Scores
<1> QED BY <1>3, <1>4

\* A finite set is put in order with as many places as it has elements.
LEMMA OrderIs ==
  ASSUME NEW S, IsFiniteSet(S), NEW o \in Orders(S)
  PROVE  /\ Cardinality(S) \in Nat /\ DOMAIN o = 1..Cardinality(S)
         /\ o \in [1..Cardinality(S) -> S]
BY FS_CardinalityType DEF Orders
-----------------------------------------------------------------------------
(* The steps keep types and pointers *)

\* The publisher's side and Redis' storing.
LEMMA PublishKeeps ==
  ASSUME IInv, NEW p \in Publishers, NEW t \in Topics, NEW ms \in {now, now + 1},
         hp_pub(p, t, ms)
  PROVE  IInv'
<1> DEFINE m == [num |-> pubs + 1, topic |-> t, score |-> ms]
           two == <<[op |-> "ZADD", msg |-> m], [op |-> "PUBLISH", msg |-> m]>>
           Cmd == [op : {"ZADD", "PUBLISH"}, msg : Message]
<1>1. /\ now' = ms /\ pubs' = pubs + 1
      /\ pubq' = [pubq EXCEPT ![p] = @ \o two]
      /\ UNCHANGED <<zset, session, subscribed, cq, cr, sq, sr, live, gen, joined, calls,
                     drops, due, announced, delivered>>
  BY DEF hp_pub, server, pipes, client, bounds, history
<1>2. now \in Nat /\ pubs \in Nat /\ now' \in Nat /\ now <= now' /\ pubs' \in Nat
  BY <1>1 DEF IInv, TypeOK
<1>3. m \in Message /\ m.score = ms
  BY <1>2, <1>1 DEF Message
<1> HIDE DEF m
<1>4. /\ two \in Seq(Cmd) /\ Len(two) = 2 /\ two[1].msg = m /\ two[2].msg = m
  BY <1>3
<1>5. pubq[p] \in Seq(Cmd) /\ pubq \in [Publishers -> Seq(Cmd)]
  BY DEF IInv, PipeTypes
<1> HIDE DEF two
<1>6. pubq[p] \o two \in Seq(Cmd)
  BY <1>4, <1>5
<1>7. pubq' \in [Publishers -> Seq(Cmd)] /\ pubq'[p] = pubq[p] \o two
      /\ \A q \in Publishers : q # p => pubq'[q] = pubq[q]
  BY <1>1, <1>5, <1>6
<1>8. ASSUME NEW q \in Publishers, NEW k \in 1..Len(pubq'[q])
      PROVE  pubq'[q][k].msg.score <= now'
  <2>0. \A j \in 1..Len(pubq[q]) : /\ pubq[q][j].msg.score <= now
                                   /\ pubq[q][j].msg.score \in Nat
    <3>1. pubq[q] \in Seq(Cmd)
      BY <1>5
    <3>2. \A j \in 1..Len(pubq[q]) : pubq[q][j] \in Cmd
      BY <3>1, ElementOfSeq
    <3> QED BY <3>2 DEF IInv, StoreInv, Message
  <2>1. CASE q # p
    BY <2>0, <2>1, <1>7, <1>2, <1>8
  <2>2. CASE q = p
    <3>1. /\ Len(pubq'[p]) = Len(pubq[p]) + Len(two) /\ Len(pubq[p]) \in Nat
          /\ pubq'[p][k] = IF k <= Len(pubq[p]) THEN pubq[p][k]
                                                ELSE two[k - Len(pubq[p])]
      <4>1. /\ Len(pubq[p] \o two) = Len(pubq[p]) + Len(two)
            /\ \A j \in 1..Len(pubq[p]) + Len(two) :
                 (pubq[p] \o two)[j] = IF j <= Len(pubq[p]) THEN pubq[p][j]
                                                            ELSE two[j - Len(pubq[p])]
        BY <1>4, <1>5, ConcatProperties
      <4>2. k \in 1..Len(pubq[p]) + Len(two)
        BY <4>1, <2>2, <1>7, <1>8
      <4>3. Len(pubq[p]) \in Nat
        BY <1>5, LenProperties
      <4> QED BY <4>1, <4>2, <4>3, <1>7
    <3>2. CASE k <= Len(pubq[p])
      BY <3>1, <3>2, <2>0, <2>2, <1>2, SMTT(20)
    <3>3. CASE ~(k <= Len(pubq[p]))
      <4>1. k - Len(pubq[p]) \in {1, 2}
        BY <3>1, <3>3, <2>2, <1>4, <1>8
      <4> QED BY <4>1, <3>1, <3>3, <2>2, <1>1, <1>2, <1>3, <1>4
    <3> QED BY <3>2, <3>3
  <2> QED BY <2>1, <2>2
<1>9. \A z \in zset : z.score <= now'
  BY <1>2 DEF IInv, StoreInv, TypeOK, Message
<1>10. TypeOK'
  BY <1>1, <1>2 DEF IInv, TypeOK
<1>11. PipeTypes' /\ PointersInv'
  BY <1>1, <1>7 DEF IInv, PipeTypes, PointersInv, Alive
<1>12. StoreInv'
  BY <1>1, <1>8, <1>9 DEF IInv, StoreInv
<1> QED BY <1>10, <1>11, <1>12 DEF IInv

\* New requests point at the living context, old ones at what they pointed at.
LEMMA PointersKept ==
  ASSUME IInv, UNCHANGED <<live, gen>>,
         \A e \in Entries(cq') \cup Entries(cr') :
           e \in Entries(cq) \cup Entries(cr) \/ Alive(e)
  PROVE  PointersInv'
BY DEF IInv, PointersInv, Alive

\* A connection that breaks takes the commands on their way with it.
LEMMA PublisherDropsKeeps ==
  ASSUME IInv, NEW p \in Publishers, PublisherDrops(p)
  PROVE  IInv'
<1> DEFINE Cmd == [op : {"ZADD", "PUBLISH"}, msg : Message]
<1>1. /\ pubq' = [pubq EXCEPT ![p] = <<>>]
      /\ UNCHANGED <<now, pubs, zset, session, subscribed, cq, cr, sq, sr, live, gen, joined,
                     calls, drops, due, announced, delivered>>
  BY DEF PublisherDrops, server, pipes, client, bounds, history
<1>2. pubq \in [Publishers -> Seq(Cmd)]
  BY DEF IInv, PipeTypes
<1>3. /\ pubq' \in [Publishers -> Seq(Cmd)] /\ pubq'[p] = <<>>
      /\ \A q \in Publishers : q # p => pubq'[q] = pubq[q]
  <2>1. <<>> \in Seq(Cmd)
    OBVIOUS
  <2> QED BY <2>1, <1>1, <1>2
<1>4. TypeOK' /\ PipeTypes' /\ PointersInv'
  BY <1>1, <1>3 DEF IInv, TypeOK, PipeTypes, PointersInv, Alive
<1>5. \A q \in Publishers : \A k \in 1..Len(pubq'[q]) : pubq'[q][k].msg.score <= now
  BY <1>3 DEF IInv, StoreInv
<1> QED BY <1>1, <1>4, <1>5 DEF IInv, StoreInv

\* ZADD stores, PUBLISH announces.
LEMMA RunsPubKeeps ==
  ASSUME IInv, NEW p \in Publishers, RedisRunsPub(p)
  PROVE  IInv'
<1> DEFINE Cmd == [op : {"ZADD", "PUBLISH"}, msg : Message]
           cmd == Head(pubq[p])
<1>1. /\ pubq[p] # <<>> /\ pubq' = [pubq EXCEPT ![p] = Tail(pubq[p])]
      /\ UNCHANGED <<now, pubs, session, subscribed, cq, cr, sq, live, gen, joined, calls,
                     drops, delivered>>
  BY DEF RedisRunsPub, client, bounds
<1>2. pubq \in [Publishers -> Seq(Cmd)] /\ pubq[p] \in Seq(Cmd)
  BY DEF IInv, PipeTypes
<1>3. /\ cmd \in Cmd /\ Tail(pubq[p]) \in Seq(Cmd)
      /\ Len(pubq[p]) \in Nat \ {0}
      /\ \A k \in 1..Len(Tail(pubq[p])) : /\ k + 1 \in 1..Len(pubq[p])
                                         /\ Tail(pubq[p])[k] = pubq[p][k + 1]
  BY <1>1, <1>2, TailEntries
<1>4. cmd.msg \in Message /\ cmd.msg.score <= now
  <2>1. cmd = pubq[p][1] /\ 1 \in 1..Len(pubq[p])
    BY <1>2, <1>3
  <2> QED BY <2>1, <1>3 DEF IInv, StoreInv
<1>5. /\ zset' = zset \cup {cmd.msg} \/ zset' = zset
      /\ due' = due \cup {cmd.msg} \/ due' = due
      /\ sr' = sr \/ sr' = Append(sr, [op |-> "message", n |-> 0])
  BY DEF RedisRunsPub
<1>6. /\ pubq' \in [Publishers -> Seq(Cmd)] /\ pubq'[p] = Tail(pubq[p])
      /\ \A q \in Publishers : q # p => pubq'[q] = pubq[q]
  BY <1>1, <1>2, <1>3
<1>7. sr' \in Seq([op : {"subscribe", "unsubscribe", "message"}, n : Nat])
  <2>1. /\ sr \in Seq([op : {"subscribe", "unsubscribe", "message"}, n : Nat])
        /\ [op |-> "message", n |-> 0]
             \in [op : {"subscribe", "unsubscribe", "message"}, n : Nat]
    BY DEF IInv, PipeTypes
  <2>2. Append(sr, [op |-> "message", n |-> 0])
          \in Seq([op : {"subscribe", "unsubscribe", "message"}, n : Nat])
    BY <2>1, AppendEntries
  <2>3. sr' = sr \/ sr' = Append(sr, [op |-> "message", n |-> 0])
    BY <1>5
  <2> QED BY <2>1, <2>2, <2>3, Zenon
<1>8. \A k \in 1..Len(sr') : sr'[k].n \in Nat
  <2>1. \A k \in 1..Len(sr') :
          sr'[k] \in [op : {"subscribe", "unsubscribe", "message"}, n : Nat]
    BY <1>7, ElementOfSeq
  <2> QED BY <2>1
<1>9. TypeOK'
  BY <1>1, <1>4, <1>5, <1>8 DEF IInv, TypeOK
<1>10. PipeTypes' /\ PointersInv'
  BY <1>1, <1>6, <1>7 DEF IInv, PipeTypes, PointersInv, Alive
<1>11. IsFiniteSet(zset') /\ zset \subseteq zset' /\ \A z \in zset' : z.score <= now
  BY <1>4, <1>5, FS_AddElement DEF IInv, StoreInv
<1>12. ASSUME NEW q \in Publishers, NEW k \in 1..Len(pubq'[q])
       PROVE  pubq'[q][k].msg.score <= now
  <2>1. CASE q = p
    BY <2>1, <1>3, <1>6, <1>12 DEF IInv, StoreInv
  <2>2. CASE q # p
    BY <2>2, <1>6, <1>12 DEF IInv, StoreInv
  <2> QED BY <2>1, <2>2
<1>13. StoreInv'
  BY <1>1, <1>11, <1>12 DEF IInv, StoreInv
<1> QED BY <1>9, <1>10, <1>13 DEF IInv

\* hp_subc, hp_sub, hp_sub_session, hp_unsub.
LEMMA CallsKeep ==
  ASSUME IInv,
         \/ hp_subc \/ hp_sub_session \/ hp_unsub
         \/ \E T \in (SUBSET Topics) \ {{}} : hp_sub(T)
  PROVE  IInv'
<1> DEFINE Sub == [op : {"SUBSCRIBE", "UNSUBSCRIBE"}, topics : SUBSET Topics]
<1>1. UNCHANGED <<now, pubs, pubq, zset, session, subscribed, cr, sr, drops, due, announced,
                  delivered>>
  BY DEF hp_subc, hp_sub, hp_sub_session, hp_unsub, server, pipes, bounds, history, client
<1>2. StoreInv'
  BY <1>1 DEF IInv, StoreInv
<1>t. cq \in Seq(Request) /\ sq \in Seq(Sub)
  BY DEF IInv, PipeTypes
<1>3. CASE hp_subc
  <2>1. ~live /\ live' = TRUE /\ gen' = gen + 1 /\ joined' = FALSE
        /\ UNCHANGED <<cq, cr, sq, sr, calls>>
    BY <1>3 DEF hp_subc, pipes, bounds
  <2>2. PointersInv'
    BY <2>1 DEF IInv, PointersInv, Alive
  <2>t. TypeOK'
    <3>1. gen' \in Nat /\ live' \in BOOLEAN /\ joined' \in BOOLEAN
      <4>1. live' = TRUE /\ joined' = FALSE /\ gen' = gen + 1
        BY <2>1
      <4>2. gen \in Nat
        BY DEF IInv, TypeOK
      <4>3. gen' \in Nat
        BY <4>1, <4>2
      <4> QED BY <4>1, <4>3
    <3>2. UNCHANGED <<calls, sr>>
      BY <2>1
    <3> QED BY <3>1, <3>2, <1>1 DEF IInv, TypeOK
  <2>3. PipeTypes'
    BY <2>1, <1>1 DEF IInv, PipeTypes
  <2> QED BY <2>t, <2>2, <2>3, <1>2 DEF IInv
<1>4. CASE hp_unsub
  <2>1. /\ sq' = Append(sq, [op |-> "UNSUBSCRIBE", topics |-> {}])
        /\ calls' = calls + 1 /\ UNCHANGED <<cq, live, gen, joined>>
    BY <1>4 DEF hp_unsub, MayCall, client
  <2>2. sq' \in Seq(Sub)
    <3>1. [op |-> "UNSUBSCRIBE", topics |-> {}] \in Sub
      OBVIOUS
    <3> QED BY <3>1, <2>1, <1>t, AppendEntries
  <2>t. TypeOK'
    BY <2>1, <2>2, <1>1 DEF IInv, TypeOK
  <2>3. PipeTypes'
    BY <2>1, <2>2, <1>1 DEF IInv, PipeTypes
  <2> QED BY <2>t, <2>1, <2>3, <1>1, <1>2, PointersKept DEF IInv
<1>5. CASE hp_sub_session
  <2>1. /\ cq' = Append(cq, [op |-> "HKEYS", s |-> Pointer]) /\ joined' = TRUE
        /\ calls' = calls + 1 /\ UNCHANGED <<sq, live, gen>> /\ live
    BY <1>5 DEF hp_sub_session, MayCall
  <2>2. Pointer = gen /\ Pointer \in Nat
    BY <2>1 DEF Pointer, IInv, TypeOK
  <2>3. [op |-> "HKEYS", s |-> Pointer] \in Request
    BY <2>2 DEF Request
  <2>4. /\ cq' \in Seq(Request)
        /\ Entries(cq') = Entries(cq) \cup {[op |-> "HKEYS", s |-> Pointer]}
    BY <2>1, <2>3, <1>t, AppendEntries
  <2>5. Alive([op |-> "HKEYS", s |-> Pointer])
    BY <2>1, <2>2 DEF Alive
  <2>t. TypeOK'
    BY <2>1, <2>4, <1>1 DEF IInv, TypeOK
  <2>6. PipeTypes'
    BY <2>1, <2>4, <1>1 DEF IInv, PipeTypes
  <2> QED BY <2>t, <2>1, <2>4, <2>5, <2>6, <1>1, <1>2, PointersKept DEF IInv
<1>6. ASSUME NEW T \in SUBSET Topics, hp_sub(T)
      PROVE  IInv'
  <2>1. /\ cq' = Append(cq, hp_sub_sup(T)) /\ sq' = Append(sq, hp_sub_dosub(T))
        /\ joined' = TRUE /\ calls' = calls + 1 /\ UNCHANGED <<live, gen>>
    BY <1>6 DEF hp_sub, MayCall
  <2>2. hp_sub_sup(T) \in Request /\ hp_sub_dosub(T) \in Sub
    BY DEF hp_sub_sup, hp_sub_dosub, Request
  <2>3. cq' \in Seq(Request) /\ Entries(cq') = Entries(cq) \cup {hp_sub_sup(T)}
    BY <2>1, <2>2, <1>t, AppendEntries
  <2>4. sq' \in Seq(Sub)
    BY <2>1, <2>2, <1>t, AppendEntries
  <2>5. Alive(hp_sub_sup(T))
    BY DEF Alive, hp_sub_sup
  <2>t. TypeOK'
    BY <2>1, <2>3, <2>4, <1>1 DEF IInv, TypeOK
  <2>6. PipeTypes'
    BY <2>1, <2>3, <2>4, <1>1 DEF IInv, PipeTypes
  <2> QED BY <2>t, <2>1, <2>3, <2>5, <2>6, <1>1, <1>2, PointersKept DEF IInv
<1> QED BY <1>3, <1>4, <1>5, <1>6

\* A command on c, by what it is.
LEMMA RunsC ==
  ASSUME IInv, RedisRunsC
  PROVE  /\ cq # <<>> /\ cq' = Tail(cq) /\ cq' \in Seq(Request)
         /\ Entries(cq') \subseteq Entries(cq)
         /\ UNCHANGED <<now, pubs, pubq, zset, subscribed, sq, sr, live, gen, joined, calls,
                        drops, delivered, announced>>
         /\ LET cmd == Head(cq)
            IN  /\ cmd \in Request /\ cmd \in Entries(cq)
                /\ \/ /\ cmd.op = "SUP" /\ cmd.topics \subseteq Topics
                      /\ session' = Sup(cmd.topics) /\ cr' = cr
                      /\ due' = {m \in due : m.topic \in cmd.topics}
                   \/ /\ cmd.op = "HSET" /\ cmd.topic \in Topics /\ cmd.score \in Nat
                      /\ session' = [t \in DOMAIN session \cup {cmd.topic} |->
                                       IF t = cmd.topic THEN cmd.score ELSE session[t]]
                      /\ UNCHANGED <<cr, due>>
                   \/ /\ cmd.op = "HKEYS" /\ cmd.s \in Nat
                      /\ cr' = Append(cr, [op |-> "keys", s |-> cmd.s,
                                           topics |-> DOMAIN session])
                      /\ UNCHANGED <<session, due>>
                   \/ /\ cmd.op = "QUERY" /\ cmd.s \in Nat
                      /\ cr' = Append(cr, [op |-> "all", s |-> cmd.s,
                                           msgs |-> Unacknowledged])
                      /\ UNCHANGED <<session, due>>
<1> DEFINE cmd == Head(cq)
<1>1. cq # <<>> /\ cq' = Tail(cq) /\ cq \in Seq(Request)
  BY DEF RedisRunsC, IInv, PipeTypes
<1>2. /\ cmd \in Request /\ cmd \in Entries(cq) /\ Tail(cq) \in Seq(Request)
      /\ Entries(Tail(cq)) \subseteq Entries(cq)
  BY <1>1, TailEntries
<1>3. UNCHANGED <<now, pubs, pubq, zset, subscribed, sq, sr, live, gen, joined, calls,
                  drops, delivered, announced>>
  BY DEF RedisRunsC, client, bounds
<1>4. CASE cmd \in [op : {"SUP"}, topics : SUBSET Topics]
  BY <1>1, <1>2, <1>3, <1>4 DEF RedisRunsC
<1>5. CASE cmd \in [op : {"HSET"}, topic : Topics, score : Nat]
  BY <1>1, <1>2, <1>3, <1>5 DEF RedisRunsC
<1>6. CASE cmd \in [op : {"HKEYS", "QUERY"}, s : Nat]
  BY <1>1, <1>2, <1>3, <1>6 DEF RedisRunsC
<1> QED BY <1>2, <1>4, <1>5, <1>6 DEF Request

\* sup.lua, HSET, HKEYS, sub.lua.
LEMMA RunsCKeeps ==
  ASSUME IInv, RedisRunsC
  PROVE  IInv'
<1> DEFINE cmd == Head(cq)
<1>1. /\ cq' \in Seq(Request) /\ Entries(cq') \subseteq Entries(cq)
      /\ UNCHANGED <<now, pubs, pubq, zset, subscribed, sq, sr, live, gen, joined, calls,
                     drops, delivered, announced>>
      /\ cmd \in Entries(cq)
  BY RunsC
<1>t. /\ cr \in Seq(Answer) /\ zset \subseteq Message
      /\ DOMAIN session \subseteq Topics /\ \A t \in DOMAIN session : session[t] \in Nat
      /\ Alive(cmd)
  BY <1>1 DEF IInv, PipeTypes, TypeOK, PointersInv
<1>2. ASSUME DOMAIN session' \subseteq Topics, \A t \in DOMAIN session' : session'[t] \in Nat,
             due' \subseteq due
      PROVE  TypeOK'
  BY <1>1, <1>2 DEF IInv, TypeOK
<1>3. ASSUME UNCHANGED cr
      PROVE  PipeTypes' /\ PointersInv' /\ StoreInv'
  <2>1. PipeTypes'
    BY <1>1, <1>3 DEF IInv, PipeTypes
  <2>2. PointersInv'
    BY <1>1, <1>3, PointersKept
  <2>3. StoreInv'
    BY <1>1, <1>3 DEF IInv, StoreInv
  <2> QED BY <2>1, <2>2, <2>3
<1>4. ASSUME NEW e \in Answer, cr' = Append(cr, e), Alive(e),
             e.op = "all" => e.msgs \subseteq zset
      PROVE  PipeTypes' /\ PointersInv' /\ StoreInv'
  <2>1. cr' \in Seq(Answer) /\ Entries(cr') = Entries(cr) \cup {e}
    BY <1>t, <1>4, AppendEntries
  <2>2. PipeTypes'
    BY <1>1, <2>1 DEF IInv, PipeTypes
  <2>3. PointersInv'
    BY <1>1, <1>4, <2>1, PointersKept
  <2>4. StoreInv'
    BY <1>1, <1>4, <2>1 DEF IInv, StoreInv
  <2> QED BY <2>2, <2>3, <2>4
<1>5. CASE cmd.op = "SUP"
  <2>1. /\ cmd.topics \subseteq Topics /\ session' = Sup(cmd.topics) /\ cr' = cr
        /\ due' = {m \in due : m.topic \in cmd.topics}
    BY <1>5, RunsC
  <2>2. DOMAIN session' = cmd.topics
    BY <2>1 DEF Sup
  <2>3. ASSUME NEW t \in cmd.topics
        PROVE  session'[t] \in Nat
    <3>1. session'[t] = IF t \in DOMAIN session THEN session[t] ELSE Latest(t)
      BY <2>1 DEF Sup
    <3> QED BY <3>1, <2>1, <1>t, LatestIs
  <2> QED BY <2>1, <2>2, <2>3, <1>2, <1>3 DEF IInv
<1>6. CASE cmd.op = "HSET"
  <2>1. /\ cmd.topic \in Topics /\ cmd.score \in Nat
        /\ session' = [t \in DOMAIN session \cup {cmd.topic} |->
                         IF t = cmd.topic THEN cmd.score ELSE session[t]]
        /\ UNCHANGED <<cr, due>>
    BY <1>6, RunsC
  <2>2. DOMAIN session' \subseteq Topics /\ \A t \in DOMAIN session' : session'[t] \in Nat
    BY <2>1, <1>t
  <2> QED BY <2>1, <2>2, <1>2, <1>3 DEF IInv
<1>7. CASE cmd.op = "HKEYS"
  <2> DEFINE e == [op |-> "keys", s |-> cmd.s, topics |-> DOMAIN session]
  <2>1. cmd.s \in Nat /\ cr' = Append(cr, e) /\ UNCHANGED <<session, due>>
    BY <1>7, RunsC
  <2>2. e \in Answer
    BY <2>1, <1>t DEF Answer
  <2>3. Alive(e)
    BY <1>7, <1>t DEF Alive
  <2> QED BY <2>1, <2>2, <2>3, <1>t, <1>2, <1>4 DEF IInv
<1>8. CASE cmd.op = "QUERY"
  <2> DEFINE e == [op |-> "all", s |-> cmd.s, msgs |-> Unacknowledged]
  <2>1. cmd.s \in Nat /\ cr' = Append(cr, e) /\ UNCHANGED <<session, due>>
    BY <1>8, RunsC
  <2>2. Unacknowledged \subseteq zset
    BY DEF Unacknowledged
  <2>3. e \in Answer
    BY <2>1, <2>2, <1>t DEF Answer
  <2>4. Alive(e)
    BY <1>8, <1>t DEF Alive
  <2> QED BY <2>1, <2>2, <2>3, <2>4, <1>t, <1>2, <1>4 DEF IInv
<1> QED BY <1>5, <1>6, <1>7, <1>8, RunsC

\* SUBSCRIBE and UNSUBSCRIBE: the answers count the channels.
LEMMA RunsSubKeeps ==
  ASSUME IInv, RedisRunsSub
  PROVE  IInv'
<1> DEFINE Sub == [op : {"SUBSCRIBE", "UNSUBSCRIBE"}, topics : SUBSET Topics]
           Told == [op : {"subscribe", "unsubscribe", "message"}, n : Nat]
           T == Head(sq).topics
<1>1. /\ sq # <<>> /\ sq' = Tail(sq) /\ sq \in Seq(Sub) /\ sr \in Seq(Told)
      /\ UNCHANGED <<now, pubs, pubq, zset, session, cq, cr, live, gen, joined, calls, drops,
                     due, announced, delivered>>
  BY DEF RedisRunsSub, client, bounds, history, IInv, PipeTypes
<1>2. Head(sq) \in Sub /\ sq' \in Seq(Sub)
  BY <1>1, TailEntries
<1>3. /\ subscribed \subseteq Topics /\ IsFiniteSet(subscribed) /\ T \subseteq Topics
      /\ IsFiniteSet(T)
  BY <1>2, TopicsAssumption, FS_Subset DEF IInv, TypeOK
<1>4. ASSUME NEW r \in Seq(Told), sr' = sr \o r, subscribed' \subseteq Topics
      PROVE  IInv'
  <2>1. sr' \in Seq(Told)
    BY <1>1, <1>4, ConcatProperties
  <2>2. \A k \in 1..Len(sr') : sr'[k] \in Told
    BY <2>1, ElementOfSeq
  <2>3. TypeOK'
    BY <1>1, <1>4, <2>2 DEF IInv, TypeOK
  <2>4. PipeTypes' /\ PointersInv' /\ StoreInv'
    BY <1>1, <1>2, <2>1 DEF IInv, PipeTypes, PointersInv, Alive, StoreInv
  <2> QED BY <2>3, <2>4 DEF IInv
<1>5. CASE Head(sq).op = "SUBSCRIBE"
  <2>1. PICK o \in Orders(T) :
          sr' = sr \o [k \in DOMAIN o |->
                        [op |-> "subscribe",
                         n |-> Cardinality(subscribed \cup {o[j] : j \in 1..k})]]
    BY <1>5 DEF RedisRunsSub
  <2>2. /\ Cardinality(T) \in Nat /\ DOMAIN o = 1..Cardinality(T)
        /\ o \in [1..Cardinality(T) -> T]
    BY <1>3, OrderIs
  <2> DEFINE r == [k \in DOMAIN o |->
                    [op |-> "subscribe",
                     n |-> Cardinality(subscribed \cup {o[j] : j \in 1..k})]]
  <2>3. ASSUME NEW k \in 1..Cardinality(T)
        PROVE  Cardinality(subscribed \cup {o[j] : j \in 1..k}) \in Nat
    <3>1. {o[j] : j \in 1..k} \subseteq T
      <4>1. 1..k \subseteq 1..Cardinality(T)
        BY <2>2
      <4> QED BY <4>1, <2>2
    <3>2. subscribed \cup {o[j] : j \in 1..k} \subseteq Topics
      BY <3>1, <1>3
    <3>3. IsFiniteSet(subscribed \cup {o[j] : j \in 1..k})
      BY <3>2, TopicsAssumption, FS_Subset
    <3> QED BY <3>3, FS_CardinalityType
  <2>4. r \in [1..Cardinality(T) -> Told]
    BY <2>2, <2>3
  <2>5. r \in Seq(Told)
    BY <2>2, <2>4, FcnIsSeq
  <2>6. sr' = sr \o r
    BY <2>1
  <2> HIDE DEF r
  <2>7. subscribed' = subscribed \cup T
    BY <1>5 DEF RedisRunsSub
  <2> QED BY <2>5, <2>6, <2>7, <1>3, <1>4
<1>6. CASE Head(sq).op # "SUBSCRIBE"
  <2> DEFINE one == <<[op |-> "unsubscribe", n |-> 0]>>
             all == [k \in 1..Cardinality(subscribed) |->
                      [op |-> "unsubscribe", n |-> Cardinality(subscribed) - k]]
  <2>1. /\ subscribed' = {} /\ sr' = sr \o (IF subscribed = {} THEN one ELSE all)
    BY <1>6 DEF RedisRunsSub
  <2>2. one \in Seq(Told)
    OBVIOUS
  <2>3. all \in Seq(Told)
    <3>1. Cardinality(subscribed) \in Nat
      BY <1>3, FS_CardinalityType
    <3>2. all \in [1..Cardinality(subscribed) -> Told]
      BY <3>1
    <3> QED BY <3>1, <3>2, FcnIsSeq
  <2> HIDE DEF one, all
  <2>4. (IF subscribed = {} THEN one ELSE all) \in Seq(Told)
    BY <2>2, <2>3
  <2> QED BY <2>1, <2>4, <1>4
<1> QED BY <1>5, <1>6

\* The requests with which hp_sub_all_cb's callbacks acknowledge.
Acks(s) == [k \in DOMAIN s |-> [op |-> "HSET", topic |-> s[k].topic, score |-> s[k].score]]

\* Each of them acknowledges a message of the answer.
LEMMA AcksType ==
  ASSUME NEW M \in SUBSET Message, IsFiniteSet(M), NEW s \in Sortings(M)
  PROVE  /\ Acks(s) \in Seq(Request)
         /\ \A e \in Entries(Acks(s)) : \E x \in M :
              e.op = "HSET" /\ e.topic = x.topic /\ e.score = x.score
<1>1. /\ Cardinality(M) \in Nat /\ DOMAIN s = 1..Cardinality(M)
      /\ s \in [1..Cardinality(M) -> M]
  BY OrderIs DEF Sortings
<1>2. \A k \in 1..Cardinality(M) : s[k] \in M
  BY <1>1
<1> DEFINE a == Acks(s)
<1>3. /\ a = [k \in 1..Cardinality(M) |->
               [op |-> "HSET", topic |-> s[k].topic, score |-> s[k].score]]
  BY <1>1 DEF Acks
<1>4. a \in [1..Cardinality(M) -> Request]
  <2>1. ASSUME NEW k \in 1..Cardinality(M)
        PROVE  [op |-> "HSET", topic |-> s[k].topic, score |-> s[k].score] \in Request
    <3>1. s[k].topic \in Topics /\ s[k].score \in Nat
      BY <1>2 DEF Message
    <3> QED BY <3>1 DEF Request
  <2> QED BY <2>1, <1>3
<1>5. a \in Seq(Request) /\ Len(a) = Cardinality(M)
  BY <1>1, <1>4, FcnIsSeq
<1>6. \A k \in 1..Cardinality(M) : \E x \in M :
        a[k].op = "HSET" /\ a[k].topic = x.topic /\ a[k].score = x.score
  BY <1>2, <1>3
<1> QED BY <1>5, <1>6 DEF Entries

\* msg_cb, hp_sub_session_cb, hp_sub_all_cb.
LEMMA RepliesKeep ==
  ASSUME IInv, Replies
  PROVE  IInv'
<1> DEFINE Sub == [op : {"SUBSCRIBE", "UNSUBSCRIBE"}, topics : SUBSET Topics]
           Told == [op : {"subscribe", "unsubscribe", "message"}, n : Nat]
<1>1. UNCHANGED <<now, pubs, pubq, zset, session, subscribed, live, gen, joined, calls,
                  drops, due, announced>>
  BY DEF Replies, msg_cb, hp_sub_session_cb, hp_sub_all_cb, server, client, bounds, history
<1>t. /\ cq \in Seq(Request) /\ cr \in Seq(Answer) /\ sq \in Seq(Sub) /\ sr \in Seq(Told)
      /\ zset \subseteq Message /\ IsFiniteSet(zset) /\ gen \in Nat
      /\ delivered \subseteq Message
  BY DEF IInv, PipeTypes, TypeOK, StoreInv
<1>2. CASE msg_cb
  <2>1. /\ sr # <<>> /\ sr' = Tail(sr) /\ UNCHANGED <<cr, sq, delivered>>
        /\ cq' = IF WantsQuery(Head(sr)) THEN Append(cq, hp_sub_all) ELSE cq
    BY <1>2 DEF msg_cb, history
  <2>2. sr' \in Seq(Told)
    BY <2>1, <1>t, TailEntries
  <2>3. \A k \in 1..Len(sr') : sr'[k] \in Told
    BY <2>2, ElementOfSeq
  <2>4. hp_sub_all \in Request /\ Alive(hp_sub_all)
    BY <1>t DEF hp_sub_all, Request, Pointer, Alive
  <2>5. cq' \in Seq(Request) /\ \A e \in Entries(cq') : e \in Entries(cq) \/ Alive(e)
    BY <2>1, <2>4, <1>t, AppendEntries
  <2>6. TypeOK'
    BY <1>1, <2>1, <2>3 DEF IInv, TypeOK
  <2>7. PipeTypes' /\ StoreInv'
    BY <1>1, <2>1, <2>2, <2>5 DEF IInv, PipeTypes, StoreInv
  <2>8. PointersInv'
    BY <1>1, <2>1, <2>5, PointersKept
  <2> QED BY <2>6, <2>7, <2>8 DEF IInv
<1>3. CASE hp_sub_session_cb
  <2>1. /\ cr # <<>> /\ Head(cr).op = "keys" /\ cr' = Tail(cr)
        /\ UNCHANGED <<cq, sr, delivered>>
        /\ sq' = sq \/ sq' = Append(sq, hp_sub_dosub(Head(cr).topics))
    BY <1>3 DEF hp_sub_session_cb, history
  <2>2. Head(cr) \in Answer /\ cr' \in Seq(Answer) /\ Entries(cr') \subseteq Entries(cr)
    BY <2>1, <1>t, TailEntries
  <2>3. hp_sub_dosub(Head(cr).topics) \in Sub
    BY <2>1, <2>2 DEF Answer, hp_sub_dosub
  <2>4. sq' \in Seq(Sub)
    <3>1. Append(sq, hp_sub_dosub(Head(cr).topics)) \in Seq(Sub)
      BY <2>3, <1>t, AppendEntries
    <3> QED BY <3>1, <2>1, <1>t
  <2>5. TypeOK'
    BY <1>1, <2>1 DEF IInv, TypeOK
  <2>6. PipeTypes' /\ StoreInv'
    BY <1>1, <2>1, <2>2, <2>4 DEF IInv, PipeTypes, StoreInv
  <2>7. PointersInv'
    BY <1>1, <2>1, <2>2, PointersKept
  <2> QED BY <2>5, <2>6, <2>7 DEF IInv
<1>4. CASE hp_sub_all_cb
  <2> DEFINE M == Head(cr).msgs
  <2>1. /\ cr # <<>> /\ Head(cr).op = "all" /\ cr' = Tail(cr) /\ UNCHANGED <<sq, sr>>
        /\ \/ /\ delivered' = delivered \cup M
              /\ \E s \in Sortings(M) : cq' = cq \o Acks(s)
           \/ UNCHANGED <<delivered, cq>>
    BY <1>4 DEF hp_sub_all_cb, Acks
  <2>2. /\ Head(cr) \in Answer /\ Head(cr) \in Entries(cr)
        /\ cr' \in Seq(Answer) /\ Entries(cr') \subseteq Entries(cr)
    BY <2>1, <1>t, TailEntries
  <2>3. M \subseteq zset /\ M \in SUBSET Message /\ IsFiniteSet(M)
    BY <2>1, <2>2, <1>t, FS_Subset DEF IInv, StoreInv
  <2>4. cq' \in Seq(Request) /\ \A e \in Entries(cq') : e \in Entries(cq) \/ Alive(e)
    <3>1. ASSUME NEW s \in Sortings(M), cq' = cq \o Acks(s)
          PROVE  /\ cq' \in Seq(Request)
                 /\ \A e \in Entries(cq') : e \in Entries(cq) \/ Alive(e)
      <4>1. /\ Acks(s) \in Seq(Request) /\ \A e \in Entries(Acks(s)) : e.op = "HSET"
        BY <2>3, AcksType
      <4>2. cq' \in Seq(Request) /\ Entries(cq') = Entries(cq) \cup Entries(Acks(s))
        BY <3>1, <4>1, <1>t, ConcatEntries
      <4> QED BY <4>1, <4>2 DEF Alive
    <3>2. CASE UNCHANGED cq
      BY <3>2, <1>t
    <3> QED BY <3>1, <3>2, <2>1
  <2>5. TypeOK'
    BY <1>1, <2>1, <2>3, <1>t DEF IInv, TypeOK
  <2>6. PipeTypes' /\ StoreInv'
    BY <1>1, <2>1, <2>2, <2>4 DEF IInv, PipeTypes, StoreInv
  <2>7. PointersInv'
    BY <1>1, <2>2, <2>4, PointersKept
  <2> QED BY <2>5, <2>6, <2>7 DEF IInv
<1> QED BY <1>2, <1>3, <1>4 DEF Replies

\* Lost connections and restarts: what is left on the pipes has no context.
LEMMA FailuresKeep ==
  ASSUME IInv, Disconnect \/ Crash
  PROVE  IInv'
<1>t. cq \in Seq(Request) /\ cr \in Seq(Answer)
  BY DEF IInv, PipeTypes
<1>1. /\ UNCHANGED <<now, pubs, pubq, zset, session, gen, joined, calls, due, announced,
                     delivered>>
      /\ drops' = drops + 1 /\ live' = FALSE /\ subscribed' = {}
      /\ sq' = <<>> /\ sr' = <<>>
      /\ \/ cq' = hp_subc_free(cq) /\ cr' = hp_subc_free(cr)
         \/ cq' = <<>> /\ cr' = <<>>
  BY DEF Disconnect, Crash, history
<1>2. /\ cq' \in Seq(Request) /\ cr' \in Seq(Answer)
      /\ \A e \in Entries(cq') \cup Entries(cr') :
           e.op \in {"HKEYS", "QUERY", "keys", "all"} => e.s = 0
      /\ \A e \in Entries(cr') : e.op = "all" =>
           \E f \in Entries(cr) : f.op = "all" /\ e.msgs = f.msgs
  <2>1. CASE cq' = hp_subc_free(cq) /\ cr' = hp_subc_free(cr)
    BY <2>1, <1>t, FreeEntries
  <2>2. CASE cq' = <<>> /\ cr' = <<>>
    BY <2>2 DEF Entries
  <2> QED BY <1>1, <2>1, <2>2
<1>3. TypeOK'
  <2>1. live' \in BOOLEAN
    BY <1>1
  <2>2. drops' \in Nat
    <3>1. drops \in Nat /\ drops' = drops + 1
      BY <1>1 DEF IInv, TypeOK
    <3> QED BY <3>1
  <2> QED BY <2>1, <2>2, <1>1 DEF IInv, TypeOK
<1>4. PipeTypes'
  <2>1. /\ sq' \in Seq([op : {"SUBSCRIBE", "UNSUBSCRIBE"}, topics : SUBSET Topics])
        /\ sr' \in Seq([op : {"subscribe", "unsubscribe", "message"}, n : Nat])
    BY <1>1
  <2> QED BY <2>1, <1>1, <1>2 DEF IInv, PipeTypes
<1>5. PointersInv'
  BY <1>2 DEF PointersInv, Alive
<1>6. StoreInv'
  BY <1>1, <1>2 DEF IInv, StoreInv
<1> QED BY <1>3, <1>4, <1>5, <1>6 DEF IInv

\* Every step keeps types and pointers.
LEMMA StepKeeps == IInv /\ [Next]_vars => IInv'
<1>1. SUFFICES ASSUME IInv, [Next]_vars PROVE IInv'
  OBVIOUS
<1>2. CASE Publish
  BY <1>1, <1>2, PublishKeeps DEF Publish
<1>3. CASE \E p \in Publishers : PublisherDrops(p)
  BY <1>1, <1>3, PublisherDropsKeeps
<1>4. CASE \/ hp_subc \/ hp_sub_session \/ hp_unsub
           \/ \E T \in (SUBSET Topics) \ {{}} : hp_sub(T)
  BY <1>1, <1>4, CallsKeep
<1>5. CASE Redis
  BY <1>1, <1>5, RunsCKeeps, RunsSubKeeps, RunsPubKeeps DEF Redis
<1>6. CASE Replies
  BY <1>1, <1>6, RepliesKeep
<1>7. CASE Disconnect \/ Crash
  BY <1>1, <1>7, FailuresKeep
<1>8. CASE UNCHANGED vars
  <2>1. TypeOK'
    BY <1>1, <1>8 DEF vars, IInv, TypeOK
  <2>2. PipeTypes' /\ PointersInv' /\ StoreInv'
    BY <1>1, <1>8 DEF vars, IInv, PipeTypes, PointersInv, Alive, StoreInv
  <2> QED BY <2>1, <2>2 DEF IInv
<1> QED BY <1>1, <1>2, <1>3, <1>4, <1>5, <1>6, <1>7, <1>8 DEF Next

\* Nothing is stored and nothing is on its way.
LEMMA InitHolds == Init => IInv
<1>1. SUFFICES ASSUME Init PROVE IInv
  OBVIOUS
<1>2. TypeOK
  <2>1. DOMAIN session = {} /\ Len(sr) = 0
    BY <1>1 DEF Init
  <2>2. live \in BOOLEAN /\ joined \in BOOLEAN
    BY <1>1 DEF Init
  <2> QED BY <1>1, <2>1, <2>2 DEF Init, TypeOK
<1>3. PipeTypes
  BY <1>1 DEF Init, PipeTypes
<1>4. PointersInv /\ StoreInv
  BY <1>1, FS_EmptySet DEF Init, PointersInv, StoreInv, Entries
<1> QED BY <1>2, <1>3, <1>4 DEF IInv

\* The invariant of types and pointers holds in every behaviour.
THEOREM Invariance == Spec => []IInv
BY InitHolds, StepKeeps, PTL DEF Spec

\* No request under way, on any connection, points at an hp_sub_t that hp_subc_free
\* has freed, whatever is called, lost or restarted in between.
THEOREM ContextsAreAlive == Spec => []ContextsAlive
<1>1. IInv => ContextsAlive
  BY DEF IInv, ContextsAlive, NoDanglingContext, PointersInv, Alive, Entries
<1> QED BY <1>1, Invariance, PTL
-----------------------------------------------------------------------------
(* What is published is not lost *)

\* Redis stores in the order of the scores: one publisher, and no two messages in
\* one millisecond.
InOrder == ~SameMs /\ \A p, q \in Publishers : p = q

\* A message on its way is later than those stored and those before it.
OrderInv ==
  \A p \in Publishers : \A k \in 1..Len(pubq[p]) :
    pubq[p][k].op = "ZADD" =>
      /\ pubq[p][k].msg.score > 0
      /\ \A z \in zset : z.score < pubq[p][k].msg.score
      /\ \A j \in 1..Len(pubq[p]) :
           j < k /\ pubq[p][j].op = "ZADD" => pubq[p][j].msg.score < pubq[p][k].msg.score

HSets == {e \in Entries(cq) : e.op = "HSET"}
Alls == {e \in Entries(cr) : e.op = "all"}

\* Only stored scores are, or will be, in the session.
StoredInv ==
  /\ \A t \in DOMAIN session : session[t] = 0 \/ \E z \in zset : z.score = session[t]
  /\ \A e \in HSets : \E z \in zset : z.score = e.score

DueInv == due \subseteq zset /\ \A m \in due : m.topic \in DOMAIN session

\* What an acknowledgement on its way skips was delivered; what the acknowledgement
\* of an answer on its way will skip was delivered, or is in the answer.
SkipInv ==
  /\ NoneSkipped
  /\ \A e \in HSets : \A m \in due :
       m.topic = e.topic /\ m.score <= e.score => m \in delivered
  /\ \A e \in Alls : \A x \in e.msgs : \A m \in due :
       m.topic = x.topic /\ m.score <= x.score => m \in delivered \cup e.msgs

PInv == OrderInv /\ StoredInv /\ DueInv /\ SkipInv

\* Messages have topics and scores.
LEMMA Messages ==
  ASSUME IInv
  PROVE  /\ \A z \in zset : z.score \in Nat /\ z.score <= now /\ z.topic \in Topics
         /\ \A p \in Publishers : \A k \in 1..Len(pubq[p]) :
              /\ pubq[p][k] \in [op : {"ZADD", "PUBLISH"}, msg : Message]
              /\ pubq[p][k].msg.score \in Nat /\ pubq[p][k].msg.score <= now
         /\ \A p \in Publishers :
              /\ pubq[p] \in Seq([op : {"ZADD", "PUBLISH"}, msg : Message])
              /\ Len(pubq[p]) \in Nat
         /\ now \in Nat
<1> DEFINE Cmd == [op : {"ZADD", "PUBLISH"}, msg : Message]
<1>1. \A z \in zset : z.score \in Nat /\ z.score <= now /\ z.topic \in Topics
  BY DEF IInv, TypeOK, StoreInv, Message
<1>2. \A p \in Publishers : pubq[p] \in Seq(Cmd) /\ Len(pubq[p]) \in Nat
  <2>1. pubq \in [Publishers -> Seq(Cmd)]
    BY DEF IInv, PipeTypes
  <2> QED BY <2>1, LenProperties
<1>3. \A p \in Publishers : \A k \in 1..Len(pubq[p]) : pubq[p][k] \in Cmd
  BY <1>2, ElementOfSeq
<1>4. \A p \in Publishers : \A k \in 1..Len(pubq[p]) :
        pubq[p][k].msg.score \in Nat /\ pubq[p][k].msg.score <= now
  BY <1>3 DEF IInv, StoreInv, Message
<1> QED BY <1>1, <1>2, <1>3, <1>4 DEF IInv, TypeOK

\* hp_pub takes the time, which has gone on since the last message.
LEMMA PublishInOrder ==
  ASSUME IInv, OrderInv, NEW p \in Publishers, NEW t \in Topics,
         hp_pub(p, t, now + 1)
  PROVE  OrderInv'
<1> DEFINE m == [num |-> pubs + 1, topic |-> t, score |-> now + 1]
           two == <<[op |-> "ZADD", msg |-> m], [op |-> "PUBLISH", msg |-> m]>>
           Cmd == [op : {"ZADD", "PUBLISH"}, msg : Message]
           n == Len(pubq[p])
<1>1. pubq' = [pubq EXCEPT ![p] = @ \o two] /\ zset' = zset
  BY DEF hp_pub, server
<1>2. m \in Message /\ m.score = now + 1 /\ pubq \in [Publishers -> Seq(Cmd)]
  <2>1. pubs + 1 \in Nat /\ now + 1 \in Nat
    BY DEF IInv, TypeOK
  <2>2. m \in Message
    BY <2>1 DEF Message
  <2> QED BY <2>2 DEF IInv, PipeTypes
<1> HIDE DEF m
<1>3. /\ two \in Seq(Cmd) /\ Len(two) = 2 /\ two[1].msg = m /\ two[2].op = "PUBLISH"
  BY <1>2
<1> HIDE DEF two
<1>4. pubq[p] \in Seq(Cmd) /\ n \in Nat
  BY Messages
<1>5. /\ Len(pubq[p] \o two) = n + 2
      /\ \A j \in 1..n + 2 :
           (pubq[p] \o two)[j] = IF j <= n THEN pubq[p][j] ELSE two[j - n]
  <2>1. /\ Len(pubq[p] \o two) = n + Len(two)
        /\ \A j \in 1..n + Len(two) :
             (pubq[p] \o two)[j] = IF j <= n THEN pubq[p][j] ELSE two[j - n]
    BY <1>3, <1>4, ConcatProperties
  <2> QED BY <2>1, <1>3
<1>6. /\ pubq'[p] = pubq[p] \o two /\ \A q \in Publishers : q # p => pubq'[q] = pubq[q]
  BY <1>1, <1>2
<1>7. /\ \A j \in 1..n : pubq'[p][j] = pubq[p][j] /\ j \in Nat /\ j <= n
      /\ pubq'[p][n + 1].msg = m /\ pubq'[p][n + 2].op = "PUBLISH"
      /\ Len(pubq'[p]) = n + 2
      /\ \A j \in 1..n + 2 : j \in 1..n \/ j = n + 1 \/ j = n + 2
  <2>1. \A j \in 1..n : j \in 1..n + 2 /\ j <= n
    BY <1>4
  <2>2. /\ n + 1 \in 1..n + 2 /\ ~(n + 1 <= n) /\ (n + 1) - n = 1
        /\ n + 2 \in 1..n + 2 /\ ~(n + 2 <= n) /\ (n + 2) - n = 2
        /\ \A j \in 1..n + 2 : j \in 1..n \/ j = n + 1 \/ j = n + 2
    BY <1>4
  <2> QED BY <2>1, <2>2, <1>3, <1>5, <1>6
<1>8. ASSUME NEW k \in 1..Len(pubq'[p]), pubq'[p][k].op = "ZADD"
      PROVE  /\ pubq'[p][k].msg.score > 0
             /\ \A z \in zset : z.score < pubq'[p][k].msg.score
             /\ \A j \in 1..Len(pubq'[p]) :
                  j < k /\ pubq'[p][j].op = "ZADD" =>
                    pubq'[p][j].msg.score < pubq'[p][k].msg.score
  <2>1. CASE k \in 1..n
    <3>1. \A j \in 1..Len(pubq'[p]) : j < k => j \in 1..n
      BY <2>1, <1>4, <1>7
    <3> QED BY <2>1, <3>1, <1>7, <1>8 DEF OrderInv
  <2>2. CASE k = n + 1
    <3>1. pubq'[p][k].msg.score = now + 1 /\ now \in Nat
      BY <2>2, <1>2, <1>7, Messages
    <3>2. \A z \in zset : z.score \in Nat /\ z.score <= now
      BY Messages
    <3>3. ASSUME NEW j \in 1..Len(pubq'[p]), j < k
          PROVE  pubq'[p][j].msg.score < now + 1
      <4>1. j \in 1..n
        BY <3>3, <2>2, <1>4, <1>7
      <4>2. pubq[p][j].msg.score \in Nat /\ pubq[p][j].msg.score <= now
        BY <4>1, Messages
      <4>3. pubq'[p][j].msg.score = pubq[p][j].msg.score
        BY <4>1, <1>7
      <4> QED BY <4>2, <4>3, <3>1
    <3> QED BY <3>1, <3>2, <3>3
  <2>3. CASE k = n + 2
    BY <2>3, <1>7, <1>8
  <2> QED BY <2>1, <2>2, <2>3, <1>7
<1>9. ASSUME NEW q \in Publishers
      PROVE  \A k \in 1..Len(pubq'[q]) :
        pubq'[q][k].op = "ZADD" =>
          /\ pubq'[q][k].msg.score > 0
          /\ \A z \in zset : z.score < pubq'[q][k].msg.score
          /\ \A j \in 1..Len(pubq'[q]) :
               j < k /\ pubq'[q][j].op = "ZADD" =>
                 pubq'[q][j].msg.score < pubq'[q][k].msg.score
  <2>1. CASE q = p
    BY <2>1, <1>8
  <2>2. CASE q # p
    BY <2>2, <1>6 DEF OrderInv
  <2> QED BY <2>1, <2>2
<1> QED BY <1>1, <1>9 DEF OrderInv

\* A ZADD stores the latest message: later than what any acknowledgement names.
LEMMA RunsPubInOrder ==
  ASSUME IInv, PInv, InOrder, NEW p \in Publishers, RedisRunsPub(p)
  PROVE  PInv'
<1> DEFINE Cmd == [op : {"ZADD", "PUBLISH"}, msg : Message]
           q == pubq[p]
           cmd == Head(q)
<1>1. /\ q # <<>> /\ pubq' = [pubq EXCEPT ![p] = Tail(q)]
      /\ UNCHANGED <<session, cq, cr, delivered>>
      /\ \/ /\ cmd.op = "ZADD" /\ zset' = zset \cup {cmd.msg}
            /\ due' = IF cmd.msg.topic \in DOMAIN session THEN due \cup {cmd.msg} ELSE due
         \/ cmd.op # "ZADD" /\ UNCHANGED <<zset, due>>
  BY DEF RedisRunsPub
<1>2. q \in Seq(Cmd) /\ Len(q) \in Nat \ {0} /\ pubq \in [Publishers -> Seq(Cmd)]
  BY <1>1, TailEntries DEF IInv, PipeTypes
<1>3. /\ Len(Tail(q)) = Len(q) - 1
      /\ \A k \in 1..Len(Tail(q)) : k + 1 \in 1..Len(q) /\ Tail(q)[k] = q[k + 1]
      /\ cmd = q[1] /\ 1 \in 1..Len(q)
  BY <1>1, <1>2, TailEntries
<1>4. \A r \in Publishers : r = p /\ pubq'[r] = Tail(q)
  BY <1>1, <1>2 DEF InOrder
<1>5. cmd.msg.score \in Nat
  BY <1>3, Messages
<1>6. cmd.op = "ZADD" => /\ cmd.msg.score > 0
                         /\ \A z \in zset : z.score < cmd.msg.score
                         /\ \A k \in 1..Len(q) : 1 < k /\ q[k].op = "ZADD" =>
                              cmd.msg.score < q[k].msg.score
  BY <1>3 DEF PInv, OrderInv
<1>7. OrderInv'
  <2>1. ASSUME NEW k \in 1..Len(Tail(q)), Tail(q)[k].op = "ZADD"
        PROVE  /\ Tail(q)[k].msg.score > 0
               /\ \A z \in zset' : z.score < Tail(q)[k].msg.score
               /\ \A j \in 1..Len(Tail(q)) :
                    j < k /\ Tail(q)[j].op = "ZADD" =>
                      Tail(q)[j].msg.score < Tail(q)[k].msg.score
    <3>1. k + 1 \in 1..Len(q) /\ 1 < k + 1 /\ Tail(q)[k] = q[k + 1]
      BY <1>3
    <3>2. /\ q[k + 1].msg.score > 0
          /\ \A z \in zset : z.score < q[k + 1].msg.score
          /\ \A j \in 1..Len(q) : j < k + 1 /\ q[j].op = "ZADD" =>
               q[j].msg.score < q[k + 1].msg.score
      BY <2>1, <3>1 DEF PInv, OrderInv
    <3>3. \A z \in zset' : z.score < q[k + 1].msg.score
      BY <2>1, <3>1, <3>2, <1>1, <1>6
    <3>4. ASSUME NEW j \in 1..Len(Tail(q)), j < k
          PROVE  /\ j + 1 \in 1..Len(q) /\ j + 1 < k + 1 /\ Tail(q)[j] = q[j + 1]
      BY <1>3, <3>4
    <3> QED BY <3>1, <3>2, <3>3, <3>4
  <2> QED BY <2>1, <1>4 DEF OrderInv
<1>8. StoredInv' /\ DueInv'
  <2>1. zset \subseteq zset' /\ due' \subseteq zset'
        /\ \A m \in due' : m.topic \in DOMAIN session
    BY <1>1 DEF PInv, DueInv
  <2>2. StoredInv'
    BY <1>1, <2>1 DEF PInv, StoredInv, HSets
  <2> QED BY <1>1, <2>1, <2>2 DEF DueInv
<1>9. SkipInv'
  <2>0. HSets' = HSets /\ Alls' = Alls
    BY <1>1 DEF HSets, Alls
  <2>1. CASE due' = due
    BY <2>0, <2>1, <1>1 DEF PInv, SkipInv, NoneSkipped
  <2>2. CASE cmd.op = "ZADD" /\ due' = due \cup {cmd.msg}
    <3>1. \A z \in zset : z.score \in Nat /\ z.score < cmd.msg.score
      BY <2>2, <1>6, Messages
    <3>2. \A t \in DOMAIN session : ~(cmd.msg.score <= session[t])
      <4>1. SUFFICES ASSUME NEW t \in DOMAIN session
                     PROVE  ~(cmd.msg.score <= session[t])
        OBVIOUS
      <4>2. session[t] = 0 \/ \E z \in zset : z.score = session[t]
        BY DEF PInv, StoredInv
      <4> QED BY <4>2, <3>1, <2>2, <1>5, <1>6
    <3>3. \A e \in HSets : ~(cmd.msg.score <= e.score)
      <4>1. SUFFICES ASSUME NEW e \in HSets PROVE ~(cmd.msg.score <= e.score)
        OBVIOUS
      <4>2. \E z \in zset : z.score = e.score
        BY DEF PInv, StoredInv
      <4> QED BY <4>2, <3>1, <1>5
    <3>4. \A e \in Alls : \A x \in e.msgs : ~(cmd.msg.score <= x.score)
      <4>1. SUFFICES ASSUME NEW e \in Alls, NEW x \in e.msgs
                     PROVE  ~(cmd.msg.score <= x.score)
        OBVIOUS
      <4>2. x \in zset
        BY DEF IInv, StoreInv, Alls
      <4> QED BY <4>2, <3>1, <1>5
    <3>5. NoneSkipped'
      BY <2>2, <3>2, <1>1 DEF PInv, SkipInv, NoneSkipped
    <3>6. \A e \in HSets : \A m \in due' :
            m.topic = e.topic /\ m.score <= e.score => m \in delivered
      BY <2>2, <3>3 DEF PInv, SkipInv
    <3>7. \A e \in Alls : \A x \in e.msgs : \A m \in due' :
            m.topic = x.topic /\ m.score <= x.score => m \in delivered \cup e.msgs
      BY <2>2, <3>4 DEF PInv, SkipInv
    <3> QED BY <2>0, <3>5, <3>6, <3>7, <1>1 DEF SkipInv
  <2> QED BY <2>1, <2>2, <1>1
<1> QED BY <1>7, <1>8, <1>9 DEF PInv

\* What neither stores nor publishes, and sends nothing but what names no score.
LEMMA QuietInOrder ==
  ASSUME PInv, UNCHANGED <<zset, session, due, delivered>>,
         \A p \in Publishers : pubq'[p] \in {pubq[p], <<>>},
         HSets' \subseteq HSets,
         \A e \in Alls' : \E f \in Alls : e.msgs = f.msgs
  PROVE  PInv'
<1>1. OrderInv'
  <2>1. ASSUME NEW p \in Publishers
        PROVE  \A k \in 1..Len(pubq'[p]) :
          pubq'[p][k].op = "ZADD" =>
            /\ pubq'[p][k].msg.score > 0
            /\ \A z \in zset : z.score < pubq'[p][k].msg.score
            /\ \A j \in 1..Len(pubq'[p]) :
                 j < k /\ pubq'[p][j].op = "ZADD" =>
                   pubq'[p][j].msg.score < pubq'[p][k].msg.score
    <3>1. CASE pubq'[p] = <<>>
      BY <3>1
    <3>2. CASE pubq'[p] = pubq[p]
      BY <3>2 DEF PInv, OrderInv
    <3> QED BY <3>1, <3>2
  <2> QED BY <2>1 DEF OrderInv
<1>2. StoredInv' /\ DueInv'
  BY DEF PInv, StoredInv, DueInv
<1>3. SkipInv'
  BY DEF PInv, SkipInv, NoneSkipped
<1> QED BY <1>1, <1>2, <1>3 DEF PInv

\* sup.lua leaves the scores of topics it keeps; HSET moves past what was delivered;
\* sub.lua answers everything above the session.
LEMMA RunsCInOrder ==
  ASSUME IInv, PInv, RedisRunsC
  PROVE  PInv'
<1> DEFINE cmd == Head(cq)
<1>1. /\ Entries(cq') \subseteq Entries(cq) /\ cmd \in Entries(cq)
      /\ UNCHANGED <<pubq, zset, delivered>>
  BY RunsC
<1>2. HSets' \subseteq HSets
  BY <1>1 DEF HSets
<1>3. OrderInv'
  BY <1>1 DEF PInv, OrderInv
<1>t. /\ cr \in Seq(Answer) /\ zset \subseteq Message
      /\ DOMAIN session \subseteq Topics /\ \A t \in DOMAIN session : session[t] \in Nat
  BY DEF IInv, PipeTypes, TypeOK
<1>4. CASE cmd.op = "SUP"
  <2>1. /\ cmd.topics \subseteq Topics /\ session' = Sup(cmd.topics) /\ cr' = cr
        /\ due' = {m \in due : m.topic \in cmd.topics}
    BY <1>4, RunsC
  <2>2. /\ DOMAIN session' = cmd.topics
        /\ \A t \in cmd.topics :
             session'[t] = IF t \in DOMAIN session THEN session[t] ELSE Latest(t)
    BY <2>1 DEF Sup
  <2>3. \A m \in due' : m \in due /\ m.topic \in DOMAIN session'
                        /\ session'[m.topic] = session[m.topic]
    BY <2>1, <2>2 DEF PInv, DueInv
  <2>4. \A t \in DOMAIN session' :
          session'[t] = 0 \/ \E z \in zset : z.score = session'[t]
    BY <2>1, <2>2, LatestIs DEF PInv, StoredInv
  <2>5. StoredInv' /\ DueInv'
    BY <2>3, <2>4, <1>1, <1>2 DEF PInv, StoredInv, DueInv
  <2>6. Alls' = Alls
    BY <2>1 DEF Alls
  <2>7. NoneSkipped'
    BY <2>3, <1>1 DEF PInv, DueInv, SkipInv, NoneSkipped
  <2>8. SkipInv'
    BY <2>1, <2>6, <2>7, <1>1, <1>2 DEF PInv, SkipInv
  <2> QED BY <2>5, <2>8, <1>3 DEF PInv
<1>5. CASE cmd.op = "HSET"
  <2>1. /\ cmd.topic \in Topics /\ cmd.score \in Nat
        /\ session' = [t \in DOMAIN session \cup {cmd.topic} |->
                         IF t = cmd.topic THEN cmd.score ELSE session[t]]
        /\ UNCHANGED <<cr, due>>
    BY <1>5, RunsC
  <2>2. cmd \in HSets
    BY <1>1, <1>5 DEF HSets
  <2>3. StoredInv'
    BY <2>1, <2>2, <1>1, <1>2 DEF PInv, StoredInv
  <2>4. DueInv'
    BY <2>1, <1>1 DEF PInv, DueInv
  <2>5. NoneSkipped'
    BY <2>1, <2>2, <1>1 DEF PInv, DueInv, SkipInv, NoneSkipped
  <2>6. Alls' = Alls
    BY <2>1 DEF Alls
  <2>7. SkipInv'
    BY <2>1, <2>5, <2>6, <1>1, <1>2 DEF PInv, SkipInv
  <2> QED BY <2>3, <2>4, <2>7, <1>3 DEF PInv
<1>6. CASE cmd.op = "HKEYS"
  <2> DEFINE e == [op |-> "keys", s |-> cmd.s, topics |-> DOMAIN session]
  <2>1. cmd.s \in Nat /\ cr' = Append(cr, e) /\ UNCHANGED <<session, due>>
    BY <1>6, RunsC
  <2>2. e \in Answer
    BY <2>1, <1>t DEF Answer
  <2>3. Entries(cr') = Entries(cr) \cup {e}
    BY <2>1, <2>2, <1>t, AppendEntries
  <2>4. Alls' = Alls
    BY <2>3 DEF Alls
  <2> QED BY <2>1, <2>4, <1>1, <1>2, QuietInOrder
<1>7. CASE cmd.op = "QUERY"
  <2> DEFINE e == [op |-> "all", s |-> cmd.s, msgs |-> Unacknowledged]
  <2>1. cmd.s \in Nat /\ cr' = Append(cr, e) /\ UNCHANGED <<session, due>>
    BY <1>7, RunsC
  <2>2. Unacknowledged \subseteq zset
    BY DEF Unacknowledged
  <2>3. e \in Answer
    BY <2>1, <2>2, <1>t DEF Answer
  <2>4. Entries(cr') = Entries(cr) \cup {e}
    BY <2>1, <2>3, <1>t, AppendEntries
  <2>5. Alls' = Alls \cup {e}
    BY <2>4 DEF Alls
  <2>6. ASSUME NEW m \in due
        PROVE  m \in delivered \cup Unacknowledged
    <3>1. m \in zset /\ m.topic \in DOMAIN session
      BY DEF PInv, DueInv
    <3>2. m.score \in Nat /\ session[m.topic] \in Nat
      BY <3>1, <1>t, Messages
    <3>3. CASE m.score <= session[m.topic]
      BY <3>1, <3>3 DEF PInv, SkipInv, NoneSkipped
    <3>4. CASE ~(m.score <= session[m.topic])
      <4>1. m.score >= session[m.topic] + 1
        BY <3>2, <3>4
      <4> QED BY <4>1, <3>1 DEF Unacknowledged
    <3> QED BY <3>3, <3>4
  <2>7. StoredInv' /\ DueInv'
    BY <2>1, <1>1, <1>2 DEF PInv, StoredInv, DueInv
  <2>8. SkipInv'
    BY <2>1, <2>5, <2>6, <1>1, <1>2 DEF PInv, SkipInv, NoneSkipped
  <2> QED BY <2>7, <2>8, <1>3 DEF PInv
<1> QED BY <1>4, <1>5, <1>6, <1>7, RunsC

\* The callback is given the whole answer before the acknowledgements are sent.
LEMMA DeliverInOrder ==
  ASSUME IInv, PInv, hp_sub_all_cb
  PROVE  PInv'
<1> DEFINE a == Head(cr)
<1>t. cq \in Seq(Request) /\ cr \in Seq(Answer)
  BY DEF IInv, PipeTypes
<1>1. /\ cr # <<>> /\ a.op = "all" /\ cr' = Tail(cr)
      /\ UNCHANGED <<pubq, zset, session, due>>
      /\ \/ /\ delivered' = delivered \cup a.msgs
            /\ \E s \in Sortings(a.msgs) : cq' = cq \o Acks(s)
         \/ UNCHANGED <<delivered, cq>>
  BY DEF hp_sub_all_cb, Acks, server
<1>2. a \in Answer /\ a \in Entries(cr) /\ Entries(cr') \subseteq Entries(cr)
  BY <1>1, <1>t, TailEntries
<1>3. Alls' \subseteq Alls /\ a \in Alls
  BY <1>1, <1>2 DEF Alls
<1>4. CASE UNCHANGED <<delivered, cq>>
  <2>1. HSets' = HSets
    BY <1>4 DEF HSets
  <2> QED BY <2>1, <1>1, <1>3, <1>4, QuietInOrder
<1>5. ASSUME NEW s \in Sortings(a.msgs), cq' = cq \o Acks(s),
             delivered' = delivered \cup a.msgs
      PROVE  PInv'
  <2>1. a.msgs \subseteq zset /\ a.msgs \in SUBSET Message /\ IsFiniteSet(a.msgs)
    BY <1>1, <1>2, FS_Subset DEF IInv, StoreInv, TypeOK
  <2>2. /\ Acks(s) \in Seq(Request)
        /\ \A e \in Entries(Acks(s)) : \E x \in a.msgs :
             e.op = "HSET" /\ e.topic = x.topic /\ e.score = x.score
    BY <2>1, AcksType
  <2>3. Entries(cq') = Entries(cq) \cup Entries(Acks(s))
    BY <2>2, <1>5, <1>t, ConcatEntries
  <2>4. HSets' \subseteq HSets \cup Entries(Acks(s))
    BY <2>3 DEF HSets
  <2>5. OrderInv' /\ DueInv'
    BY <1>1 DEF PInv, OrderInv, DueInv
  <2>6. StoredInv'
    BY <2>1, <2>2, <2>4, <1>1 DEF PInv, StoredInv
  <2>7. NoneSkipped'
    BY <1>1, <1>5 DEF PInv, SkipInv, NoneSkipped
  <2>8. \A e \in HSets' : \A m \in due :
          m.topic = e.topic /\ m.score <= e.score => m \in delivered'
    BY <2>2, <2>4, <1>3, <1>5 DEF PInv, SkipInv
  <2>9. \A e \in Alls' : \A x \in e.msgs : \A m \in due :
          m.topic = x.topic /\ m.score <= x.score => m \in delivered' \cup e.msgs
    BY <1>3, <1>5 DEF PInv, SkipInv
  <2>10. SkipInv'
    BY <2>7, <2>8, <2>9, <1>1 DEF SkipInv
  <2> QED BY <2>5, <2>6, <2>10 DEF PInv
<1> QED BY <1>1, <1>4, <1>5

\* The rest of the steps.
LEMMA OthersInOrder ==
  ASSUME IInv, PInv,
         \/ \E p \in Publishers : PublisherDrops(p)
         \/ hp_subc \/ hp_sub_session \/ hp_unsub
         \/ \E T \in (SUBSET Topics) \ {{}} : hp_sub(T)
         \/ RedisRunsSub \/ msg_cb \/ hp_sub_session_cb
         \/ Disconnect \/ Crash \/ UNCHANGED vars
  PROVE  PInv'
<1>t. cq \in Seq(Request) /\ cr \in Seq(Answer) /\ gen \in Nat
      /\ pubq \in [Publishers -> Seq([op : {"ZADD", "PUBLISH"}, msg : Message])]
  BY DEF IInv, PipeTypes, TypeOK
<1>1. CASE \E p \in Publishers : PublisherDrops(p)
  <2>1. PICK p \in Publishers : PublisherDrops(p)
    BY <1>1
  <2>2. /\ pubq' = [pubq EXCEPT ![p] = <<>>]
        /\ UNCHANGED <<zset, session, due, delivered, cq, cr>>
    BY <2>1 DEF PublisherDrops, server, pipes, history
  <2>3. \A q \in Publishers : pubq'[q] \in {pubq[q], <<>>}
    BY <2>2, <1>t
  <2>4. HSets' = HSets /\ Alls' = Alls
    BY <2>2 DEF HSets, Alls
  <2> QED BY <2>2, <2>3, <2>4, QuietInOrder
<1>2. ASSUME UNCHANGED <<pubq, zset, session, due, delivered>>,
             NEW e \in Request, e.op # "HSET", (cq' = cq \/ cq' = Append(cq, e)),
             Entries(cr') \subseteq Entries(cr)
      PROVE  PInv'
  <2>1. Entries(cq') \subseteq Entries(cq) \cup {e}
    <3>1. Entries(Append(cq, e)) = Entries(cq) \cup {e}
      BY <1>t, AppendEntries
    <3>2. CASE cq' = cq
      BY <3>2
    <3>3. CASE cq' = Append(cq, e)
      BY <3>1, <3>3
    <3> QED BY <1>2, <3>2, <3>3
  <2>2. HSets' \subseteq HSets /\ Alls' \subseteq Alls
    BY <2>1, <1>2 DEF HSets, Alls
  <2> QED BY <2>2, <1>2, QuietInOrder
<1>s. hp_sub_sup({}) \in Request /\ hp_sub_sup({}).op # "HSET"
  BY DEF hp_sub_sup, Request
<1>3. CASE hp_subc \/ hp_unsub \/ RedisRunsSub \/ UNCHANGED vars
  <2>1. UNCHANGED <<pubq, zset, session, due, delivered, cq, cr>>
    BY <1>3 DEF hp_subc, hp_unsub, RedisRunsSub, vars, server, pipes, history
  <2>2. Entries(cr') \subseteq Entries(cr)
    BY <2>1
  <2> QED BY <2>1, <2>2, <1>2, <1>s
<1>4. CASE hp_sub_session
  <2>1. /\ cq' = Append(cq, [op |-> "HKEYS", s |-> Pointer])
        /\ UNCHANGED <<pubq, zset, session, due, delivered, cr>>
    BY <1>4 DEF hp_sub_session, server, history
  <2>2. [op |-> "HKEYS", s |-> Pointer] \in Request
    BY <1>t DEF Request, Pointer
  <2>3. Entries(cr') \subseteq Entries(cr)
    BY <2>1
  <2> QED BY <2>1, <2>2, <2>3, <1>2
<1>5. ASSUME NEW T \in SUBSET Topics, hp_sub(T)
      PROVE  PInv'
  <2>1. /\ cq' = Append(cq, hp_sub_sup(T))
        /\ UNCHANGED <<pubq, zset, session, due, delivered, cr>>
    BY <1>5 DEF hp_sub, server, history
  <2>2. hp_sub_sup(T) \in Request /\ hp_sub_sup(T).op # "HSET"
    BY DEF hp_sub_sup, Request
  <2>3. Entries(cr') \subseteq Entries(cr)
    BY <2>1
  <2> QED BY <2>1, <2>2, <2>3, <1>2
<1>6. CASE msg_cb
  <2>1. /\ cq' = cq \/ cq' = Append(cq, hp_sub_all)
        /\ UNCHANGED <<pubq, zset, session, due, delivered, cr>>
    BY <1>6 DEF msg_cb, server, history
  <2>2. hp_sub_all \in Request /\ hp_sub_all.op # "HSET"
    BY <1>t DEF hp_sub_all, Request, Pointer
  <2>3. Entries(cr') \subseteq Entries(cr)
    BY <2>1
  <2> QED BY <2>1, <2>2, <2>3, <1>2
<1>7. CASE hp_sub_session_cb
  <2>1. /\ cr # <<>> /\ cr' = Tail(cr) /\ cq' = cq
        /\ UNCHANGED <<pubq, zset, session, due, delivered>>
    BY <1>7 DEF hp_sub_session_cb, server, history
  <2>2. Entries(cr') \subseteq Entries(cr)
    BY <2>1, <1>t, TailEntries
  <2> QED BY <2>1, <2>2, <1>2, <1>s
<1>8. CASE Disconnect \/ Crash
  <2>1. /\ UNCHANGED <<pubq, zset, session, due, delivered>>
        /\ \/ cq' = hp_subc_free(cq) /\ cr' = hp_subc_free(cr)
           \/ cq' = <<>> /\ cr' = <<>>
    BY <1>8 DEF Disconnect, Crash, history
  <2>2. HSets' \subseteq HSets /\ \A e \in Alls' : \E f \in Alls : e.msgs = f.msgs
    <3>1. CASE cq' = hp_subc_free(cq) /\ cr' = hp_subc_free(cr)
      <4>1. \A e \in Entries(cq') : e.op = "HSET" => e \in Entries(cq)
        BY <3>1, <1>t, FreeEntries
      <4>2. \A e \in Entries(cr') : \E f \in Entries(cr) :
              e.op = f.op /\ (e.op = "all" => e.msgs = f.msgs)
        BY <3>1, <1>t, FreeEntries
      <4> QED BY <4>1, <4>2 DEF HSets, Alls
    <3>2. CASE cq' = <<>> /\ cr' = <<>>
      BY <3>2 DEF HSets, Alls, Entries
    <3> QED BY <2>1, <3>1, <3>2
  <2> QED BY <2>1, <2>2, QuietInOrder
<1> QED BY <1>1, <1>3, <1>4, <1>5, <1>6, <1>7, <1>8

\* With one publisher and one message per millisecond, in every behaviour the
\* session of a subscriber that has moved to the score of a message, or past it,
\* has had that message delivered: hp_sub_all_cb acknowledges only what it handed
\* over, and sup.lua and sub.lua skip nothing, whatever connection is lost or
\* process restarted in between, and however often hp_sub is called.
THEOREM NoneIsSkipped ==
  ASSUME InOrder
  PROVE  Spec => []NoneSkipped
<1>1. Init => PInv
  <2>1. SUFFICES ASSUME Init PROVE PInv
    OBVIOUS
  <2>2. /\ cq = <<>> /\ cr = <<>> /\ session = <<>> /\ due = {}
        /\ \A p \in Publishers : pubq[p] = <<>>
    BY <2>1 DEF Init
  <2>3. DOMAIN session = {} /\ HSets = {} /\ Alls = {}
    BY <2>2 DEF HSets, Alls, Entries
  <2> QED BY <2>2, <2>3 DEF PInv, OrderInv, StoredInv, DueInv, SkipInv, NoneSkipped
<1>2. IInv /\ PInv /\ [Next]_vars => PInv'
  <2>1. SUFFICES ASSUME IInv, PInv, [Next]_vars PROVE PInv'
    OBVIOUS
  <2>2. CASE Publish
    <3>1. PICK p \in Publishers, t \in Topics : hp_pub(p, t, now + 1)
      BY <2>2, InOrder DEF Publish, InOrder
    <3>2. UNCHANGED <<zset, session, cq, cr, due, delivered>>
      BY <3>1 DEF hp_pub, server, pipes, history
    <3>3. OrderInv'
      BY <2>1, <3>1, PublishInOrder DEF PInv
    <3>4. StoredInv' /\ DueInv' /\ SkipInv'
      BY <2>1, <3>2 DEF PInv, StoredInv, DueInv, SkipInv, NoneSkipped, HSets, Alls
    <3> QED BY <3>3, <3>4 DEF PInv
  <2>3. CASE Redis
    BY <2>1, <2>3, InOrder, RunsPubInOrder, RunsCInOrder, OthersInOrder DEF Redis
  <2>4. CASE Replies
    BY <2>1, <2>4, DeliverInOrder, OthersInOrder DEF Replies
  <2> QED BY <2>1, <2>2, <2>3, <2>4, OthersInOrder DEF Next
<1>3. IInv /\ PInv => NoneSkipped
  BY DEF PInv, SkipInv
<1> QED BY <1>1, <1>2, <1>3, Invariance, PTL DEF Spec
=============================================================================
