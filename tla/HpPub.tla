-------------------------------- MODULE HpPub --------------------------------
(***************************************************************************)
(* Publish and subscribe over Redis: hp_pub.c with the scripts sub.lua and *)
(* sup.lua.                                                                *)
(*                                                                         *)
(* hp_pub stores a message in the sorted set of its topic, scored with the *)
(* time in milliseconds, and publishes the score on the topic's channel.   *)
(* A subscriber keeps a session, a hash from topic to the score of the     *)
(* last message it has acknowledged.  Any message on a channel makes it    *)
(* query everything above those scores; its callback acknowledges with     *)
(* HSET.  Publishers, the subscriber's command connection c and its        *)
(* connection subc for channels are separate pipes to a Redis server that  *)
(* runs one command at a time.                                             *)
(*                                                                         *)
(* One subscriber is modelled: sessions do not touch each other.  Payloads *)
(* are distinct.  The user's callback acknowledges every message it is     *)
(* given, in the order given, as the callbacks of the tests do.            *)
(***************************************************************************)
EXTENDS Integers, Sequences, FiniteSets

CONSTANTS
  Topics,       \* names of channels and sorted sets
  Publishers,   \* connections hp_pub is called on
  SameMs,       \* two messages may be published in one millisecond
  Resub,        \* hp_sub may be called again on a live subscription
  MaxPubs,      \* bound: hp_pub calls
  MaxCalls,     \* bound: hp_sub and hp_unsub calls
  MaxDrops      \* bound: lost connections and restarts of the subscriber

ASSUME TopicsAssumption == IsFiniteSet(Topics)
ASSUME FlagAssumption == SameMs \in BOOLEAN /\ Resub \in BOOLEAN
ASSUME BoundAssumption ==
  MaxPubs \in Nat /\ MaxCalls \in Nat /\ MaxDrops \in Nat

VARIABLES
  now,          \* gettimeofday in milliseconds
  pubs,         \* number of hp_pub calls
  pubq,         \* pubq[p]: commands of publisher p on their way
  zset,         \* messages stored in the sorted sets
  session,      \* function from topics to scores, the hash sid
  subscribed,   \* channels subc is subscribed to, on the server
  cq, cr,       \* commands and replies on c
  sq, sr,       \* commands and replies on subc
  live, gen,    \* subc->data is an hp_sub_t; number of hp_sub_t so far
  joined,       \* hp_sub was called on this subc
  calls, drops, \* counters of the bounds
  due,          \* messages stored while their topic was in the session
  announced,    \* messages whose PUBLISH was run
  delivered     \* messages handed to the user's callback

server == <<zset, session, subscribed>>
pipes == <<cq, cr, sq, sr>>
client == <<live, gen, joined>>
bounds == <<calls, drops>>
history == <<due, announced, delivered>>
vars == <<now, pubs, pubq, zset, session, subscribed, cq, cr, sq, sr, live, gen,
          joined, calls, drops, due, announced, delivered>>

Pointer == IF live THEN gen ELSE 0
Orders(S) ==
  {s \in [1..Cardinality(S) -> S] : \A j, k \in DOMAIN s : s[j] = s[k] => j = k}
\* qsort with comp: by score, equal scores in any order.
Sortings(S) == {s \in Orders(S) : \A j, k \in DOMAIN s : j < k => s[j].score <= s[k].score}

Init ==
  /\ now = 1 /\ pubs = 0
  /\ pubq = [p \in Publishers |-> <<>>]
  /\ zset = {} /\ session = <<>> /\ subscribed = {}
  /\ cq = <<>> /\ cr = <<>> /\ sq = <<>> /\ sr = <<>>
  /\ live = FALSE /\ gen = 0 /\ joined = FALSE
  /\ calls = 0 /\ drops = 0
  /\ due = {} /\ announced = {} /\ delivered = {}
-----------------------------------------------------------------------------
(* The publisher *)

\* Two commands, ZADD and PUBLISH, with the time at which hp_pub is called.
hp_pub(p, t, ms) ==
  /\ pubs < MaxPubs
  /\ now' = ms
  /\ pubs' = pubs + 1
  /\ pubq' = [pubq EXCEPT ![p] =
               LET m == [num |-> pubs + 1, topic |-> t, score |-> ms]
               IN  @ \o <<[op |-> "ZADD", msg |-> m], [op |-> "PUBLISH", msg |-> m]>>]
  /\ UNCHANGED <<server, pipes, client, bounds, history>>

\* The publisher's connection breaks: commands that did not arrive are gone.
PublisherDrops(p) ==
  /\ pubq[p] # <<>>
  /\ pubq' = [pubq EXCEPT ![p] = <<>>]
  /\ UNCHANGED <<now, pubs, server, pipes, client, bounds, history>>

RedisRunsPub(p) ==
  /\ pubq[p] # <<>>
  /\ pubq' = [pubq EXCEPT ![p] = Tail(@)]
  /\ LET cmd == Head(pubq[p])
     IN  IF cmd.op = "ZADD"
           THEN /\ zset' = zset \cup {cmd.msg}
                /\ due' = IF cmd.msg.topic \in DOMAIN session
                            THEN due \cup {cmd.msg} ELSE due
                /\ UNCHANGED <<sr, announced>>
           ELSE /\ announced' = announced \cup {cmd.msg}
                /\ sr' = IF cmd.msg.topic \in subscribed
                           THEN Append(sr, [op |-> "message", n |-> 0]) ELSE sr
                /\ UNCHANGED <<zset, due>>
  /\ UNCHANGED <<now, pubs, session, subscribed, cq, cr, sq, client, bounds,
                 delivered>>
-----------------------------------------------------------------------------
(* The subscriber's calls *)

\* hp_subc: a new context for a new subc.
hp_subc ==
  /\ ~live
  /\ live' = TRUE /\ gen' = gen + 1 /\ joined' = FALSE
  /\ UNCHANGED <<now, pubs, pubq, server, pipes, bounds, history>>

MayCall ==
  /\ live
  /\ calls < MaxCalls
  /\ calls' = calls + 1

hp_sub_sup(T) == [op |-> "SUP", topics |-> T]
hp_sub_dosub(T) == [op |-> "SUBSCRIBE", topics |-> T]

\* hp_sub with topics: hp_sub_sup on c, hp_sub_dosub on subc.
hp_sub(T) ==
  /\ MayCall
  /\ Resub \/ ~joined
  /\ joined' = TRUE
  /\ cq' = Append(cq, hp_sub_sup(T))
  /\ sq' = Append(sq, hp_sub_dosub(T))
  /\ UNCHANGED <<now, pubs, pubq, server, cr, sr, live, gen, drops, history>>

\* hp_sub without topics: they are asked for with HKEYS.
hp_sub_session ==
  /\ MayCall
  /\ Resub \/ ~joined
  /\ joined' = TRUE
  /\ cq' = Append(cq, [op |-> "HKEYS", s |-> Pointer])
  /\ UNCHANGED <<now, pubs, pubq, server, cr, sq, sr, live, gen, drops, history>>

hp_unsub ==
  /\ MayCall
  /\ joined
  /\ sq' = Append(sq, [op |-> "UNSUBSCRIBE", topics |-> {}])
  /\ UNCHANGED <<now, pubs, pubq, server, cq, cr, sr, client, drops, history>>
-----------------------------------------------------------------------------
(* Redis runs the command at the head of c or subc. *)

Scores(t) == {m.score : m \in {x \in zset : x.topic = t}}

\* zrevrange 0 0 withscores
Latest(t) ==
  IF Scores(t) = {} THEN 0
  ELSE CHOOSE k \in Scores(t) : \A j \in Scores(t) : j <= k

\* Mutant: HSET in place of HSETNX.
Bad_Sup(T) == [t \in T |-> Latest(t)]

\* sup.lua: a new topic starts at the latest score, others keep theirs (hsetnx),
\* topics that are not named are removed.
Sup(T) ==
  [t \in T |-> IF t \in DOMAIN session THEN session[t] ELSE Latest(t)]

\* sub.lua: ZRANGEBYSCORE from the acknowledged score + 1 on.
Unacknowledged ==
  {m \in zset : m.topic \in DOMAIN session /\ m.score >= session[m.topic] + 1}

RedisRunsC ==
  /\ cq # <<>>
  /\ cq' = Tail(cq)
  /\ LET cmd == Head(cq)
     IN  CASE cmd.op = "SUP" ->
                /\ session' = Sup(cmd.topics)
                /\ due' = {m \in due : m.topic \in cmd.topics}
                /\ UNCHANGED cr
           [] cmd.op = "HSET" ->
                /\ session' = [t \in DOMAIN session \cup {cmd.topic} |->
                                 IF t = cmd.topic THEN cmd.score ELSE session[t]]
                /\ UNCHANGED <<cr, due>>
           [] cmd.op = "HKEYS" ->
                /\ cr' = Append(cr, [op |-> "keys", s |-> cmd.s,
                                     topics |-> DOMAIN session])
                /\ UNCHANGED <<session, due>>
           [] cmd.op = "QUERY" ->
                /\ cr' = Append(cr, [op |-> "all", s |-> cmd.s,
                                     msgs |-> Unacknowledged])
                /\ UNCHANGED <<session, due>>
  /\ UNCHANGED <<now, pubs, pubq, zset, subscribed, sq, sr, client, bounds,
                 delivered, announced>>

\* SUBSCRIBE is answered once per topic, with the number of channels then
\* subscribed; UNSUBSCRIBE likewise, down to 0.
RedisRunsSub ==
  /\ sq # <<>>
  /\ sq' = Tail(sq)
  /\ IF Head(sq).op = "SUBSCRIBE"
       THEN /\ subscribed' = subscribed \cup Head(sq).topics
            /\ \E o \in Orders(Head(sq).topics) :
                 sr' = sr \o [k \in DOMAIN o |->
                   [op |-> "subscribe",
                    n |-> Cardinality(subscribed \cup {o[j] : j \in 1..k})]]
       ELSE /\ subscribed' = {}
            /\ sr' = sr \o
                 IF subscribed = {} THEN <<[op |-> "unsubscribe", n |-> 0]>>
                 ELSE [k \in 1..Cardinality(subscribed) |->
                        [op |-> "unsubscribe", n |-> Cardinality(subscribed) - k]]
  /\ UNCHANGED <<now, pubs, pubq, zset, session, cq, cr, client, bounds, history>>
-----------------------------------------------------------------------------
(* The subscriber's reply callbacks *)

\* Mutant: history is not queried when the subscription is confirmed.
Bad_WantsQuery(r) == r.op = "message"

\* A message, and the confirmation of the first channel, ask for a query.
WantsQuery(r) == r.op = "message" \/ (r.op = "subscribe" /\ r.n = 1)

hp_sub_all == [op |-> "QUERY", s |-> Pointer]

\* msg_cb.  The last "unsubscribe" is reported to the user.
msg_cb ==
  /\ sr # <<>>
  /\ sr' = Tail(sr)
  /\ cq' = IF WantsQuery(Head(sr)) THEN Append(cq, hp_sub_all) ELSE cq
  /\ UNCHANGED <<now, pubs, pubq, server, cr, sq, client, bounds, history>>

\* hp_sub_session_cb: subscribe to the session's topics, if it has any.
hp_sub_session_cb ==
  /\ cr # <<>> /\ Head(cr).op = "keys"
  /\ cr' = Tail(cr)
  /\ sq' = IF Head(cr).s # 0 /\ Head(cr).topics # {}
             THEN Append(sq, hp_sub_dosub(Head(cr).topics))
             ELSE sq
  /\ UNCHANGED <<now, pubs, pubq, server, cq, sr, client, bounds, history>>

\* hp_sub_all_cb: every message, sorted by score, goes to the user's callback,
\* which acknowledges it.
hp_sub_all_cb ==
  /\ cr # <<>> /\ Head(cr).op = "all"
  /\ cr' = Tail(cr)
  /\ IF Head(cr).s # 0
       THEN /\ delivered' = delivered \cup Head(cr).msgs
            /\ \E s \in Sortings(Head(cr).msgs) :
                 cq' = cq \o [k \in DOMAIN s |->
                   [op |-> "HSET", topic |-> s[k].topic, score |-> s[k].score]]
       ELSE UNCHANGED <<delivered, cq>>
  /\ UNCHANGED <<now, pubs, pubq, server, sq, sr, client, bounds, due, announced>>
-----------------------------------------------------------------------------
(* Failures *)

\* Mutant: the pending requests keep their pointer.
Bad_hp_subc_free(q) == q

\* hp_subc_free: the pending requests forget the context.
hp_subc_free(q) ==
  [k \in DOMAIN q |->
     IF q[k].op \in {"HKEYS", "QUERY", "keys", "all"}
       THEN [q[k] EXCEPT !.s = 0] ELSE q[k]]

\* subc is lost: disconnectCallback, hp_subc_free; Redis forgets the channels.
Disconnect ==
  /\ live
  /\ drops < MaxDrops
  /\ drops' = drops + 1
  /\ live' = FALSE
  /\ subscribed' = {}
  /\ sq' = <<>> /\ sr' = <<>>
  /\ cq' = hp_subc_free(cq) /\ cr' = hp_subc_free(cr)
  /\ UNCHANGED <<now, pubs, pubq, zset, session, gen, joined, calls, history>>

\* The subscriber's process ends: both connections go, what Redis has stays.
Crash ==
  /\ live
  /\ drops < MaxDrops
  /\ drops' = drops + 1
  /\ live' = FALSE
  /\ subscribed' = {}
  /\ sq' = <<>> /\ sr' = <<>> /\ cq' = <<>> /\ cr' = <<>>
  /\ UNCHANGED <<now, pubs, pubq, zset, session, gen, joined, calls, history>>

Publish ==
  \E p \in Publishers, t \in Topics,
     ms \in {now + 1} \cup (IF SameMs THEN {now} ELSE {}) : hp_pub(p, t, ms)

Redis == RedisRunsC \/ RedisRunsSub \/ \E p \in Publishers : RedisRunsPub(p)

Replies == msg_cb \/ hp_sub_session_cb \/ hp_sub_all_cb

Next ==
  \/ Publish
  \/ \E p \in Publishers : PublisherDrops(p)
  \/ hp_subc
  \/ \E T \in (SUBSET Topics) \ {{}} : hp_sub(T)
  \/ hp_sub_session
  \/ hp_unsub
  \/ Redis
  \/ Replies
  \/ Disconnect
  \/ Crash

Spec == Init /\ [][Next]_vars

\* Redis runs what arrives on each connection and the subscriber's loop handles
\* the replies.
FairSpec ==
  /\ Spec
  /\ WF_vars(RedisRunsC) /\ WF_vars(RedisRunsSub)
  /\ \A p \in Publishers : WF_vars(RedisRunsPub(p))
  /\ WF_vars(msg_cb) /\ WF_vars(hp_sub_session_cb \/ hp_sub_all_cb)
-----------------------------------------------------------------------------
Message == [num : Nat, topic : Topics, score : Nat]

TypeOK ==
  /\ now \in Nat /\ pubs \in Nat /\ gen \in Nat /\ calls \in Nat /\ drops \in Nat
  /\ zset \subseteq Message /\ due \subseteq Message /\ delivered \subseteq Message
  /\ DOMAIN session \subseteq Topics
  /\ \A t \in DOMAIN session : session[t] \in Nat
  /\ subscribed \subseteq Topics
  /\ live \in BOOLEAN /\ joined \in BOOLEAN
  /\ \A k \in 1..Len(sr) : sr[k].n \in Nat

\* "What is published is not lost" (README.md): once the session has moved to the
\* score of a message or past it, so that sub.lua returns it no more, the message
\* was given to the user's callback, whatever was lost, repeated or under way.
NoneSkipped ==
  \A m \in due :
    m.topic \in DOMAIN session /\ m.score <= session[m.topic] => m \in delivered

\* A request that is still under way points at the context it was made for or at
\* none, never at one that was freed.
NoDanglingContext ==
  \A q \in {cq, cr} : \A k \in 1..Len(q) :
    q[k].op \in {"HKEYS", "QUERY", "keys", "all"} =>
      q[k].s = 0 \/ (live /\ q[k].s = gen)

\* A message stored for the session and announced is delivered if the subscriber
\* stays subscribed to its topic: also when it was published between the update
\* of the session and SUBSCRIBE, or while the subscriber was away.  (A topic that
\* hp_sub names no more leaves the session, and its messages are due no more.)
EventuallyDelivered ==
  \A t \in Topics, n \in 1..MaxPubs :
    \/ []<>(t \notin subscribed)
    \/ (\E m \in due \cap announced : m.num = n /\ m.topic = t)
         ~> \/ \E m \in delivered : m.num = n
            \/ ~\E m \in due : m.num = n

\* Whatever fails, hp_subc_free leaves no request behind that points at its context.
ContextsAlive == TypeOK /\ NoDanglingContext
=============================================================================
