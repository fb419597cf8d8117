----------------------------- MODULE HpIoTProofs ----------------------------
(***************************************************************************)
(* Proofs about the life of connections, HpIoT, for any connections, any   *)
(* number of epoll slots and messages, whether or not on_delete frees the  *)
(* hp_io_t: the registry, the descriptors, the batch of events and the     *)
(* calls of on_delete agree, whatever fails in the middle of a callback.   *)
(***************************************************************************)
EXTENDS HpIoT, SequenceTheorems, TLAPS

\* The steps of a callback that has not yet met an error.
ReadSteps == {"rd_top", "data", "last_data", "read", "error", "epollerr", "no_in"}

\* They work on an open connection, and on_data is called with data.  After
\* read_error the callback goes on with one that is closed.
CurInv ==
  /\ pc \in ReadSteps => cur \in Open
  /\ pc \in {"after_read", "wr"} => cur \in Conns
  /\ pc \in {"data", "last_data"} => ibuf[cur] > 0

\* Only open connections have output, so hp_wr_write meets no second error.
QueueInv == \A c \in Conns : outq[c] > 0 => st[c] = "open"

\* The event being handled has left the batch, and the drive loop has none.
BatchInv ==
  /\ pc = "drive" => ev = {}
  /\ pc \notin {"drive", "events"} => cur \notin ev /\ (phase = "drive" => ev = {})

IInv == ConnectionsSound /\ CurInv /\ QueueInv /\ BatchInv
-----------------------------------------------------------------------------
(* The registry *)

\* RemoveAt closes the gap at k, as the memmove of hp_epoll_rm does.
LEMMA RemoveAtProperties ==
  ASSUME NEW S, NEW s \in Seq(S), NEW k \in 1..Len(s)
  PROVE  /\ RemoveAt(s, k) \in Seq(S)
         /\ Len(RemoveAt(s, k)) = Len(s) - 1
         /\ \A m \in 1..Len(s) - 1 :
              RemoveAt(s, k)[m] = IF m < k THEN s[m] ELSE s[m + 1]
<1> DEFINE p == SubSeq(s, 1, k - 1)
           q == SubSeq(s, k + 1, Len(s))
<1>t. Len(s) \in Nat /\ k \in Nat /\ \A m \in 1..Len(s) : s[m] \in S
  BY LenProperties, ElementOfSeq
<1>1. /\ p \in Seq(S) /\ Len(p) = k - 1
      /\ \A m \in 1..k - 1 : p[m] = s[m]
  <2>1. \A m \in 1..k - 1 : s[m] \in S
    BY <1>t
  <2>2. /\ p \in Seq(S) /\ Len(p) = IF 1 <= k - 1 THEN k - 1 - 1 + 1 ELSE 0
        /\ \A m \in 1..k - 1 - 1 + 1 : p[m] = s[1 + m - 1]
    BY <2>1, <1>t, SubSeqProperties
  <2> QED BY <2>2, <1>t
<1>2. /\ q \in Seq(S) /\ Len(q) = Len(s) - k
      /\ \A m \in 1..Len(s) - k : q[m] = s[k + m]
  <2>1. \A m \in k + 1..Len(s) : s[m] \in S
    BY <1>t
  <2>2. /\ q \in Seq(S)
        /\ Len(q) = IF k + 1 <= Len(s) THEN Len(s) - (k + 1) + 1 ELSE 0
        /\ \A m \in 1..Len(s) - (k + 1) + 1 : q[m] = s[k + 1 + m - 1]
    BY <2>1, <1>t, SubSeqProperties
  <2> QED BY <2>2, <1>t
<1>3. RemoveAt(s, k) = p \o q
  BY DEF RemoveAt
<1> HIDE DEF p, q
<1>4. /\ p \o q \in Seq(S) /\ Len(p \o q) = Len(p) + Len(q)
      /\ \A m \in 1..Len(p) + Len(q) :
           (p \o q)[m] = IF m <= Len(p) THEN p[m] ELSE q[m - Len(p)]
  BY <1>1, <1>2, ConcatProperties
<1>5. Len(p) + Len(q) = Len(s) - 1
  BY <1>1, <1>2, <1>t
<1>6. ASSUME NEW m \in 1..Len(s) - 1
      PROVE  (p \o q)[m] = IF m < k THEN s[m] ELSE s[m + 1]
  <2>1. CASE m < k
    BY <2>1, <1>1, <1>4, <1>5, <1>t
  <2>2. CASE ~(m < k)
    <3>1. m - (k - 1) \in 1..Len(s) - k /\ k + (m - (k - 1)) = m + 1
      BY <2>2, <1>t
    <3>2. (p \o q)[m] = q[m - (k - 1)]
      BY <2>2, <1>4, <1>1, <1>2, <1>t
    <3> QED BY <3>1, <3>2, <1>2, <2>2
  <2> QED BY <2>1, <2>2
<1> QED BY <1>3, <1>4, <1>5, <1>6

\* hp_io_t_on_error leaves a registry without the connection, in which the others
\* still are, once each.
LEMMA ErrorUnregisters ==
  ASSUME IInv, NEW c \in Open, hp_io_t_on_error(c)
  PROVE  /\ ed' \in Seq(Conns \cup {Listen})
         /\ RegisteredIffOpen'
         /\ st' = [st EXCEPT ![c] = "closed"]
<1> DEFINE n == Len(ed)
<1>0. /\ ed \in Seq(Conns \cup {Listen}) /\ n \in Nat
      /\ Open = {ed[k] : k \in 1..n} \ {Listen}
      /\ \A k, m \in 1..n : ed[k] = ed[m] => k = m
      /\ st \in [Conns -> {"none", "backlog", "open", "refused", "closed"}]
      /\ c \in Conns /\ c # Listen
  BY ListenAssumption DEF IInv, ConnectionsSound, TypeOK, RegisteredIffOpen, Open
<1>1. PICK k \in 1..n : ed[k] = c /\ ed' = RemoveAt(ed, k)
  <2>1. \E j \in 1..n : ed[j] = c
    BY <1>0
  <2> QED BY <2>1 DEF hp_io_t_on_error, hp_epoll_rm
<1>2. st' = [st EXCEPT ![c] = "closed"]
  BY DEF hp_io_t_on_error
<1>3. /\ ed' \in Seq(Conns \cup {Listen}) /\ Len(ed') = n - 1
      /\ \A m \in 1..n - 1 : ed'[m] = IF m < k THEN ed[m] ELSE ed[m + 1]
  <2>1. k \in 1..Len(ed) /\ ed \in Seq(Conns \cup {Listen})
    BY <1>0
  <2> QED BY <2>1, <1>1, RemoveAtProperties
<1>4. Open' = Open \ {c}
  BY <1>0, <1>2 DEF Open
<1>5. ASSUME NEW m \in 1..n - 1
      PROVE  \E j \in 1..n : j # k /\ ed'[m] = ed[j]
  <2>1. m \in 1..n /\ m + 1 \in 1..n
    BY <1>0
  <2>2. CASE m < k
    BY <2>1, <2>2, <1>3
  <2>3. CASE ~(m < k)
    <3>1. m + 1 # k
      BY <2>3, <1>0
    <3> QED BY <2>1, <2>3, <3>1, <1>3
  <2> QED BY <2>2, <2>3
<1>6. ASSUME NEW j \in 1..n, j # k
      PROVE  \E m \in 1..n - 1 : ed'[m] = ed[j]
  <2>1. CASE j < k
    <3>1. j \in 1..n - 1
      BY <2>1, <1>0
    <3> QED BY <3>1, <2>1, <1>3
  <2>2. CASE ~(j < k)
    <3>1. j - 1 \in 1..n - 1 /\ ~(j - 1 < k) /\ (j - 1) + 1 = j
      BY <2>2, <1>6, <1>0
    <3> QED BY <3>1, <1>3
  <2> QED BY <2>1, <2>2
<1>7. {ed'[m] : m \in 1..n - 1} = {ed[j] : j \in 1..n} \ {c}
  <2>1. \A j \in 1..n : j # k <=> ed[j] # c
    BY <1>0, <1>1
  <2>2. ASSUME NEW x
        PROVE  x \in {ed'[m] : m \in 1..n - 1} => x \in {ed[j] : j \in 1..n} \ {c}
    BY <2>1, <1>5
  <2>3. ASSUME NEW x
        PROVE  x \in {ed[j] : j \in 1..n} \ {c} => x \in {ed'[m] : m \in 1..n - 1}
    BY <2>1, <1>6
  <2> QED BY <2>2, <2>3
<1>8. \A l, m \in 1..n - 1 : ed'[l] = ed'[m] => l = m
  <2>1. SUFFICES ASSUME NEW l \in 1..n - 1, NEW m \in 1..n - 1, ed'[l] = ed'[m]
                 PROVE  l = m
    OBVIOUS
  <2>2. /\ l \in 1..n /\ l + 1 \in 1..n /\ m \in 1..n /\ m + 1 \in 1..n
        /\ l \in Int /\ m \in Int /\ k \in Int
    BY <1>0
  <2>3. (IF l < k THEN l ELSE l + 1) = (IF m < k THEN m ELSE m + 1)
    <3>1. /\ (IF l < k THEN l ELSE l + 1) \in 1..n
          /\ (IF m < k THEN m ELSE m + 1) \in 1..n
      BY <2>2
    <3>2. /\ ed'[l] = ed[IF l < k THEN l ELSE l + 1]
          /\ ed'[m] = ed[IF m < k THEN m ELSE m + 1]
      BY <1>3
    <3> QED BY <3>1, <3>2, <2>1, <1>0
  <2> QED BY <2>2, <2>3
<1>9. RegisteredIffOpen'
  BY <1>0, <1>3, <1>4, <1>7, <1>8 DEF RegisteredIffOpen
<1> QED BY <1>2, <1>3, <1>9

\* accept registers a connection that was not registered, behind the others.
LEMMA AcceptRegisters ==
  ASSUME IInv, NEW c \in Conns, st[c] = "backlog",
         st' = [st EXCEPT ![c] = "open"], ed' = Append(ed, c)
  PROVE  ed' \in Seq(Conns \cup {Listen}) /\ RegisteredIffOpen'
<1> DEFINE n == Len(ed)
<1>0. /\ ed \in Seq(Conns \cup {Listen}) /\ n \in Nat
      /\ Open = {ed[k] : k \in 1..n} \ {Listen}
      /\ \A k, m \in 1..n : ed[k] = ed[m] => k = m
      /\ st \in [Conns -> {"none", "backlog", "open", "refused", "closed"}]
      /\ c # Listen /\ c \notin Open
  BY ListenAssumption, SMTT(20) DEF IInv, ConnectionsSound, TypeOK, RegisteredIffOpen, Open
<1>1. /\ ed' \in Seq(Conns \cup {Listen}) /\ Len(ed') = n + 1
      /\ ed'[n + 1] = c /\ \A k \in 1..n : ed'[k] = ed[k]
  BY <1>0
<1>2. Open' = Open \cup {c}
  BY <1>0 DEF Open
<1>3. \A k \in 1..n + 1 : k \in 1..n \/ k = n + 1
  BY <1>0
<1>4. \A k \in 1..n : ed[k] # c /\ k \in 1..n + 1
  BY <1>0
<1>5. n + 1 \in 1..n + 1
  BY <1>0
<1>6. {ed'[k] : k \in 1..n + 1} = {ed[k] : k \in 1..n} \cup {c}
  BY <1>1, <1>3, <1>4, <1>5
<1>7. \A k, m \in 1..n + 1 : ed'[k] = ed'[m] => k = m
  BY <1>0, <1>1, <1>3, <1>4
<1> QED BY <1>0, <1>1, <1>2, <1>6, <1>7 DEF RegisteredIffOpen
-----------------------------------------------------------------------------
(* The steps *)

\* What the peers change.
KernelTypes ==
  /\ sock \in [Conns -> Nat] /\ sent \in Nat
  /\ peer \in [Conns -> {"open", "eof", "reset"}]
  /\ full \in [Conns -> BOOLEAN]
  /\ edge \in [Conns -> SUBSET {"IN", "OUT", "ERR"}]

\* A callback that returns leaves the loop as it found it.
LEMMA ReturnKeeps ==
  ASSUME IInv, pc \notin {"drive", "events"}, Return, UNCHANGED <<phase, ev, cur, out>>
  PROVE  /\ pc' \in {"drive", "events"} /\ i' \in Nat
         /\ BatchInv'
BY DEF Return, IInv, ConnectionsSound, TypeOK, BatchInv

\* The peers change the kernel's state, and a connection in the backlog is not
\* registered yet.
LEMMA PeersKeep ==
  ASSUME IInv, Peers
  PROVE  IInv'
<1>t. TypeOK /\ RegisteredIffOpen /\ DeletedOnce /\ EventsForLiving
  BY DEF IInv, ConnectionsSound
<1>1. PICK c \in Conns :
        \/ Connect(c) \/ PeerSends(c)
        \/ \E how \in {"eof", "reset"} : PeerCloses(c, how)
        \/ PeerDrains(c)
  BY DEF Peers
<1>2. /\ UNCHANGED <<ed, deletes, ibuf, rderr, outq, touched, pc, phase, i, ev, cur, out,
                     failed>>
      /\ \/ UNCHANGED st
         \/ st[c] = "none" /\ st' = [st EXCEPT ![c] = "backlog"]
  BY <1>1 DEF Connect, PeerSends, PeerCloses, PeerDrains, conn, kernel, queues, control
<1>3. /\ st' \in [Conns -> {"none", "backlog", "open", "refused", "closed"}]
      /\ \A x \in Conns : /\ st'[x] = "open" <=> st[x] = "open"
                          /\ st'[x] = "closed" <=> st[x] = "closed"
  BY <1>t, <1>2 DEF TypeOK
<1>4. Open' = Open
  BY <1>3 DEF Open
<1>5. TypeOK'
  <2>1. KernelTypes'
    <3>1. CASE Connect(c)
      BY <3>1, <1>t DEF Connect, kernel, TypeOK, KernelTypes
    <3>2. CASE PeerSends(c)
      BY <3>2, <1>t DEF PeerSends, TypeOK, KernelTypes
    <3>3. ASSUME NEW how \in {"eof", "reset"}, PeerCloses(c, how)
          PROVE  KernelTypes'
      BY <3>3, <1>t DEF PeerCloses, TypeOK, KernelTypes
    <3>4. CASE PeerDrains(c)
      BY <3>4, <1>t DEF PeerDrains, TypeOK, KernelTypes
    <3> QED BY <1>1, <3>1, <3>2, <3>3, <3>4
  <2> QED BY <2>1, <1>2, <1>3, <1>t DEF TypeOK, KernelTypes
<1>6. RegisteredIffOpen' /\ DeletedOnce' /\ EventsForLiving'
  BY <1>t, <1>2, <1>3, <1>4 DEF RegisteredIffOpen, DeletedOnce, EventsForLiving
<1>7. CurInv' /\ QueueInv' /\ BatchInv'
  BY <1>2, <1>3, <1>4 DEF IInv, CurInv, QueueInv, BatchInv
<1> QED BY <1>5, <1>6, <1>7 DEF IInv, ConnectionsSound

\* What a step of the loop or of a callback that opens and closes nothing has to keep.
LEMMA QuietKeeps ==
  ASSUME IInv, UNCHANGED <<st, ed, deletes>>,
         TypeOK', CurInv', QueueInv', BatchInv', ev' \ {Listen} \subseteq Open
  PROVE  IInv'
BY DEF IInv, ConnectionsSound, RegisteredIffOpen, DeletedOnce, EventsForLiving, Open

\* The loop calls only what is registered, or an event of its batch.
LEMMA LoopKeeps ==
  ASSUME IInv, Loop
  PROVE  IInv'
<1>t. TypeOK /\ RegisteredIffOpen /\ DeletedOnce /\ EventsForLiving
  BY DEF IInv, ConnectionsSound
<1>l. Open \subseteq Conns /\ Listen \notin Conns
  BY ListenAssumption DEF Open
<1>1. CASE DriveCall
  <2>1. /\ pc = "drive" /\ i < Len(ed) /\ cur' = ed[i + 1] /\ out' = TRUE
        /\ pc' = IF ed[i + 1] = Listen THEN "accept" ELSE "rd_top"
        /\ phase' = "drive"
        /\ UNCHANGED <<st, ed, deletes, sock, sent, peer, full, edge, ibuf, rderr, outq,
                       touched, i, ev, failed>>
    BY <1>1 DEF DriveCall, conn, kernel, queues
  <2>2. i + 1 \in 1..Len(ed) /\ ed[i + 1] \in Conns \cup {Listen}
    <3>1. ed \in Seq(Conns \cup {Listen}) /\ i \in Nat /\ Len(ed) \in Nat
      BY <1>t DEF TypeOK
    <3>2. i + 1 \in 1..Len(ed)
      BY <3>1, <2>1
    <3> QED BY <3>1, <3>2, ElementOfSeq
  <2>3. ed[i + 1] # Listen => ed[i + 1] \in Open
    BY <2>2, <1>t DEF RegisteredIffOpen
  <2>4. TypeOK'
    BY <2>1, <2>2, <1>t DEF TypeOK
  <2>5. CurInv' /\ QueueInv' /\ BatchInv'
    BY <2>1, <2>3 DEF IInv, CurInv, QueueInv, BatchInv, ReadSteps, Open
  <2> QED BY <2>1, <2>4, <2>5, <1>t, QuietKeeps DEF EventsForLiving
<1>2. CASE EpollWait
  <2>1. /\ pc' = "events" /\ ev' \ {Listen} \subseteq Open /\ ev' \subseteq Open \cup {Listen}
        /\ UNCHANGED <<st, ed, deletes, sock, sent, peer, full, edge, ibuf, rderr, outq,
                       touched, phase, i, cur, out, failed>>
    BY <1>2, <1>l DEF EpollWait, conn, kernel, queues
  <2>2. TypeOK'
    BY <2>1, <1>t, <1>l DEF TypeOK
  <2>3. CurInv' /\ QueueInv' /\ BatchInv'
    BY <2>1 DEF IInv, CurInv, QueueInv, BatchInv, ReadSteps
  <2> QED BY <2>1, <2>2, <2>3, QuietKeeps
<1>3. ASSUME NEW x \in ev, EventCall(x)
      PROVE  IInv'
  <2>1. /\ pc = "events" /\ ev' = ev \ {x} /\ cur' = x /\ phase' = "events"
        /\ UNCHANGED <<st, ed, deletes, sock, sent, peer, full, ibuf, rderr, outq,
                       touched, i, failed>>
    BY <1>3 DEF EventCall, conn, queues
  <2>2. x \in Conns \cup {Listen} /\ (x # Listen => x \in Open)
    BY <1>t DEF TypeOK, EventsForLiving
  <2>3. /\ pc' \in {"accept", "epollerr", "rd_top", "no_in"}
        /\ pc' # "accept" => x # Listen
        /\ out' \in BOOLEAN /\ edge' \in [Conns -> SUBSET {"IN", "OUT", "ERR"}]
    <3>1. CASE x = Listen
      <4>1. pc' = "accept" /\ UNCHANGED <<out, edge>>
        BY <1>3, <3>1 DEF EventCall
      <4> QED BY <4>1, <1>t DEF TypeOK
    <3>2. CASE x # Listen
      <4>1. /\ out' = ("OUT" \in edge[x]) /\ edge' = [edge EXCEPT ![x] = {}]
            /\ pc' = IF "ERR" \in edge[x] THEN "epollerr"
                     ELSE IF "IN" \in edge[x] THEN "rd_top" ELSE "no_in"
        BY <1>3, <3>2 DEF EventCall
      <4>2. edge' \in [Conns -> SUBSET {"IN", "OUT", "ERR"}]
        BY <4>1, <1>t DEF TypeOK
      <4>3. out' \in BOOLEAN
        <5>1. out' = ("OUT" \in edge[x])
          BY <4>1
        <5>2. ("OUT" \in edge[x]) \in BOOLEAN
          OBVIOUS
        <5> QED BY <5>1, <5>2, Zenon
      <4> QED BY <4>1, <4>2, <4>3, <3>2
    <3> QED BY <3>1, <3>2
  <2>4. TypeOK'
    BY <2>1, <2>2, <2>3, <1>t DEF TypeOK
  <2>5. CurInv' /\ QueueInv' /\ BatchInv'
    BY <2>1, <2>2, <2>3 DEF IInv, CurInv, QueueInv, BatchInv, ReadSteps, Open
  <2> QED BY <2>1, <2>4, <2>5, <1>t, QuietKeeps DEF EventsForLiving
<1>4. CASE OnLoop
  <2>1. /\ pc = "events" /\ ev = {} /\ pc' = "drive" /\ i' = 0
        /\ \E F \in SUBSET Open : failed' = failed \cup F
        /\ UNCHANGED <<st, ed, deletes, sock, sent, peer, full, edge, ibuf, rderr, outq,
                       touched, phase, ev, cur, out>>
    BY <1>4 DEF OnLoop, conn, kernel, queues
  <2>2. TypeOK'
    BY <2>1, <1>t, <1>l DEF TypeOK
  <2>3. CurInv' /\ QueueInv' /\ BatchInv'
    BY <2>1 DEF IInv, CurInv, QueueInv, BatchInv, ReadSteps
  <2> QED BY <2>1, <2>2, <2>3, QuietKeeps
<1> QED BY <1>1, <1>2, <1>3, <1>4 DEF Loop

\* hp_io_t_internal_on_accept: a connection of the backlog is opened and registered,
\* or refused.
LEMMA AcceptKeeps ==
  ASSUME IInv, NEW c \in Conns, AcceptOne(c)
  PROVE  IInv'
<1>t. TypeOK /\ RegisteredIffOpen /\ DeletedOnce /\ EventsForLiving
  BY DEF IInv, ConnectionsSound
<1>1. /\ pc = "accept" /\ st[c] = "backlog"
      /\ \/ /\ st' = [st EXCEPT ![c] = "open"] /\ ed' = Append(ed, c)
            /\ edge' = [edge EXCEPT ![c] = @ \cup {"OUT"}]
         \/ st' = [st EXCEPT ![c] = "refused"] /\ UNCHANGED <<ed, edge>>
      /\ UNCHANGED <<deletes, sock, sent, peer, full, ibuf, rderr, outq, touched, pc,
                     phase, i, ev, cur, out, failed>>
  BY DEF AcceptOne, queues, control
<1>2. /\ st' \in [Conns -> {"none", "backlog", "open", "refused", "closed"}]
      /\ \A x \in Conns : /\ st[x] = "open" => st'[x] = "open"
                          /\ st'[x] = "closed" <=> st[x] = "closed"
  BY <1>1, <1>t DEF TypeOK
<1>3. edge' \in [Conns -> SUBSET {"IN", "OUT", "ERR"}]
  <2>1. /\ edge \in [Conns -> SUBSET {"IN", "OUT", "ERR"}]
        /\ edge[c] \cup {"OUT"} \in SUBSET {"IN", "OUT", "ERR"}
    BY <1>t DEF TypeOK
  <2>2. (edge' = [edge EXCEPT ![c] = @ \cup {"OUT"}]) \/ edge' = edge
    BY <1>1
  <2> QED BY <2>1, <2>2
<1>4. ed' \in Seq(Conns \cup {Listen}) /\ RegisteredIffOpen'
  <2>1. CASE st' = [st EXCEPT ![c] = "open"] /\ ed' = Append(ed, c)
    BY <2>1, <1>1, AcceptRegisters
  <2>2. CASE st' = [st EXCEPT ![c] = "refused"] /\ UNCHANGED ed
    <3>1. Open' = Open
      BY <2>2, <1>1, <1>t DEF Open, TypeOK
    <3> QED BY <3>1, <2>2, <1>t DEF RegisteredIffOpen, TypeOK
  <2> QED BY <1>1, <2>1, <2>2
<1>5. TypeOK'
  BY <1>1, <1>2, <1>3, <1>4, <1>t DEF TypeOK
<1>6. DeletedOnce' /\ EventsForLiving'
  BY <1>1, <1>2, <1>t DEF DeletedOnce, EventsForLiving, Open
<1>7. CurInv' /\ QueueInv' /\ BatchInv'
  BY <1>1, <1>2 DEF IInv, CurInv, QueueInv, BatchInv, ReadSteps, Open
<1> QED BY <1>4, <1>5, <1>6, <1>7 DEF IInv, ConnectionsSound

\* hp_io_t_on_error of the connection whose callback runs: it is unregistered and
\* closed, its queues are gone, on_delete is called for the first time, and no event
\* of the batch is left for it.
LEMMA ErrorKeeps ==
  ASSUME IInv, cur \in Open, pc \notin {"drive", "events"}, hp_io_t_on_error(cur),
         UNCHANGED <<kernel, rderr, phase, ev, cur, out, failed>>,
         touched' \in BOOLEAN,
         (pc' = "after_read" /\ UNCHANGED i) \/ Return
  PROVE  IInv'
<1>t. /\ TypeOK /\ RegisteredIffOpen /\ DeletedOnce /\ EventsForLiving
      /\ cur \in Conns /\ st[cur] = "open" /\ cur \notin ev
  BY DEF IInv, ConnectionsSound, Open, BatchInv
<1>1. /\ ed' \in Seq(Conns \cup {Listen}) /\ RegisteredIffOpen'
      /\ st' = [st EXCEPT ![cur] = "closed"]
  BY ErrorUnregisters
<1>2. /\ ibuf' = [ibuf EXCEPT ![cur] = 0] /\ outq' = [outq EXCEPT ![cur] = 0]
      /\ deletes' = [deletes EXCEPT ![cur] = @ + 1]
  BY DEF hp_io_t_on_error
<1>3. pc' \in {"after_read", "drive", "events"} /\ i' \in Nat /\ BatchInv'
  <2>1. CASE Return
    BY <2>1, ReturnKeeps
  <2>2. CASE pc' = "after_read" /\ UNCHANGED i
    BY <2>2, <1>t DEF IInv, BatchInv, TypeOK
  <2> QED BY <2>1, <2>2
<1>4. TypeOK'
  <2>1. deletes' \in [Conns -> Nat]
    BY <1>2, <1>t DEF TypeOK
  <2>2. ibuf' \in [Conns -> Nat] /\ outq' \in [Conns -> Nat]
    BY <1>2, <1>t DEF TypeOK
  <2>3. st' \in [Conns -> {"none", "backlog", "open", "refused", "closed"}]
    BY <1>1, <1>t DEF TypeOK
  <2> QED BY <2>1, <2>2, <2>3, <1>1, <1>3, <1>t DEF TypeOK, kernel
<1>5. DeletedOnce'
  <2>1. ASSUME NEW c \in Conns
        PROVE  deletes'[c] = IF st'[c] = "closed" THEN 1 ELSE 0
    <3>1. CASE c = cur
      <4>1. deletes[cur] = 0 /\ deletes'[cur] = 0 + 1 /\ st'[cur] = "closed"
        BY <1>1, <1>2, <1>t DEF DeletedOnce, TypeOK
      <4> QED BY <3>1, <4>1
    <3>2. CASE c # cur
      BY <3>2, <1>1, <1>2, <1>t DEF DeletedOnce, TypeOK
    <3> QED BY <3>1, <3>2
  <2> QED BY <2>1 DEF DeletedOnce
<1>6. EventsForLiving'
  <2>1. Open' = Open \ {cur}
    BY <1>1, <1>t DEF Open, TypeOK
  <2> QED BY <2>1, <1>t DEF EventsForLiving
<1>7. CurInv'
  BY <1>3, <1>t DEF CurInv, ReadSteps
<1>8. QueueInv'
  BY <1>1, <1>2, <1>t DEF IInv, QueueInv, TypeOK
<1> QED BY <1>1, <1>3, <1>4, <1>5, <1>6, <1>7, <1>8 DEF IInv, ConnectionsSound

\* The steps of hp_rd_read.
LEMMA ReadKeeps ==
  ASSUME IInv, RdTop \/ ReadSome \/ ReadAgain \/ ReadEnds
  PROVE  IInv'
<1>t. TypeOK /\ EventsForLiving /\ Open \subseteq Conns
  BY DEF IInv, ConnectionsSound, Open
<1>1. /\ pc \in ReadSteps /\ cur \in Open /\ cur \in Conns
      /\ UNCHANGED <<st, ed, deletes, sent, peer, full, edge, outq, touched, phase, i, ev,
                     cur, out, failed>>
  BY <1>t DEF IInv, CurInv, RdTop, ReadSome, ReadAgain, ReadEnds, conn, kernel, queues,
             ReadSteps
<1>2. /\ pc' \in {"rd_top", "data", "last_data", "read", "error", "after_read"}
      /\ ibuf' \in [Conns -> Nat] /\ rderr' \in [Conns -> BOOLEAN]
      /\ sock' \in [Conns -> Nat]
      /\ pc' \in {"data", "last_data"} => ibuf'[cur] > 0
  <2>1. CASE RdTop
    BY <2>1, <1>t, <1>1 DEF RdTop, kernel, queues, TypeOK
  <2>2. CASE ReadSome
    <3>1. PICK k \in 1..sock[cur] : /\ sock' = [sock EXCEPT ![cur] = @ - k]
                                    /\ ibuf' = [ibuf EXCEPT ![cur] = @ + k]
      BY <2>2 DEF ReadSome
    <3>2. sock[cur] \in Nat /\ ibuf[cur] \in Nat
      BY <1>1, <1>t DEF TypeOK
    <3>3. sock[cur] - k \in Nat /\ ibuf[cur] + k \in Nat
      BY <3>2
    <3>4. sock' \in [Conns -> Nat] /\ ibuf' \in [Conns -> Nat]
      BY <3>1, <3>3, <1>t DEF TypeOK
    <3>5. pc' = "rd_top" /\ UNCHANGED rderr
      BY <2>2 DEF ReadSome
    <3> QED BY <3>4, <3>5, <1>t DEF TypeOK
  <2>3. CASE ReadAgain
    BY <2>3, <1>t DEF ReadAgain, kernel, queues, TypeOK
  <2>4. CASE ReadEnds
    BY <2>4, <1>t, <1>1 DEF ReadEnds, kernel, TypeOK
  <2> QED BY <2>1, <2>2, <2>3, <2>4
<1>3. TypeOK'
  BY <1>1, <1>2, <1>t DEF TypeOK
<1>4. CurInv' /\ QueueInv' /\ BatchInv'
  BY <1>1, <1>2 DEF IInv, CurInv, QueueInv, BatchInv, ReadSteps, Open
<1> QED BY <1>1, <1>3, <1>4, <1>t, QuietKeeps DEF EventsForLiving

\* on_data: one message is taken, or the buffer dropped, and the answer is queued for
\* an open connection.
LEMMA DataKeeps ==
  ASSUME IInv, pc \in {"data", "last_data"},
         NEW n \in Nat, ibuf' = [ibuf EXCEPT ![cur] = n],
         \/ UNCHANGED outq
         \/ \E c \in Open : outq' = [outq EXCEPT ![c] = @ + 1],
         NEW ok \in BOOLEAN, DataReturns(ok),
         UNCHANGED <<conn, kernel, touched, phase, i, ev, cur, out>>
  PROVE  IInv'
<1>t. TypeOK /\ EventsForLiving /\ Open \subseteq Conns /\ cur \in Open
  BY DEF IInv, ConnectionsSound, Open, CurInv, ReadSteps
<1>1. UNCHANGED <<st, ed, deletes, sock, sent, peer, full, edge, touched, phase, i, ev, cur,
                  out>>
  BY DEF conn, kernel
<1>2. /\ pc' \in {"read", "error", "after_read"}
      /\ rderr' \in [Conns -> BOOLEAN] /\ failed' \subseteq Conns
  <2>0. /\ rderr \in [Conns -> BOOLEAN] /\ failed \subseteq Conns /\ cur \in Conns
    BY <1>t DEF TypeOK
  <2>1. failed' = failed \/ failed' = failed \cup {cur}
    BY DEF DataReturns
  <2>2. \/ pc' \in {"read", "error"} /\ rderr' = rderr
        \/ pc' = "after_read" /\ rderr' = [rderr EXCEPT ![cur] = TRUE]
    BY DEF DataReturns
  <2> QED BY <2>0, <2>1, <2>2
<1>3. outq' \in [Conns -> Nat] /\ QueueInv'
  <2>1. CASE UNCHANGED outq
    BY <2>1, <1>1, <1>t DEF IInv, QueueInv, TypeOK
  <2>2. ASSUME NEW c \in Open, outq' = [outq EXCEPT ![c] = @ + 1]
        PROVE  outq' \in [Conns -> Nat] /\ QueueInv'
    BY <2>2, <1>1, <1>t DEF IInv, QueueInv, TypeOK, Open
  <2> QED BY <2>1, <2>2
<1>4. ibuf' \in [Conns -> Nat]
  BY <1>t DEF TypeOK
<1>5. TypeOK'
  BY <1>1, <1>2, <1>3, <1>4, <1>t DEF TypeOK
<1>6. CurInv' /\ BatchInv'
  BY <1>1, <1>2, <1>t DEF IInv, CurInv, BatchInv, ReadSteps, Open
<1> QED BY <1>1, <1>3, <1>5, <1>6, <1>t, QuietKeeps DEF EventsForLiving

\* The rest of hp_io_t_internal_io_cb.  A write finds output only on an open
\* connection, so that its error is the first.
LEMMA WriteKeeps ==
  ASSUME IInv, AfterRead \/ NoRead \/ Write \/ WriteNothing \/ AcceptAgain
  PROVE  IInv'
<1>t. TypeOK /\ EventsForLiving /\ Open \subseteq Conns
  BY DEF IInv, ConnectionsSound, Open
<1>1. /\ pc \notin {"drive", "events"}
      /\ pc # "accept" => cur \in Conns
      /\ UNCHANGED <<st, ed, deletes, sock, sent, peer, edge, ibuf, rderr, phase, ev, cur,
                     out, failed>>
      /\ touched' \in BOOLEAN
      /\ (pc' = "wr" /\ pc # "accept" /\ UNCHANGED i) \/ Return
  <2>1. CASE AfterRead
    <3>1. touched' = (touched \/ st[cur] = "closed")
      BY <2>1 DEF AfterRead
    <3>2. touched' \in BOOLEAN
      BY <3>1, <1>t DEF TypeOK
    <3> QED BY <2>1, <3>2, <1>t DEF AfterRead, conn, kernel, queues, IInv, CurInv
  <2>2. CASE NoRead
    BY <2>2, <1>t DEF NoRead, conn, kernel, queues, IInv, CurInv, TypeOK, ReadSteps
  <2>3. CASE Write
    BY <2>3, <1>t DEF Write, conn, IInv, CurInv, TypeOK
  <2>4. CASE WriteNothing
    BY <2>4, <1>t DEF WriteNothing, conn, kernel, queues, IInv, CurInv, TypeOK
  <2>5. CASE AcceptAgain
    BY <2>5, <1>t DEF AcceptAgain, conn, kernel, queues, TypeOK
  <2> QED BY <2>1, <2>2, <2>3, <2>4, <2>5
<1>2. outq' \in [Conns -> Nat] /\ full' \in [Conns -> BOOLEAN] /\ QueueInv'
  <2>1. CASE UNCHANGED <<outq, full>>
    BY <2>1, <1>1, <1>t DEF IInv, QueueInv, TypeOK
  <2>2. CASE Write
    <3>1. PICK k \in 1..outq[cur] :
            /\ outq' = [outq EXCEPT ![cur] = @ - k]
            /\ full' = [full EXCEPT ![cur] = (k < outq[cur])]
      BY <2>2 DEF Write
    <3>2. cur \in Conns /\ outq[cur] \in Nat /\ outq[cur] - k \in Nat
      BY <2>2, <1>1, <1>t DEF Write, TypeOK
    <3>3. full' \in [Conns -> BOOLEAN]
      <4>1. (k < outq[cur]) \in BOOLEAN
        OBVIOUS
      <4> QED BY <4>1, <3>1, <1>t, Zenon DEF TypeOK
    <3>4. outq' \in [Conns -> Nat] /\ QueueInv'
      BY <3>1, <3>2, <1>1, <1>t DEF IInv, QueueInv, TypeOK
    <3> QED BY <3>3, <3>4
  <2> QED BY <2>1, <2>2 DEF AfterRead, NoRead, WriteNothing, AcceptAgain, kernel, queues
<1>3. pc' \in {"wr", "drive", "events"} /\ i' \in Nat /\ BatchInv'
  <2>1. CASE Return
    BY <2>1, <1>1, ReturnKeeps
  <2>2. CASE pc' = "wr" /\ UNCHANGED i
    BY <2>2, <1>1, <1>t DEF IInv, BatchInv, TypeOK
  <2> QED BY <1>1, <2>1, <2>2
<1>4. TypeOK'
  BY <1>1, <1>2, <1>3, <1>t DEF TypeOK
<1>5. CurInv'
  BY <1>1, <1>3, <1>t DEF CurInv, ReadSteps, Return, TypeOK
<1> QED BY <1>1, <1>2, <1>3, <1>4, <1>5, <1>t, QuietKeeps DEF EventsForLiving
-----------------------------------------------------------------------------
(* The theorem *)

\* Nothing is open, and only the listening descriptor is registered.
LEMMA InitHolds == Init => IInv
<1>1. SUFFICES ASSUME Init PROVE IInv
  OBVIOUS
<1>2. TypeOK
  <2>1. ed \in Seq(Conns \cup {Listen})
    BY <1>1 DEF Init
  <2> QED BY <1>1, <2>1 DEF Init, Zero, TypeOK
<1>3. RegisteredIffOpen
  <2>1. Len(ed) = 1 /\ ed[1] = Listen
    BY <1>1 DEF Init
  <2>2. {ed[k] : k \in 1..Len(ed)} = {Listen} /\ 1..Len(ed) = {1}
    BY <2>1
  <2>3. Open = {}
    BY <1>1 DEF Init, Open
  <2> QED BY <2>1, <2>2, <2>3 DEF RegisteredIffOpen
<1>4. DeletedOnce /\ EventsForLiving /\ CurInv /\ QueueInv /\ BatchInv
  BY <1>1 DEF Init, Zero, DeletedOnce, EventsForLiving, CurInv, QueueInv, BatchInv, ReadSteps
<1> QED BY <1>2, <1>3, <1>4 DEF IInv, ConnectionsSound

\* A step of a callback, in the order of the module.
LEMMA CallbackKeeps ==
  ASSUME IInv, Callback
  PROVE  IInv'
<1>t. TypeOK /\ (pc \in ReadSteps => cur \in Open)
  BY DEF IInv, ConnectionsSound, CurInv
<1>1. CASE \E c \in Conns : AcceptOne(c)
  BY <1>1, AcceptKeeps
<1>2. CASE RdTop \/ ReadSome \/ ReadAgain \/ ReadEnds
  BY <1>2, ReadKeeps
<1>3. CASE AfterRead \/ NoRead \/ Write \/ WriteNothing \/ AcceptAgain
  BY <1>3, WriteKeeps
<1>4. CASE \E c \in Open, ok \in {TRUE, ~MayFail({cur})} : Dispatch(c, ok)
  <2>1. PICK c \in Open, ok \in {TRUE, ~MayFail({cur})} : Dispatch(c, ok)
    BY <1>4
  <2>2. ok \in BOOLEAN
    BY Zenon
  <2>3. /\ pc \in {"data", "last_data"} /\ ibuf' = [ibuf EXCEPT ![cur] = @ - 1]
        /\ outq' = IF ok THEN [outq EXCEPT ![c] = @ + 1] ELSE outq
        /\ DataReturns(ok)
        /\ UNCHANGED <<conn, kernel, touched, phase, i, ev, cur, out>>
    BY <2>1 DEF Dispatch
  <2>4. ibuf[cur] - 1 \in Nat
    <3>1. ibuf[cur] > 0 /\ cur \in Conns
      BY <2>3 DEF IInv, CurInv, ReadSteps, Open
    <3>2. ibuf[cur] \in Nat
      BY <3>1, <1>t DEF TypeOK
    <3> QED BY <3>1, <3>2
  <2>5. ibuf' = [ibuf EXCEPT ![cur] = ibuf[cur] - 1]
    BY <2>3
  <2>6. UNCHANGED outq \/ \E x \in Open : outq' = [outq EXCEPT ![x] = @ + 1]
    BY <2>3
  <2> QED BY <2>2, <2>3, <2>4, <2>5, <2>6, DataKeeps
<1>5. CASE ParseFails
  <2>1. /\ pc \in {"data", "last_data"} /\ ibuf' = [ibuf EXCEPT ![cur] = 0]
        /\ DataReturns(FALSE) /\ UNCHANGED outq
        /\ UNCHANGED <<conn, kernel, touched, phase, i, ev, cur, out>>
    BY <1>5 DEF ParseFails
  <2> QED BY <2>1, DataKeeps
<1>6. CASE OnError
  <2>1. /\ pc \in {"error", "epollerr"} /\ hp_io_t_on_error(cur)
        /\ (pc' = "after_read" /\ UNCHANGED i) \/ Return
        /\ UNCHANGED <<kernel, rderr, touched, phase, ev, cur, out, failed>>
    BY <1>6 DEF OnError
  <2> QED BY <2>1, <1>t, ErrorKeeps DEF ReadSteps, TypeOK
<1>7. CASE WriteError
  <2>1. /\ pc = "wr" /\ outq[cur] > 0 /\ hp_io_t_on_error(cur) /\ touched' = TRUE /\ Return
        /\ UNCHANGED <<kernel, rderr, phase, ev, cur, out, failed>>
    BY <1>7 DEF WriteError
  <2>2. cur \in Open
    BY <2>1 DEF IInv, CurInv, QueueInv, Open
  <2> QED BY <2>1, <2>2, ErrorKeeps
<1> QED BY <1>1, <1>2, <1>3, <1>4, <1>5, <1>6, <1>7 DEF Callback

\* Every step of the peers, of the loop and of the callbacks keeps the invariant.
LEMMA StepKeeps == IInv /\ [Next]_vars => IInv'
<1>1. SUFFICES ASSUME IInv, [Next]_vars PROVE IInv'
  OBVIOUS
<1>2. CASE Next
  BY <1>1, <1>2, PeersKeep, CallbackKeeps, LoopKeeps DEF Next
<1>3. CASE UNCHANGED vars
  BY <1>1, <1>3 DEF vars, IInv, ConnectionsSound, TypeOK, RegisteredIffOpen, DeletedOnce,
                    EventsForLiving, Open, CurInv, QueueInv, BatchInv
<1> QED BY <1>1, <1>2, <1>3

\* In every behaviour a connection is registered with epoll exactly while it is
\* open, on_delete is called once, when it is closed, and no event of the batch is
\* for one that is gone: hp_io_t_on_error on each path of hp_io_t_internal_io_cb.
THEOREM ConnectionsAreSound == Spec => []ConnectionsSound
<1>1. IInv => ConnectionsSound
  BY DEF IInv
<1> QED BY <1>1, InitHolds, StepKeeps, PTL DEF Spec
=============================================================================
