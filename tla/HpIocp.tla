------------------------------- MODULE HpIocp -------------------------------
(***************************************************************************)
(* The event loop of hp_iocp.c for Windows.  Three kinds of threads work   *)
(* on it: the user's, which owns the table items and handles messages; the *)
(* poll thread, which owns the table pds, watches sockets and starts reads *)
(* (hp_iocp_select_threadfn, or hp_iocp_poll_threadfn, which differs in    *)
(* the system call only); and the threads of the completion port, which    *)
(* turn completions into messages.  They share nothing but message queues. *)
(*                                                                         *)
(* Connections are named by the id of their item.  The peer's stream is a  *)
(* sequence of numbered chunks; a read takes one.  on_data takes all it is *)
(* given or, while there is room, nothing.                                 *)
(***************************************************************************)
EXTENDS Integers, Sequences, FiniteSets, Functions, SequencesExt

CONSTANTS
  PortThreads,    \* threads of the completion port
  IBufMax,        \* room of ibuf, in chunks
  MaxItems,       \* capacity of items
  MaxAdds,        \* bound: hp_iocp_add calls (below INT_MAX - 1)
  MaxWrites,      \* bound: hp_iocp_write calls
  MaxChunks,      \* bound: chunks the peers send
  MaxWork,        \* bound: all three together, an hp_iocp_add counting twice
  MaxQueue,       \* bound: messages under way when the poll thread selects
  PartialSends,   \* a send may complete with fewer bytes than it was given
  Idle            \* what a port thread holds between completions

ASSUME IocpAssumption ==
  /\ IBufMax \in Nat \ {0} /\ MaxItems \in Nat /\ MaxAdds \in Nat
  /\ MaxWrites \in Nat /\ MaxChunks \in Nat /\ MaxQueue \in Nat /\ MaxWork \in Nat
  /\ PartialSends \in BOOLEAN /\ IsFiniteSet(PortThreads)
  /\ Idle \notin [id : Int, kind : {"r", "w", "quit"}, n : Nat, nbuf : {-1, 0, 1}]

VARIABLES
  items,          \* Seq of items: id, obuf, ibuf, rm (callbacks are defaults)
  ioid,           \* next id, -1 after hp_iocp_uninit
  uq, pq,         \* message queues of the user's thread and of the poll thread
  pds,            \* the poll thread's table: id and flags
  tpc, tk,        \* where the poll thread is, the entry it looks at
  rfds, wfds,     \* what select reported
  port, held,     \* completion queue; held[t]: what thread t is about to post
  sending,        \* sends the system has accepted
  ipc, ii,        \* where the user's thread is, its index into items
  arrived, taken, \* chunks received by the system, chunks read, per id
  closed, reset,  \* sockets closed by on_error, connections cut by the peer
  written, got,   \* per id: writes so far; chunks on_data took, in its order
  sent, released  \* writes given to WSASend and overlapped blocks deleted

table == <<items, ioid, written>>
sockets == <<arrived, reset>>
pollThread == <<pds, tpc, tk, rfds, wfds>>
userThread == <<ipc, ii>>
iocpVars == <<items, ioid, uq, pq, pds, tpc, tk, rfds, wfds, port, held, sending,
              ipc, ii, arrived, taken, closed, reset, written, got, sent,
              released>>

Ids == 0..MaxAdds - 1
hp_iocp_ol(id, kind, n) == [id |-> id, kind |-> kind, n |-> n, nbuf |-> 1]
Failed(ol) == [ol EXCEPT !.nbuf = 0]
Short(ol) == [ol EXCEPT !.nbuf = -1]
Total(f) == FoldFunction(+, 0, f)
Work == 2 * ioid + Total(written) + Total(arrived)
Entry(s, id) == {k \in 1..Len(s) : s[k].id = id}
Post(q, op, id, flags) == Append(q, [op |-> op, id |-> id, flags |-> flags])

IocpInit ==
  /\ items = <<>> /\ ioid = 0 /\ uq = <<>> /\ pq = <<>>
  /\ pds = <<>> /\ tpc = "drain" /\ tk = 1 /\ rfds = {} /\ wfds = {}
  /\ port = <<>> /\ held = [t \in PortThreads |-> Idle] /\ sending = {}
  /\ ipc = "msgs" /\ ii = 1
  /\ arrived = [id \in Ids |-> 0] /\ taken = [id \in Ids |-> 0]
  /\ closed = {} /\ reset = {}
  /\ written = [id \in Ids |-> 0] /\ got = [id \in Ids |-> <<>>]
  /\ sent = [id \in Ids |-> <<>>] /\ released = {}
-----------------------------------------------------------------------------
(* Calls of the user's thread *)

UserCalls == ipc = "msgs"

hp_iocp_do_socket == pq' = Post(pq, "ADD", ioid, {"IN"})

hp_iocp_add ==
  /\ UserCalls
  /\ ioid < MaxAdds /\ Work + 2 <= MaxWork
  /\ Len(items) < MaxItems
  /\ items' = Append(items, [id |-> ioid, obuf |-> <<>>, ibuf |-> <<>>, rm |-> FALSE])
  /\ hp_iocp_do_socket
  /\ ioid' = ioid + 1
  /\ UNCHANGED <<uq, pollThread, port, held, sending, userThread, sockets, taken,
                 closed, written, got, sent, released>>

\* A write to a connection that is gone or removed frees its data at once.
hp_iocp_write(id) ==
  /\ UserCalls
  /\ Total(written) < MaxWrites /\ Work < MaxWork
  /\ written' = [written EXCEPT ![id] = @ + 1]
  /\ LET K == {k \in Entry(items, id) : ~items[k].rm}
         ol == hp_iocp_ol(id, "w", written[id] + 1)
     IN  IF K # {}
           THEN /\ items' = [k \in DOMAIN items |->
                     IF k \in K THEN [items[k] EXCEPT !.obuf = Append(@, ol)] ELSE items[k]]
                /\ pq' = Post(pq, "RM", id, {"IN", "OUT"})
                /\ UNCHANGED released
           ELSE /\ id < ioid
                /\ released' = released \cup {ol}
                /\ UNCHANGED <<items, pq>>
  /\ UNCHANGED <<ioid, uq, pollThread, port, held, sending, userThread, sockets,
                 taken, closed, got, sent>>

\* The item keeps its place, with default callbacks.
hp_iocp_rm(id) ==
  /\ UserCalls
  /\ \E k \in Entry(items, id) :
       ~items[k].rm /\ items' = [items EXCEPT ![k].rm = TRUE]
  /\ UNCHANGED <<ioid, uq, pq, pollThread, port, held, sending, userThread, sockets,
                 taken, closed, written, got, sent, released>>

\* Mutant: the poll thread is told twice.
Bad_hp_iocp_item_on_error(k) ==
  /\ items' = RemoveAt(items, k)
  /\ pq' = Post(Post(pq, "RM", items[k].id, {}), "RM", items[k].id, {})
  /\ closed' = closed \cup {items[k].id}

\* The buffers go, the poll thread is told, on_error closes the socket.
hp_iocp_item_on_error(k) ==
  /\ items' = RemoveAt(items, k)
  /\ pq' = Post(pq, "RM", items[k].id, {})
  /\ closed' = closed \cup {items[k].id}
-----------------------------------------------------------------------------
(* hp_iocp_run: messages while there are any, then on_loop of every item *)

NextMessage ==
  /\ ipc = "msgs"
  /\ uq # <<>>
  /\ uq' = Tail(uq)
  /\ UNCHANGED <<ioid, userThread, pollThread, port, held, sockets, taken, written>>

Dropped == UNCHANGED <<items, pq, closed>>

hp_iocp_do_write(k) ==
  /\ items' = [items EXCEPT ![k].obuf = Tail(@)]
  /\ sending' = sending \cup {Head(items[k].obuf)}
  /\ sent' = [sent EXCEPT ![items[k].id] = Append(@, Head(items[k].obuf).n)]
  /\ UNCHANGED <<pq, closed, released>>

\* WSASend fails: the block is deleted and the connection ends.
WSASendFails(k) ==
  /\ items[k].id \in reset
  /\ hp_iocp_item_on_error(k)
  /\ released' = released \cup {Head(items[k].obuf)}
  /\ UNCHANGED <<sending, sent>>

\* HP_IOCP_WM_FD
HandleFd ==
  /\ NextMessage
  /\ Head(uq).op = "FD"
  /\ \/ /\ Entry(items, Head(uq).id) = {}
        /\ Dropped /\ UNCHANGED <<sending, sent, released>>
     \/ \E k \in Entry(items, Head(uq).id) :
          \/ /\ "ERR" \in Head(uq).flags
             /\ hp_iocp_item_on_error(k) /\ UNCHANGED <<sending, sent, released>>
          \/ /\ Head(uq).flags = {"OUT"} /\ items[k].obuf # <<>>
             /\ hp_iocp_do_write(k) \/ WSASendFails(k)
          \/ /\ Head(uq).flags = {} \/ (Head(uq).flags = {"OUT"} /\ items[k].obuf = <<>>)
             /\ Dropped /\ UNCHANGED <<sending, sent, released>>
  /\ UNCHANGED got

HasRoom(k) == Len(items[k].ibuf) < IBufMax

\* Mutant: a read overwrites what on_data has left in ibuf.
Bad_Buffered(k, ol) == <<ol.n>>

\* Chunks on_data has before it decides; it must take them when ibuf is full.
Buffered(k, ol) == Append(items[k].ibuf, ol.n)

\* on_data, for a read that brought something
ReadDone(k, ol) ==
  /\ ol.kind = "r" /\ ol.nbuf = 1
  /\ \/ /\ ~items[k].rm
        /\ got' = [got EXCEPT ![ol.id] = @ \o Buffered(k, ol)]
        /\ items' = [items EXCEPT ![k].ibuf = <<>>]
        /\ UNCHANGED <<pq, closed>>
     \/ /\ ~items[k].rm /\ HasRoom(k)
        /\ items' = [items EXCEPT ![k].ibuf = Buffered(k, ol)]
        /\ UNCHANGED <<pq, closed, got>>
     \/ /\ items[k].rm    \* hp_iocp_def_on_data: -1
        /\ hp_iocp_item_on_error(k) /\ UNCHANGED got

\* A send completed; if partly, the rest is queued behind the others.
WriteDone(k, ol) ==
  /\ ol.kind = "w" /\ ol.nbuf # 0
  /\ IF ol.nbuf = -1
       THEN /\ items' = [items EXCEPT ![k].obuf =
                           Append(@, hp_iocp_ol(ol.id, "w", ol.n))]
            /\ pq' = Post(pq, "RM", ol.id, {"IN", "OUT"})
       ELSE UNCHANGED <<items, pq>>
  /\ UNCHANGED <<closed, got>>

\* HP_IOCP_WM_IO: in the end the overlapped block is deleted.
HandleIo ==
  /\ NextMessage
  /\ Head(uq).op = "IO"
  /\ LET ol == Head(uq).flags
     IN  /\ \/ Entry(items, ol.id) = {} /\ Dropped /\ UNCHANGED got
            \/ \E k \in Entry(items, ol.id) :
                 \/ ReadDone(k, ol)
                 \/ WriteDone(k, ol)
                 \/ ol.nbuf = 0 /\ hp_iocp_item_on_error(k) /\ UNCHANGED got
         /\ released' = IF ol.kind = "w"
                          THEN released \cup {hp_iocp_ol(ol.id, "w", ol.n)}
                          ELSE released
  /\ UNCHANGED <<sending, sent>>

MessagesEnd ==
  /\ ipc = "msgs" /\ uq = <<>>
  /\ ipc' = "items" /\ ii' = 1
  /\ UNCHANGED <<table, uq, pq, pollThread, port, held, sending, sockets, taken, closed,
                 got, sent, released>>

\* on_loop of a removed item returns -1 (hp_iocp_def_on_loop).
ItemsStep ==
  /\ ipc = "items"
  /\ IF ii > Len(items) THEN ipc' = "msgs" /\ UNCHANGED <<ii, items, pq, closed>>
     ELSE IF items[ii].rm
       THEN hp_iocp_item_on_error(ii) /\ UNCHANGED <<ii, ipc>>
       ELSE ii' = ii + 1 /\ UNCHANGED <<ipc, items, pq, closed>>
  /\ UNCHANGED <<ioid, uq, pollThread, port, held, sending, sockets, taken, written,
                 got, sent, released>>
-----------------------------------------------------------------------------
(* The poll thread *)

Quit == ioid = -1

\* Its asserts: a socket is added once and removed while it is there.
Drain ==
  /\ tpc = "drain" /\ pq # <<>> /\ ~Quit
  /\ pq' = Tail(pq)
  /\ LET m == Head(pq)
         K == Entry(pds, m.id)
     IN  \/ /\ m.op = "ADD" /\ K = {}
            /\ pds' = Append(pds, [id |-> m.id, flags |-> m.flags])
            /\ UNCHANGED tpc
         \/ \E k \in K :
              /\ m.op = "RM"
              /\ pds' = IF m.flags = {} THEN RemoveAt(pds, k)
                        ELSE [pds EXCEPT ![k].flags = m.flags]
              /\ UNCHANGED tpc
         \/ (m.op = "ADD") # (K = {}) /\ tpc' = "assert" /\ UNCHANGED pds
  /\ UNCHANGED <<table, uq, tk, rfds, wfds, port, held, sending, userThread, sockets,
                 taken, closed, got, sent, released>>

Readable(id) == taken[id] < arrived[id] \/ id \in reset

\* select over pds; a socket that was closed makes it fail, and the thread
\* starts over.
Select ==
  /\ tpc = "drain" /\ pq = <<>> /\ ~Quit
  /\ pds # <<>> /\ Len(uq) + Len(port) <= MaxQueue
  /\ \A k \in 1..Len(pds) : pds[k].id \notin closed
  /\ rfds' = {pds[k].id : k \in {j \in 1..Len(pds) :
                                   "IN" \in pds[j].flags /\ Readable(pds[j].id)}}
  /\ wfds' = {pds[k].id : k \in {j \in 1..Len(pds) : "OUT" \in pds[j].flags}}
  /\ rfds' \cup wfds' # {}
  /\ tpc' = "scan" /\ tk' = 1
  /\ UNCHANGED <<table, uq, pq, pds, port, held, sending, userThread, sockets, taken,
                 closed, got, sent, released>>

\* hp_iocp_do_read: a read that starts takes what has arrived and completes.
hp_iocp_do_read(id) ==
  IF id \in closed THEN UNCHANGED <<port, taken>>
  ELSE /\ taken' = IF taken[id] < arrived[id] THEN [taken EXCEPT ![id] = @ + 1] ELSE taken
       /\ port' = Append(port,
            IF taken[id] < arrived[id] THEN hp_iocp_ol(id, "r", taken[id] + 1)
            ELSE Failed(hp_iocp_ol(id, "r", 0)))

\* One entry of pds: POLLOUT is asked for once, the read is started, the user
\* is told.
Scan ==
  /\ tpc = "scan" /\ tk <= Len(pds)
  /\ LET id == pds[tk].id
         out == IF id \in wfds THEN {"OUT"} ELSE {}
     IN  IF id \in rfds \cup wfds
           THEN /\ pds' = [pds EXCEPT ![tk].flags = @ \ out]
                /\ IF id \in rfds /\ Readable(id) THEN hp_iocp_do_read(id)
                                  ELSE UNCHANGED <<port, taken>>
                /\ uq' = Post(uq, "FD", id,
                              IF id \in rfds /\ id \in closed THEN {"ERR"} ELSE out)
           ELSE UNCHANGED <<pds, port, taken, uq>>
  /\ tk' = tk + 1
  /\ UNCHANGED <<table, pq, tpc, rfds, wfds, held, sending, userThread, sockets,
                 closed, got, sent, released>>

ScanEnds ==
  /\ tpc = "scan" /\ tk > Len(pds)
  /\ tpc' = "drain"
  /\ UNCHANGED <<table, uq, pq, pds, tk, rfds, wfds, port, held, sending, userThread,
                 sockets, taken, closed, got, sent, released>>

PollThreadQuits ==
  /\ tpc = "drain" /\ Quit
  /\ tpc' = "exit"
  /\ UNCHANGED <<table, uq, pq, pds, tk, rfds, wfds, port, held, sending, userThread,
                 sockets, taken, closed, got, sent, released>>
-----------------------------------------------------------------------------
(* Completion port, system and peer *)

QuitPacket == [hp_iocp_ol(0, "quit", 0) EXCEPT !.nbuf = 0]

\* hp_iocp_threadfn: one thread takes a completion, and posts it later.
GetQueuedCompletionStatus(t) ==
  /\ held[t] = Idle /\ port # <<>>
  /\ port' = Tail(port)
  /\ held' = [held EXCEPT ![t] = Head(port)]
  /\ UNCHANGED <<table, uq, pq, pollThread, sending, userThread, sockets, taken, closed,
                 got, sent, released>>

PostCompletion(t) ==
  /\ held[t] \notin {Idle, QuitPacket}
  /\ uq' = Post(uq, "IO", held[t].id, held[t])
  /\ held' = [held EXCEPT ![t] = Idle]
  /\ UNCHANGED <<table, pq, pollThread, port, sending, userThread, sockets, taken,
                 closed, got, sent, released>>

SendCompletes ==
  /\ \E ol \in sending :
       /\ sending' = sending \ {ol}
       /\ \E done \in IF ol.id \in reset \cup closed THEN {Failed(ol)}
                      ELSE {ol} \cup (IF PartialSends THEN {Short(ol)} ELSE {}) :
            port' = Append(port, done)
  /\ UNCHANGED <<table, uq, pq, pollThread, held, userThread, sockets, taken, closed,
                 got, sent, released>>

PeerSends(id) ==
  /\ id < ioid /\ id \notin reset
  /\ Total(arrived) < MaxChunks /\ Work < MaxWork
  /\ arrived' = [arrived EXCEPT ![id] = @ + 1]
  /\ UNCHANGED <<table, uq, pq, pollThread, port, held, sending, userThread, taken,
                 reset, closed, got, sent, released>>

PeerCloses(id) ==
  /\ id < ioid /\ id \notin reset
  /\ reset' = reset \cup {id}
  /\ UNCHANGED <<table, uq, pq, pollThread, port, held, sending, userThread, taken,
                 arrived, closed, got, sent, released>>
-----------------------------------------------------------------------------
(* hp_iocp_uninit *)

\* Mutant: one thread is not told to end.
Bad_PostQuit ==
  /\ ipc = "msgs"
  /\ ipc' = "quit"
  /\ port' = port \o [k \in 1..Cardinality(PortThreads) - 1 |-> QuitPacket]
  /\ UNCHANGED <<table, uq, pq, pollThread, held, sending, ii, sockets, taken, closed,
                 got, sent, released>>

PostQuit ==
  /\ ipc = "msgs"
  /\ ipc' = "quit"
  /\ port' = port \o [k \in 1..Cardinality(PortThreads) |-> QuitPacket]
  /\ UNCHANGED <<table, uq, pq, pollThread, held, sending, ii, sockets, taken, closed,
                 got, sent, released>>

\* The port threads have ended: the callbacks become defaults, the messages are
\* handled, and the poll thread is told to end.
WaitForThreads ==
  /\ ipc = "quit"
  /\ \A t \in PortThreads : held[t] = QuitPacket
  /\ ipc' = "drained"
  /\ items' = <<>> /\ uq' = <<>> /\ ioid' = -1
  /\ released' = released \cup
       {hp_iocp_ol(m.id, "w", m.flags.n) : m \in
          {uq[k] : k \in {j \in 1..Len(uq) : uq[j].op = "IO" /\ uq[j].flags.kind = "w"}}}
  /\ UNCHANGED <<pq, pollThread, port, held, sending, ii, sockets, taken, closed,
                 written, got, sent>>

WaitForPollThread ==
  /\ ipc = "drained" /\ tpc = "exit"
  /\ ipc' = "done"
  /\ UNCHANGED <<table, uq, pq, pollThread, port, held, sending, ii, sockets, taken,
                 closed, got, sent, released>>

hp_iocp_uninit == PostQuit \/ WaitForThreads \/ WaitForPollThread
UserStep == HandleFd \/ HandleIo \/ MessagesEnd \/ ItemsStep
PollThreadStep == Drain \/ Select \/ Scan \/ ScanEnds \/ PollThreadQuits
PortStep == \E t \in PortThreads : GetQueuedCompletionStatus(t) \/ PostCompletion(t)

IocpNext ==
  \/ hp_iocp_add
  \/ \E id \in Ids : hp_iocp_write(id) \/ hp_iocp_rm(id) \/ PeerSends(id) \/ PeerCloses(id)
  \/ UserStep \/ PollThreadStep \/ PortStep \/ SendCompletes \/ hp_iocp_uninit

IocpSpec == IocpInit /\ [][IocpNext]_iocpVars

\* Every thread runs on, the program calls hp_iocp_run again and again, and sends
\* complete.
IocpFair ==
  /\ WF_iocpVars(UserStep)
  /\ WF_iocpVars(PollThreadStep)
  /\ \A t \in PortThreads :
       WF_iocpVars(GetQueuedCompletionStatus(t) \/ PostCompletion(t))
  /\ WF_iocpVars(SendCompletes)
  /\ WF_iocpVars(WaitForThreads \/ WaitForPollThread)
-----------------------------------------------------------------------------
\* items has room for its entries, an ibuf for what it holds, and ids ascend.
IocpTypeOK ==
  /\ Len(items) <= MaxItems
  /\ \A k \in 1..Len(items) : items[k].id \in Ids /\ Len(items[k].ibuf) <= IBufMax
  /\ \A k, j \in 1..Len(items) : k < j => items[k].id < items[j].id
  /\ \A k \in 1..Len(pds) : pds[k].flags \in (SUBSET {"IN", "OUT"}) \ {{}}

\* assert(!pd) and assert(pd) of the poll thread hold, whatever the order in
\* which connections end and are written to.
PollThreadAsserts == tpc # "assert"

\* Once the poll thread has read its messages, its table names the connections of
\* items, although neither thread looks at the other's table.
TablesAgree ==
  pq = <<>> /\ ~Quit =>
    {pds[k].id : k \in 1..Len(pds)} = {items[k].id : k \in 1..Len(items)}

\* An overlapped block that was deleted is in no queue.
NoDeletedBlock ==
  \A k \in 1..Len(items), ol \in released :
    \A j \in 1..Len(items[k].obuf) : items[k].obuf[j] # ol

\* on_data gets what the peer sent, in the order in which it was sent.
InputInOrder ==
  \A id \in Ids : got[id] = [n \in 1..Len(got[id]) |-> n]

\* What was written to a connection is given to WSASend, if the connection stays.
OutputSent ==
  \A id \in Ids, n \in 1..MaxWrites :
    (\E k \in Entry(items, id) : \E j \in 1..Len(items[k].obuf) : items[k].obuf[j].n = n)
      ~> \/ n \in {sent[id][j] : j \in 1..Len(sent[id])}
         \/ Entry(items, id) = {} \/ id \in reset

\* hp_iocp_uninit ends: no thread waits for another for ever.
UninitEnds == ipc = "quit" ~> ipc = "done"

\* The threads' tables agree where they may be compared, nothing that was deleted is
\* queued and no assert fails, whatever the order of messages and completions.
IocpSound == IocpTypeOK /\ PollThreadAsserts /\ TablesAgree /\ NoDeletedBlock

\* What is written is sent, and the threads end.
IocpServes == OutputSent /\ UninitEnds
=============================================================================
