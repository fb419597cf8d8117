-------------------------------- MODULE HpIoT -------------------------------
(***************************************************************************)
(* The life of connections in hp_io_t.cpp on its epoll build: a listening  *)
(* descriptor whose callback accepts, and per connection the callback      *)
(* hp_io_t_internal_io_cb, which reads (hp_rd_read), dispatches, writes    *)
(* (hp_wr_write) and, on an error, unregisters, closes and calls on_delete.*)
(*                                                                         *)
(* The module composes hp_io_t with the loop of hp_epoll_run (HpEpoll) and *)
(* with the two queues of hp_io.c (HpRd and HpWr), here at the granularity *)
(* of whole messages.  epoll is edge triggered for connections and level   *)
(* triggered for the listening descriptor.  on_dispatch answers the sender *)
(* or relays to another connection.                                        *)
(***************************************************************************)
EXTENDS Integers, Sequences, FiniteSets, SequencesExt

CONSTANTS
  Conns,           \* connections a peer may open
  Listen,          \* the listening hp_io_t
  MaxFd,           \* opt.maxfd: slots of the epoll array
  MaxMsgs,         \* bound: messages the peers send, all together
  MaxFails,        \* bound: connections whose callbacks may return < 0
  OnDeleteFrees    \* the user's on_delete frees its hp_io_t

ASSUME ListenAssumption == Listen \notin Conns
ASSUME MaxFdAssumption == MaxFd \in Nat \ {0}
ASSUME MaxMsgsAssumption == MaxMsgs \in Nat
ASSUME FailAssumption == MaxFails \in Nat /\ OnDeleteFrees \in BOOLEAN

VARIABLES
  st,        \* st[c]: "none", "backlog", "open", "refused" or "closed"
  ed,        \* registered hp_io_t, in the order of epo->ed
  sock,      \* sock[c]: messages in the kernel's receive buffer
  sent,      \* number of messages the peers have sent
  peer,      \* peer[c]: "open", "eof" or "reset"
  full,      \* full[c]: the kernel's send buffer is full
  edge,      \* edge[c]: events epoll has yet to report for c
  ibuf,      \* ibuf[c]: messages in rd->i_buf
  rderr,     \* rderr[c]: rd->err is not 0
  outq,      \* outq[c]: messages in wr->o_items
  deletes,   \* deletes[c]: on_delete calls
  touched,   \* io of some c was accessed after its on_delete
  pc, phase, \* step of the running callback; loop it was called from
  i, ev,     \* index of the drive loop; events still to dispatch
  cur,       \* the hp_io_t whose callback runs
  out,       \* its event mask has EPOLLOUT
  failed     \* connections one of whose callbacks has returned < 0

conn == <<st, ed, deletes>>
kernel == <<sock, sent, peer, full, edge>>
queues == <<ibuf, rderr, outq>>
control == <<pc, phase, i, ev, cur, out>>
vars == <<st, ed, sock, sent, peer, full, edge, ibuf, rderr, outq, deletes,
          touched, pc, phase, i, ev, cur, out, failed>>

Open == {c \in Conns : st[c] = "open"}
Zero == [c \in Conns |-> 0]

Init ==
  /\ st = [c \in Conns |-> "none"]
  /\ ed = <<Listen>>
  /\ sent = 0 /\ sock = Zero /\ ibuf = Zero /\ outq = Zero /\ deletes = Zero
  /\ peer = [c \in Conns |-> "open"]
  /\ full = [c \in Conns |-> FALSE]
  /\ edge = [c \in Conns |-> {}]
  /\ rderr = [c \in Conns |-> FALSE]
  /\ touched = FALSE /\ failed = {}
  /\ pc = "drive" /\ phase = "drive" /\ i = 0 /\ ev = {} /\ cur = Listen
  /\ out = FALSE
-----------------------------------------------------------------------------
(* Peers, at any time *)

Connect(c) ==
  /\ st[c] = "none"
  /\ st' = [st EXCEPT ![c] = "backlog"]
  /\ UNCHANGED <<ed, deletes, kernel, queues, touched, control, failed>>

PeerSends(c) ==
  /\ st[c] \in {"backlog", "open"} /\ peer[c] = "open" /\ sent < MaxMsgs
  /\ sock' = [sock EXCEPT ![c] = @ + 1]
  /\ sent' = sent + 1
  /\ edge' = [edge EXCEPT ![c] = @ \cup {"IN"}]
  /\ UNCHANGED <<conn, peer, full, queues, touched, control, failed>>

PeerCloses(c, how) ==
  /\ st[c] \in {"backlog", "open"} /\ peer[c] = "open"
  /\ peer' = [peer EXCEPT ![c] = how]
  /\ edge' = [edge EXCEPT ![c] =
                @ \cup {"IN"} \cup (IF how = "reset" THEN {"ERR"} ELSE {})]
  /\ UNCHANGED <<conn, sock, sent, full, queues, touched, control, failed>>

PeerDrains(c) ==
  /\ st[c] = "open" /\ full[c]
  /\ full' = [full EXCEPT ![c] = FALSE]
  /\ edge' = [edge EXCEPT ![c] = @ \cup {"OUT"}]
  /\ UNCHANGED <<conn, sock, sent, peer, queues, touched, control, failed>>
-----------------------------------------------------------------------------
(* The loop of hp_epoll_run, mode 0 *)

\* Mutant: the drive loop passes EPOLLIN only.
In_DriveCall ==
  /\ pc = "drive"
  /\ i < Len(ed)
  /\ cur' = ed[i + 1]
  /\ out' = FALSE
  /\ pc' = IF ed[i + 1] = Listen THEN "accept" ELSE "rd_top"
  /\ phase' = "drive"
  /\ UNCHANGED <<conn, kernel, queues, touched, i, ev, failed>>

\* Mutant: the drive loop passes EPOLLOUT only.
Out_DriveCall ==
  /\ pc = "drive"
  /\ i < Len(ed)
  /\ cur' = ed[i + 1]
  /\ out' = TRUE
  /\ pc' = IF ed[i + 1] = Listen THEN "accept" ELSE "wr"
  /\ phase' = "drive"
  /\ UNCHANGED <<conn, kernel, queues, touched, i, ev, failed>>

\* Every registered fn is called with EPOLLIN | EPOLLOUT.
DriveCall ==
  /\ pc = "drive"
  /\ i < Len(ed)
  /\ cur' = ed[i + 1]
  /\ out' = TRUE
  /\ pc' = IF ed[i + 1] = Listen THEN "accept" ELSE "rd_top"
  /\ phase' = "drive"
  /\ UNCHANGED <<conn, kernel, queues, touched, i, ev, failed>>

\* epoll_wait returns what is ready, or nothing after opt.timeout.
EpollWait ==
  /\ pc = "drive"
  /\ i >= Len(ed)
  /\ ev' = {c \in Open : edge[c] # {}}
           \cup (IF \E c \in Conns : st[c] = "backlog" THEN {Listen} ELSE {})
  /\ pc' = "events"
  /\ UNCHANGED <<conn, kernel, queues, touched, phase, i, cur, out, failed>>

EventCall(x) ==
  /\ pc = "events"
  /\ ev' = ev \ {x}
  /\ cur' = x
  /\ phase' = "events"
  /\ IF x = Listen
       THEN pc' = "accept" /\ UNCHANGED <<out, edge>>
       ELSE /\ out' = ("OUT" \in edge[x])
            /\ edge' = [edge EXCEPT ![x] = {}]
            /\ pc' = IF "ERR" \in edge[x] THEN "epollerr"
                     ELSE IF "IN" \in edge[x] THEN "rd_top" ELSE "no_in"
  /\ UNCHANGED <<conn, sock, sent, peer, full, queues, touched, i, failed>>

\* Whether callbacks of these connections may return < 0
MayFail(F) == F = {} \/ Cardinality(failed \cup F) <= MaxFails

\* The on_loop pass; the results are not looked at.  Then the next pass.
OnLoop ==
  /\ pc = "events"
  /\ ev = {}
  /\ \E F \in SUBSET Open : MayFail(F) /\ failed' = failed \cup F
  /\ pc' = "drive" /\ i' = 0
  /\ UNCHANGED <<conn, kernel, queues, touched, phase, ev, cur, out>>

\* The callback returns to the loop it was called from.
Return ==
  /\ pc' = phase
  /\ i' = IF phase = "drive" THEN i + 1 ELSE i
-----------------------------------------------------------------------------
(* hp_io_t_internal_on_accept *)

\* accept, on_new, hp_io_add.  Without TCP_NODELAY, or when on_new returns NULL
\* (it must when the array is full and hp_io_add fails), the descriptor is
\* closed and the next one accepted.
AcceptOne(c) ==
  /\ pc = "accept"
  /\ st[c] = "backlog"
  /\ \/ /\ Len(ed) < MaxFd
        /\ st' = [st EXCEPT ![c] = "open"]
        /\ ed' = Append(ed, c)
        /\ edge' = [edge EXCEPT ![c] = @ \cup {"OUT"}]
     \/ /\ st' = [st EXCEPT ![c] = "refused"]
        /\ UNCHANGED <<ed, edge>>
  /\ UNCHANGED <<deletes, sock, sent, peer, full, queues, touched, control,
                 failed>>

\* accept fails: nobody is left in the backlog, EINTR, or another error.
AcceptAgain ==
  /\ pc = "accept"
  /\ Return
  /\ UNCHANGED <<conn, kernel, queues, touched, phase, ev, cur, out, failed>>
-----------------------------------------------------------------------------
(* hp_rd_read and hp_io_t_on_data for cur *)

\* Mutant: hp_epoll_rm is left to the user's on_delete.
Bad_hp_io_t_on_error(c) ==
  /\ st' = [st EXCEPT ![c] = "closed"]
  /\ ibuf' = [ibuf EXCEPT ![c] = 0]
  /\ outq' = [outq EXCEPT ![c] = 0]
  /\ deletes' = [deletes EXCEPT ![c] = @ + 1]
  /\ UNCHANGED ed

\* hp_epoll_rm finds the entry and closes the gap.
hp_epoll_rm(c) ==
  IF \E k \in 1..Len(ed) : ed[k] = c
    THEN \E k \in 1..Len(ed) : ed[k] = c /\ ed' = RemoveAt(ed, k)
    ELSE UNCHANGED ed

\* hp_epoll_rm, hp_close, hp_rd_uninit, hp_wr_uninit, on_delete.
hp_io_t_on_error(c) ==
  /\ hp_epoll_rm(c)
  /\ st' = [st EXCEPT ![c] = "closed"]
  /\ ibuf' = [ibuf EXCEPT ![c] = 0]
  /\ outq' = [outq EXCEPT ![c] = 0]
  /\ deletes' = [deletes EXCEPT ![c] = @ + 1]

\* The loop of hp_rd_read: buffered data goes to on_data, then the next read.
RdTop ==
  /\ pc = "rd_top"
  /\ pc' = IF ibuf[cur] > 0 THEN "data" ELSE "read"
  /\ UNCHANGED <<conn, kernel, queues, touched, phase, i, ev, cur, out, failed>>

\* on_data returns; "last_data" is the call at EOF, whose result is not used.
\* A negative result only sets rd->err and ends the read.
DataReturns(ok) ==
  /\ failed' = IF ok THEN failed ELSE failed \cup {cur}
  /\ IF pc = "last_data" THEN pc' = "error" /\ UNCHANGED rderr
     ELSE IF ok THEN pc' = "read" /\ UNCHANGED rderr
     ELSE pc' = "after_read" /\ rderr' = [rderr EXCEPT ![cur] = TRUE]

\* One message is dispatched: on_dispatch answers it to c or relays it to c.
Dispatch(c, ok) ==
  /\ pc \in {"data", "last_data"}
  /\ ibuf' = [ibuf EXCEPT ![cur] = @ - 1]
  /\ outq' = IF ok THEN [outq EXCEPT ![c] = @ + 1] ELSE outq
  /\ DataReturns(ok)
  /\ UNCHANGED <<conn, kernel, touched, phase, i, ev, cur, out>>

\* on_parse < 0: the whole buffer is dropped.
ParseFails ==
  /\ pc \in {"data", "last_data"}
  /\ MayFail({cur})
  /\ ibuf' = [ibuf EXCEPT ![cur] = 0]
  /\ DataReturns(FALSE)
  /\ UNCHANGED <<conn, kernel, outq, touched, phase, i, ev, cur, out>>

ReadSome ==
  /\ pc = "read"
  /\ \E k \in 1..sock[cur] :
       /\ sock' = [sock EXCEPT ![cur] = @ - k]
       /\ ibuf' = [ibuf EXCEPT ![cur] = @ + k]
  /\ pc' = "rd_top"
  /\ UNCHANGED <<conn, sent, peer, full, edge, rderr, outq, touched, phase, i,
                 ev, cur, out, failed>>

ReadAgain ==
  /\ pc = "read"
  /\ sock[cur] = 0 /\ peer[cur] = "open"
  /\ pc' = "after_read"
  /\ UNCHANGED <<conn, kernel, queues, touched, phase, i, ev, cur, out, failed>>

\* EOF or an error: rd->err, a last data() call, then read_error.
ReadEnds ==
  /\ pc = "read"
  /\ peer[cur] = "reset" \/ (peer[cur] = "eof" /\ sock[cur] = 0)
  /\ rderr' = [rderr EXCEPT ![cur] = TRUE]
  /\ pc' = IF ibuf[cur] > 0 THEN "last_data" ELSE "error"
  /\ UNCHANGED <<conn, kernel, ibuf, outq, touched, phase, i, ev, cur, out,
                 failed>>

\* read_error, called by hp_rd_read, or EPOLLERR, after which the callback
\* returns without looking at io again.
OnError ==
  /\ pc \in {"error", "epollerr"}
  /\ hp_io_t_on_error(cur)
  /\ IF pc = "error" THEN pc' = "after_read" /\ UNCHANGED i ELSE Return
  /\ UNCHANGED <<kernel, rderr, touched, phase, ev, cur, out, failed>>
-----------------------------------------------------------------------------
(* The rest of hp_io_t_internal_io_cb *)

\* rc = io->rd.err.  Memory that on_delete freed may hold anything.
Rc(c) == IF OnDeleteFrees /\ st[c] = "closed" THEN {0, 1}
         ELSE IF rderr[c] THEN {1} ELSE {0}

AfterRead ==
  /\ pc = "after_read"
  /\ touched' = (touched \/ st[cur] = "closed")
  /\ \E rc \in Rc(cur) :
       IF rc = 0 /\ out THEN pc' = "wr" /\ UNCHANGED i ELSE Return
  /\ UNCHANGED <<conn, kernel, queues, phase, ev, cur, out, failed>>

\* EPOLLOUT without EPOLLIN: rc was never assigned, so the write may be skipped.
NoRead ==
  /\ pc = "no_in"
  /\ (pc' = "wr" /\ UNCHANGED i) \/ Return
  /\ UNCHANGED <<conn, kernel, queues, touched, phase, ev, cur, out, failed>>

\* hp_wr_write has written k messages and found the queue empty or the socket
\* full.  A socket that is not full takes something.
Write ==
  /\ pc = "wr"
  /\ ~(full[cur] \/ peer[cur] = "reset")
  /\ \E k \in 1..outq[cur] :
       /\ outq' = [outq EXCEPT ![cur] = @ - k]
       /\ full' = [full EXCEPT ![cur] = (k < outq[cur])]
  /\ Return
  /\ UNCHANGED <<conn, sock, sent, peer, edge, ibuf, rderr, touched, phase, ev,
                 cur, out, failed>>

\* Nothing queued, or EAGAIN at once.
WriteNothing ==
  /\ pc = "wr"
  /\ outq[cur] = 0 \/ full[cur]
  /\ Return
  /\ UNCHANGED <<conn, kernel, queues, touched, phase, ev, cur, out, failed>>

\* write_error, then wr->err = err.
WriteError ==
  /\ pc = "wr"
  /\ outq[cur] > 0 /\ peer[cur] = "reset"
  /\ hp_io_t_on_error(cur)
  /\ touched' = TRUE
  /\ Return
  /\ UNCHANGED <<kernel, rderr, phase, ev, cur, out, failed>>

Peers ==
  \E c \in Conns :
    \/ Connect(c) \/ PeerSends(c)
    \/ \E how \in {"eof", "reset"} : PeerCloses(c, how)
    \/ PeerDrains(c)

Callback ==
  \/ \E c \in Conns : AcceptOne(c)
  \/ AcceptAgain
  \/ RdTop
  \/ \E c \in Open, ok \in {TRUE, ~MayFail({cur})} : Dispatch(c, ok)
  \/ ParseFails
  \/ ReadSome \/ ReadAgain \/ ReadEnds \/ OnError
  \/ AfterRead \/ NoRead
  \/ Write \/ WriteNothing \/ WriteError

Loop == DriveCall \/ EpollWait \/ (\E x \in ev : EventCall(x)) \/ OnLoop

Next == Peers \/ Callback \/ Loop

Spec == Init /\ [][Next]_vars

\* The loop runs (epoll_wait has a finite timeout), callbacks return, a peer
\* that is sent data reads it.
FairSpec ==
  /\ Spec
  /\ WF_vars(Callback)
  /\ WF_vars(Loop)
  /\ \A c \in Conns : WF_vars(PeerDrains(c))
-----------------------------------------------------------------------------
TypeOK ==
  /\ st \in [Conns -> {"none", "backlog", "open", "refused", "closed"}]
  /\ ed \in Seq(Conns \cup {Listen})
  /\ sock \in [Conns -> Nat] /\ sent \in Nat
  /\ peer \in [Conns -> {"open", "eof", "reset"}]
  /\ full \in [Conns -> BOOLEAN]
  /\ edge \in [Conns -> SUBSET {"IN", "OUT", "ERR"}]
  /\ ibuf \in [Conns -> Nat] /\ outq \in [Conns -> Nat]
  /\ rderr \in [Conns -> BOOLEAN]
  /\ deletes \in [Conns -> Nat]
  /\ touched \in BOOLEAN
  /\ pc \in {"drive", "events", "accept", "rd_top", "data", "last_data", "read",
             "error", "epollerr", "after_read", "no_in", "wr"}
  /\ phase \in {"drive", "events"}
  /\ i \in Nat
  /\ ev \subseteq Conns \cup {Listen}
  /\ cur \in Conns \cup {Listen}
  /\ out \in BOOLEAN
  /\ failed \subseteq Conns

\* A connection is registered with epoll exactly while it is open: on every
\* path an error unregisters it before on_delete.
RegisteredIffOpen ==
  /\ Open = {ed[k] : k \in 1..Len(ed)} \ {Listen}
  /\ \A k, m \in 1..Len(ed) : ed[k] = ed[m] => k = m

\* on_delete is called at most once, and exactly for closed connections, even
\* when the read and the write of one callback both meet an error.
DeletedOnce ==
  \A c \in Conns : deletes[c] = IF st[c] = "closed" THEN 1 ELSE 0

\* No event of the current batch is for a connection that is already gone.
EventsForLiving == ev \ {Listen} \subseteq Open

\* What is queued for a connection is written unless the connection fails:
\* also when it was queued by another connection's callback after this one was
\* driven, when the socket was full and when no new edge comes.
OutputFlows ==
  \A c \in Conns :
    (outq[c] > 0) ~> (outq[c] = 0 \/ rderr[c] \/ peer[c] # "open")

\* Messages that arrived are dispatched although a read takes only one of
\* those it has buffered and edge-triggered epoll reports them once.
InputFlows ==
  \A c \in Conns :
    (sock[c] + ibuf[c] > 0 /\ st[c] = "open")
       ~> (sock[c] + ibuf[c] = 0 \/ rderr[c] \/ peer[c] # "open")

\* s_on_delete frees its hp_io_t: nothing may look at it afterwards.
NotTouchedAfterDelete == ~touched

\* hp_io_t.h says of on_parse, on_dispatch and on_loop alike: "<0 to close the
\* client".
FailureCloses ==
  \A c \in Conns : (c \in failed) ~> (st[c] = "closed")

\* Registry, descriptors, batch and on_delete agree on which connections there are,
\* whatever fails in the middle of a callback.
ConnectionsSound == TypeOK /\ RegisteredIffOpen /\ DeletedOnce /\ EventsForLiving
=============================================================================
