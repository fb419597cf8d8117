-------------------------------- MODULE HpRd --------------------------------
(***************************************************************************)
(* The input side of one connection: hp_rd_read of hp_io.c, which reads a  *)
(* socket until "again" into a buffer that doubles when it is full, and    *)
(* hp_io_t_on_data of hp_io_t.cpp, which cuts messages out of that buffer  *)
(* with the user's on_parse and hands them to the user's on_dispatch.      *)
(*                                                                         *)
(* Bytes are positions in the peer's stream.  Message m of the peer takes  *)
(* the positions Start(m) .. msgs[m].end - 1; on_parse looks at the first  *)
(* byte of the buffer to know which message it sees, as a parser looks at  *)
(* a header.  on_parse itself is the user's and is modelled from its       *)
(* contract: < 0 failure, 0 need more, > 0 one message taken off.          *)
(***************************************************************************)
EXTENDS Integers, Sequences, FiniteSets

CONSTANTS
  InitBuf,       \* bufrlen of hp_rd_init
  MsgLens,       \* lengths of the messages a peer sends
  DispatchModes, \* whether the user sets on_dispatch: a set of BOOLEANs
  BadMsgs,       \* the peer may send messages that on_parse rejects
  MaxMsgs        \* bound: number of messages

ASSUME InitBufAssumption == InitBuf \in Nat \ {0}
ASSUME MsgLensAssumption == MsgLens \subseteq Nat \ {0}
ASSUME FlagAssumption == DispatchModes \subseteq BOOLEAN /\ BadMsgs \in BOOLEAN
ASSUME MaxMsgsAssumption == MaxMsgs \in Nat

VARIABLES
  msgs,         \* Seq([end, bad]): the messages of the peer
  sent,         \* number of bytes the peer has sent
  peer,         \* "open", "eof" or "reset"
  ahead,        \* the most messages that were ever sent but not dispatched
  i_buf,        \* rd->i_buf[0..i_buflen-1]
  I_BUF_MAX,    \* its size
  i_bytes,      \* rd->i_bytes, total bytes read
  rd_err,       \* rd->err: "ok", "data" (a callback failed) or "io"
  hasDispatch,  \* io->iohdl.on_dispatch is set
  pc,           \* where hp_rd_read is
  dispatched,   \* messages taken off the buffer, by number
  failed        \* on_parse or on_dispatch has returned < 0

vars == <<msgs, sent, peer, ahead, i_buf, I_BUF_MAX, i_bytes, rd_err, hasDispatch,
          pc, dispatched, failed>>
\* what hp_rd_read and its callbacks leave alone
outside == <<msgs, sent, peer, ahead, hasDispatch>>
buffer == <<i_buf, I_BUF_MAX, i_bytes>>

Start(m) == IF m = 1 THEN 0 ELSE msgs[m - 1].end
Complete == {m \in 1..Len(msgs) : msgs[m].end <= sent}

Init ==
  /\ msgs = <<>> /\ sent = 0 /\ peer = "open" /\ ahead = 0
  /\ i_buf = <<>> /\ I_BUF_MAX = InitBuf /\ i_bytes = 0
  /\ hasDispatch \in DispatchModes
  /\ rd_err = "ok" /\ pc = "idle" /\ dispatched = <<>> /\ failed = FALSE
-----------------------------------------------------------------------------
(* The peer *)

PeerSends(l, bad, cut) ==
  /\ peer = "open"
  /\ Len(msgs) < MaxMsgs
  /\ msgs' = Append(msgs, [end |-> sent + l, bad |-> bad])
  /\ sent' = sent + l - cut
  /\ peer' = IF cut > 0 THEN "reset" ELSE peer
  /\ LET now == Len(msgs) + 1 - Len(dispatched)
     IN  ahead' = IF now > ahead THEN now ELSE ahead
  /\ UNCHANGED <<buffer, rd_err, hasDispatch, pc, dispatched, failed>>

PeerCloses(how) ==
  /\ peer = "open"
  /\ peer' = how
  /\ UNCHANGED <<msgs, sent, ahead, buffer, rd_err, hasDispatch, pc, dispatched,
                 failed>>
-----------------------------------------------------------------------------
(* hp_rd_read *)

\* Called by the event loop's io_cb with EPOLLIN.
hp_rd_read ==
  /\ pc = "idle"
  /\ pc' = "top"
  /\ UNCHANGED <<outside, buffer, rd_err, dispatched, failed>>

\* Mutant: data() is only called when the buffer is full.
Bad_Top ==
  /\ pc = "top"
  /\ pc' = IF Len(i_buf) >= I_BUF_MAX THEN "parse" ELSE "read"
  /\ UNCHANGED <<outside, buffer, rd_err, dispatched, failed>>

\* Top of the loop: what is buffered goes to data() first.
Top ==
  /\ pc = "top"
  /\ pc' = IF i_buf # <<>> THEN "parse" ELSE "read"
  /\ UNCHANGED <<outside, buffer, rd_err, dispatched, failed>>

\* data() returned rc.  pc is "parse" in the loop and "lastparse" at EOF, where
\* the result is ignored.
DataReturns(rc) ==
  IF pc = "lastparse"
    THEN pc' = "error" /\ UNCHANGED rd_err
    ELSE IF rc < 0
           THEN pc' = "idle" /\ rd_err' = "data"
           ELSE pc' = "read" /\ UNCHANGED rd_err

Parsing == pc \in {"parse", "lastparse"}
Framed == \E m \in 1..Len(msgs) : Start(m) = i_buf[1]
Current == CHOOSE m \in 1..Len(msgs) : Start(m) = i_buf[1]
MsgLen(m) == msgs[m].end - Start(m)

NeedsMore ==
  /\ Parsing
  /\ i_buf # <<>>
  /\ Framed => ~msgs[Current].bad /\ Len(i_buf) < MsgLen(Current)
  /\ DataReturns(0)
  /\ UNCHANGED <<outside, buffer, dispatched, failed>>

\* on_parse < 0: *len = 0.
ParseFails ==
  /\ Parsing
  /\ i_buf # <<>>
  /\ Framed => msgs[Current].bad
  /\ i_buf' = <<>>
  /\ failed' = TRUE
  /\ DataReturns(-1)
  /\ UNCHANGED <<outside, I_BUF_MAX, i_bytes, dispatched>>

\* on_parse > 0: one message is moved out of the buffer.
TakeMessage ==
  /\ dispatched' = Append(dispatched, Current)
  /\ i_buf' = SubSeq(i_buf, MsgLen(Current) + 1, Len(i_buf))

\* With on_dispatch set, hp_io_t_on_data returns its result after one message;
\* without it, parsing goes on with the rest of the buffer.
ParseMessage(rc) ==
  /\ Parsing
  /\ i_buf # <<>>
  /\ Framed /\ ~msgs[Current].bad /\ Len(i_buf) >= MsgLen(Current)
  /\ TakeMessage
  /\ IF hasDispatch
       THEN DataReturns(rc) /\ failed' = (failed \/ rc < 0)
       ELSE UNCHANGED <<pc, rd_err, failed>>
  /\ UNCHANGED <<outside, I_BUF_MAX, i_bytes>>

\* Without on_dispatch the loop of hp_io_t_on_data ends on an empty buffer.
ParseEnds ==
  /\ Parsing
  /\ i_buf = <<>>
  /\ DataReturns(0)
  /\ UNCHANGED <<outside, buffer, dispatched, failed>>

\* I_BUF_MAX doubles when the buffer is full.
Grown == IF Len(i_buf) < I_BUF_MAX THEN I_BUF_MAX ELSE I_BUF_MAX * 2

Room == Grown - Len(i_buf)

\* Mutant: the read goes to the start of the buffer.
Bad_Filled(k) == [j \in 1..k |-> i_bytes + j - 1]

\* read() puts the next k bytes behind those that are buffered.
Filled(k) == i_buf \o [j \in 1..k |-> i_bytes + j - 1]

ReadSome ==
  /\ pc = "read"
  /\ \E k \in 1..(I_BUF_MAX * 2) :
       /\ k <= Room
       /\ k <= sent - i_bytes
       /\ i_buf' = Filled(k)
       /\ i_bytes' = i_bytes + k
  /\ I_BUF_MAX' = Grown
  /\ pc' = "top"
  /\ UNCHANGED <<outside, rd_err, dispatched, failed>>

\* EAGAIN, or EINTR: read again later.
ReadAgain ==
  /\ pc = "read"
  /\ I_BUF_MAX' = Grown
  /\ pc' = "idle"
  /\ UNCHANGED <<outside, i_buf, i_bytes, rd_err, dispatched, failed>>

\* Mutant: no last data() call.
Bad_AfterEof == "error"

AfterEof == IF i_buf # <<>> THEN "lastparse" ELSE "error"

\* read() returns 0 after the peer's last byte, or fails once it reset the
\* connection: rd->err, one last data() call, then read_error.
ReadEnds ==
  /\ pc = "read"
  /\ peer = "reset" \/ (peer = "eof" /\ i_bytes = sent)
  /\ I_BUF_MAX' = Grown
  /\ rd_err' = "io"
  /\ pc' = AfterEof
  /\ UNCHANGED <<outside, i_buf, i_bytes, dispatched, failed>>

\* read_error: hp_io_t_on_error unregisters, closes and calls on_delete.
ReadError ==
  /\ pc = "error"
  /\ pc' = "deleted"
  /\ UNCHANGED <<outside, buffer, rd_err, dispatched, failed>>

Read == ReadSome \/ ReadAgain \/ ReadEnds
Data == Top \/ NeedsMore \/ ParseFails \/ ParseEnds
        \/ \E rc \in {0} \cup (IF BadMsgs THEN {-1} ELSE {}) : ParseMessage(rc)

Next ==
  \/ \E l \in MsgLens, bad \in {FALSE, BadMsgs}, cut \in {0, 1} :
       PeerSends(l, bad, cut)
  \/ \E how \in {"eof", "reset"} : PeerCloses(how)
  \/ hp_rd_read
  \/ Data
  \/ Read
  \/ ReadError

Spec == Init /\ [][Next]_vars

\* The event loop drives every registered descriptor in each pass, the function
\* itself runs on, and a read is not interrupted for ever.
FairSpec ==
  /\ Spec
  /\ WF_vars(hp_rd_read)
  /\ WF_vars(Data) /\ WF_vars(Read) /\ WF_vars(ReadError)
  /\ SF_vars(ReadSome) /\ SF_vars(ReadEnds)
-----------------------------------------------------------------------------
TypeOK ==
  /\ msgs \in Seq([end : Nat, bad : BOOLEAN])
  /\ sent \in Nat
  /\ peer \in {"open", "eof", "reset"}
  /\ ahead \in Nat
  /\ i_buf \in Seq(Nat)
  /\ I_BUF_MAX \in Nat
  /\ i_bytes \in Nat
  /\ rd_err \in {"ok", "data", "io"}
  /\ hasDispatch \in BOOLEAN
  /\ pc \in {"idle", "top", "parse", "read", "lastparse", "error", "deleted"}
  /\ dispatched \in Seq(Nat)
  /\ failed \in BOOLEAN

\* What is buffered always fits the allocation, however reads and doubling
\* reallocs interleave.
BufferFits == Len(i_buf) <= I_BUF_MAX

\* Until a callback fails, the buffer holds exactly the bytes between the last
\* message taken off and the last byte read: none lost, repeated or moved by
\* partial reads, by the doubling realloc or by taking messages off.
BufferIsStream ==
  ~failed =>
    LET from == IF dispatched = <<>> THEN 0 ELSE msgs[Len(dispatched)].end
    IN  i_buf = [j \in 1..(i_bytes - from) |-> from + j - 1]

\* Messages are dispatched once each and in the order the peer sent them.
DispatchInOrder ==
  ~failed => dispatched = [k \in 1..Len(dispatched) |-> k]

\* A peer that never had more than two messages outstanding loses none by closing:
\* the data() call at the top of the loop and the last one before read_error
\* take them both.  Without on_dispatch any number is safe.
NoneLostAtEof ==
  pc = "deleted" /\ peer = "eof" /\ ~failed /\ (hasDispatch => ahead <= 2) =>
    \A m \in Complete : \E k \in 1..Len(dispatched) : dispatched[k] = m

\* A message that has completely arrived is dispatched, although each data()
\* call takes only one and edge-triggered epoll reports its bytes only once.
EventuallyDispatched ==
  \A m \in 1..MaxMsgs :
    (m \in Complete) ~> \/ \E k \in 1..Len(dispatched) : dispatched[k] = m
                        \/ peer # "open"
                        \/ failed

\* The buffer has room for what it holds, and holds what was read and not taken.
BufferSound == TypeOK /\ BufferFits /\ BufferIsStream

\* Messages are handed over once, in order, and to the last when the peer closes.
NoneLost == DispatchInOrder /\ NoneLostAtEof
=============================================================================
