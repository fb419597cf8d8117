----------------------------- MODULE HpRdProofs -----------------------------
(***************************************************************************)
(* Proofs about the input side of a connection, HpRd, for any initial      *)
(* buffer, any message lengths and any number of messages: the buffer      *)
(* holds the stream, and messages are dispatched once, in order, and to    *)
(* the last when the peer closes.                                          *)
(***************************************************************************)
EXTENDS HpRd, SequenceTheorems, TLAPS

\* The number of bytes of all messages, and the position of the first byte that
\* was not taken off.
Total == IF msgs = <<>> THEN 0 ELSE msgs[Len(msgs)].end
From == IF dispatched = <<>> THEN 0 ELSE msgs[Len(dispatched)].end

\* The messages lie one after the other; only a reset cuts the last one short.
MsgsInv ==
  /\ \A m \in 1..Len(msgs) : msgs[m].end > 0
  /\ \A m, n \in 1..Len(msgs) : m < n => msgs[m].end < msgs[n].end
  /\ sent <= Total /\ i_bytes <= sent
  /\ peer # "reset" => sent = Total

\* The bytes in the buffer follow the messages taken off, which are the first
\* ones of the peer.
StreamInv ==
  ~failed =>
    /\ Len(dispatched) <= Len(msgs)
    /\ \A k \in 1..Len(dispatched) : dispatched[k] = k
    /\ From <= i_bytes /\ Len(i_buf) = i_bytes - From
    /\ \A j \in 1..Len(i_buf) : i_buf[j] = From + j - 1
    /\ Len(msgs) - Len(dispatched) <= ahead

RoomInv == Len(i_buf) <= I_BUF_MAX /\ I_BUF_MAX > 0

\* What the end of the input finds: with on_dispatch set a read is never called
\* with two whole messages in the buffer, so the last data() takes what is left.
EndInv ==
  ~failed /\ (hasDispatch => ahead <= 2) =>
    /\ pc = "read" /\ hasDispatch /\ peer # "reset" /\ i_bytes = sent =>
         Len(msgs) <= Len(dispatched) + 1
    /\ pc = "lastparse" /\ peer # "reset" =>
         i_bytes = sent /\ (hasDispatch => Len(msgs) <= Len(dispatched) + 1)
    /\ pc \in {"error", "deleted"} /\ peer # "reset" => Len(msgs) = Len(dispatched)

\* The input ends only when the peer is gone.
GoneInv == pc \in {"lastparse", "error", "deleted"} => peer # "open"

IInv == TypeOK /\ MsgsInv /\ StreamInv /\ RoomInv /\ EndInv /\ GoneInv
-----------------------------------------------------------------------------
(* The messages in the stream *)

\* Positions are numbers, every message has a length and lies within the stream.
LEMMA Numbers ==
  ASSUME IInv
  PROVE  /\ \A m \in 1..Len(msgs) : /\ msgs[m].end \in Nat \ {0}
                                    /\ msgs[m].bad \in BOOLEAN
                                    /\ Start(m) \in Nat /\ Start(m) < msgs[m].end
                                    /\ msgs[m].end <= Total
         /\ Total \in Nat /\ Len(msgs) \in Nat
         /\ Len(dispatched) \in Nat /\ Len(i_buf) \in Nat
<1>1. /\ msgs \in Seq([end : Nat, bad : BOOLEAN]) /\ dispatched \in Seq(Nat)
      /\ i_buf \in Seq(Nat)
  BY DEF IInv, TypeOK
<1>2. Len(msgs) \in Nat /\ Len(dispatched) \in Nat /\ Len(i_buf) \in Nat
  BY <1>1
<1>3. \A m \in 1..Len(msgs) : msgs[m] \in [end : Nat, bad : BOOLEAN]
  BY <1>1, ElementOfSeq
<1>4. \A m \in 1..Len(msgs) : msgs[m].end \in Nat \ {0} /\ msgs[m].bad \in BOOLEAN
  BY <1>3 DEF IInv, MsgsInv
<1>5. Total \in Nat /\ \A m \in 1..Len(msgs) : msgs[m].end <= Total
  <2>1. CASE msgs = <<>>
    BY <2>1 DEF Total
  <2>2. CASE msgs # <<>>
    <3>1. Len(msgs) \in 1..Len(msgs) /\ Total = msgs[Len(msgs)].end
      BY <2>2, <1>1, <1>2 DEF Total
    <3>2. \A m \in 1..Len(msgs) : m = Len(msgs) \/ m < Len(msgs)
      BY <1>2
    <3> QED BY <3>1, <3>2, <1>4 DEF IInv, MsgsInv
  <2> QED BY <2>1, <2>2
<1>6. ASSUME NEW m \in 1..Len(msgs)
      PROVE  Start(m) \in Nat /\ Start(m) < msgs[m].end
  <2>1. CASE m = 1
    BY <2>1, <1>4 DEF Start
  <2>2. CASE m # 1
    <3>1. m - 1 \in 1..Len(msgs) /\ m - 1 < m
      BY <2>2, <1>2
    <3> QED BY <3>1, <2>2, <1>4 DEF Start, IInv, MsgsInv
  <2> QED BY <2>1, <2>2
<1> QED BY <1>2, <1>4, <1>5, <1>6

\* Two messages do not start at the same byte.
LEMMA StartsDiffer ==
  ASSUME IInv, NEW m \in 1..Len(msgs), NEW n \in 1..Len(msgs), m < n
  PROVE  Start(m) < Start(n)
<1>1. n - 1 \in 1..Len(msgs) /\ n # 1 /\ m <= n - 1
  BY Numbers
<1>2. msgs[m].end <= msgs[n - 1].end
  BY <1>1, Numbers, SMTT(20) DEF IInv, MsgsInv
<1> QED BY <1>1, <1>2, Numbers, SMTT(20) DEF Start

\* A parser that recognises a header knows a message that has a length.
LEMMA Framing ==
  ASSUME IInv, Framed
  PROVE  /\ Current \in 1..Len(msgs) /\ Start(Current) = i_buf[1]
         /\ MsgLen(Current) \in Nat \ {0}
<1>1. Current \in 1..Len(msgs) /\ Start(Current) = i_buf[1]
  BY DEF Framed, Current
<1>2. MsgLen(Current) = msgs[Current].end - Start(Current)
  BY DEF MsgLen
<1> QED BY <1>1, <1>2, Numbers

\* Until a callback fails, what is at the front of the buffer is the message after
\* those taken off.
LEMMA Front ==
  ASSUME IInv, ~failed, i_buf # <<>>
  PROVE  /\ Framed /\ Current = Len(dispatched) + 1 /\ Current \in 1..Len(msgs)
         /\ From \in Nat /\ MsgLen(Current) = msgs[Current].end - From
<1> DEFINE d == Len(dispatched)
<1>1. /\ d \in Nat /\ Len(msgs) \in Nat /\ d <= Len(msgs) /\ Len(i_buf) \in Nat \ {0}
      /\ dispatched \in Seq(Nat)
  BY Numbers DEF IInv, TypeOK, StreamInv
<1>2. (dispatched = <<>>) <=> (d = 0)
  BY <1>1
<1>3. From \in Nat /\ From < Total
  <2>1. From \in Nat
    BY <1>1, <1>2, Numbers DEF From
  <2>2. From < i_bytes /\ i_bytes <= sent /\ sent <= Total
    BY <1>1, <2>1 DEF IInv, StreamInv, MsgsInv, TypeOK
  <2> QED BY <2>1, <2>2, Numbers DEF IInv, TypeOK
<1>4. d # Len(msgs)
  BY <1>1, <1>2, <1>3, Numbers DEF From, Total
<1>5. d + 1 \in 1..Len(msgs) /\ Start(d + 1) = From
  BY <1>1, <1>2, <1>4 DEF Start, From
<1>6. i_buf[1] = From
  BY <1>1, <1>3 DEF IInv, StreamInv
<1>7. Framed
  BY <1>5, <1>6 DEF Framed
<1>8. Current \in 1..Len(msgs) /\ Start(Current) = From
  BY <1>7, <1>6, Framing
<1>9. Current = d + 1
  <2>1. ~(Current < d + 1) /\ ~(d + 1 < Current)
    BY <1>5, <1>8, <1>3, StartsDiffer
  <2> QED BY <2>1, <1>5, <1>8, <1>1
<1> QED BY <1>3, <1>5, <1>7, <1>8, <1>9 DEF MsgLen

\* With everything read and the buffer empty, every message was taken off.
LEMMA Drained ==
  ASSUME IInv, ~failed, i_buf = <<>>, peer # "reset", i_bytes = sent
  PROVE  Len(msgs) = Len(dispatched)
<1>1. /\ Len(msgs) \in Nat /\ Len(dispatched) \in Nat
      /\ Len(dispatched) <= Len(msgs) /\ dispatched \in Seq(Nat)
  BY Numbers DEF IInv, TypeOK, StreamInv
<1>2. From \in Nat
  BY <1>1, Numbers DEF From
<1>3. From = Total
  BY <1>2, Numbers DEF IInv, StreamInv, MsgsInv, TypeOK
<1>4. SUFFICES ASSUME Len(dispatched) < Len(msgs) PROVE FALSE
  BY <1>1
<1>5. Len(msgs) \in 1..Len(msgs) /\ msgs # <<>>
  BY <1>4, <1>1
<1>6. Total = msgs[Len(msgs)].end
  BY <1>5 DEF Total
<1>7. CASE dispatched = <<>>
  BY <1>7, <1>3, <1>5, <1>6, Numbers DEF From
<1>8. CASE dispatched # <<>>
  <2>1. Len(dispatched) \in 1..Len(msgs) /\ From = msgs[Len(dispatched)].end
    BY <1>8, <1>1 DEF From
  <2>2. msgs[Len(dispatched)].end < msgs[Len(msgs)].end
    BY <2>1, <1>4, <1>5 DEF IInv, MsgsInv
  <2> QED BY <2>1, <2>2, <1>3, <1>5, <1>6, Numbers
<1> QED BY <1>7, <1>8
-----------------------------------------------------------------------------
(* The steps *)

\* The peer writes behind the last message, and only an open peer does.
LEMMA SendKeeps ==
  ASSUME IInv, NEW l \in MsgLens, NEW bad \in {FALSE, BadMsgs}, NEW cut \in {0, 1},
         PeerSends(l, bad, cut)
  PROVE  IInv'
<1> DEFINE e == [end |-> sent + l, bad |-> bad]
<1>1. /\ l \in Nat \ {0} /\ bad \in BOOLEAN /\ sent \in Nat /\ sent = Total
      /\ Len(msgs) \in Nat /\ Len(dispatched) \in Nat /\ ahead \in Nat
      /\ msgs \in Seq([end : Nat, bad : BOOLEAN])
  BY MsgLensAssumption, FlagAssumption, Numbers DEF IInv, TypeOK, MsgsInv, PeerSends
<1>2. e \in [end : Nat, bad : BOOLEAN] /\ e.end = sent + l
  BY <1>1
<1>3. msgs' = Append(msgs, e)
  BY DEF PeerSends
<1>4. /\ msgs' \in Seq([end : Nat, bad : BOOLEAN])
      /\ Len(msgs') = Len(msgs) + 1
      /\ \A m \in 1..Len(msgs) : msgs'[m] = msgs[m]
      /\ msgs'[Len(msgs) + 1] = e
  BY <1>1, <1>2, <1>3
<1>e. msgs'[Len(msgs) + 1].end = sent + l
  BY <1>2, <1>4
<1>n. sent + l \in Nat /\ sent \in Nat /\ sent + l > sent /\ sent + l > 0
  BY <1>1
<1>5. /\ peer = "open" /\ sent' = sent + l - cut
      /\ peer' = IF cut > 0 THEN "reset" ELSE peer
      /\ ahead' = IF Len(msgs) + 1 - Len(dispatched) > ahead
                    THEN Len(msgs) + 1 - Len(dispatched) ELSE ahead
      /\ UNCHANGED <<buffer, rd_err, hasDispatch, pc, dispatched, failed>>
  BY DEF PeerSends
<1>6. TypeOK'
  BY <1>1, <1>4, <1>5 DEF IInv, TypeOK, buffer
<1>7. Total' = sent + l
  BY <1>1, <1>2, <1>4 DEF Total
<1>8. MsgsInv'
  <2>1. \A m \in 1..Len(msgs') : m \in 1..Len(msgs) \/ m = Len(msgs) + 1
    BY <1>1, <1>4
  <2>2. \A m \in 1..Len(msgs) : msgs[m].end \in Nat \ {0} /\ msgs[m].end <= sent
    BY <1>1, Numbers
  <2>3. \A m \in 1..Len(msgs') : msgs'[m].end > 0
    <3>1. \A m \in 1..Len(msgs) : msgs'[m].end > 0
      BY <2>2, <1>4
    <3>2. msgs'[Len(msgs) + 1].end > 0
      BY <1>e, <1>n
    <3> QED BY <2>1, <3>1, <3>2
  <2>4. ASSUME NEW m \in 1..Len(msgs'), NEW n \in 1..Len(msgs'), m < n
        PROVE  msgs'[m].end < msgs'[n].end
    <3>1. m \in 1..Len(msgs)
      BY <2>4, <1>1, <1>4
    <3>2. CASE n \in 1..Len(msgs)
      BY <3>1, <3>2, <2>4, <1>4 DEF IInv, MsgsInv
    <3>3. CASE n = Len(msgs) + 1
      <4>1. msgs'[m].end = msgs[m].end /\ msgs[m].end \in Nat /\ msgs[m].end <= sent
        BY <3>1, <2>2, <1>4
      <4>2. msgs'[n].end = sent + l
        BY <3>3, <1>e
      <4> QED BY <4>1, <4>2, <1>n
    <3> QED BY <3>2, <3>3, <2>1
  <2>5. /\ sent' <= Total' /\ i_bytes' <= sent'
        /\ peer' # "reset" => sent' = Total'
    BY <1>1, <1>5, <1>7 DEF IInv, MsgsInv, TypeOK, buffer
  <2> QED BY <2>3, <2>4, <2>5 DEF MsgsInv
<1>9. ahead <= ahead' /\ Len(msgs) + 1 - Len(dispatched) <= ahead'
  BY <1>1, <1>5
<1>10. StreamInv'
  <2>1. SUFFICES ASSUME ~failed PROVE StreamInv'
    BY <1>5 DEF StreamInv
  <2>2. From' = From
    <3>1. CASE dispatched = <<>>
      BY <3>1, <1>5 DEF From
    <3>2. CASE dispatched # <<>>
      <4>1. dispatched \in Seq(Nat) /\ Len(dispatched) <= Len(msgs)
        BY <2>1 DEF IInv, StreamInv, TypeOK
      <4>2. Len(dispatched) \in 1..Len(msgs)
        BY <4>1, <3>2, <1>1
      <4> QED BY <4>2, <3>2, <1>4, <1>5 DEF From
    <3> QED BY <3>1, <3>2
  <2> QED BY <2>1, <2>2, <1>1, <1>4, <1>5, <1>9 DEF IInv, StreamInv, buffer
<1>11. RoomInv' /\ GoneInv'
  BY <1>5 DEF IInv, RoomInv, GoneInv, buffer
<1>12. EndInv'
  <2>1. pc' \notin {"lastparse", "error", "deleted"}
    BY <1>5 DEF IInv, GoneInv
  <2>2. peer' # "reset" => i_bytes' # sent'
    BY <1>1, <1>5 DEF IInv, MsgsInv, TypeOK, buffer
  <2> QED BY <2>1, <2>2 DEF EndInv
<1> QED BY <1>6, <1>8, <1>10, <1>11, <1>12 DEF IInv

\* A peer that closes, or resets, leaves what it sent.
LEMMA CloseKeeps ==
  ASSUME IInv, NEW how \in {"eof", "reset"}, PeerCloses(how)
  PROVE  IInv'
<1>1. /\ peer = "open" /\ peer' = how
      /\ UNCHANGED <<msgs, sent, ahead, i_buf, I_BUF_MAX, i_bytes, rd_err, hasDispatch,
                     pc, dispatched, failed>>
  BY DEF PeerCloses, buffer
<1>2. Total' = Total /\ From' = From
  BY <1>1 DEF Total, From
<1>3. TypeOK'
  BY <1>1 DEF IInv, TypeOK
<1>4. MsgsInv' /\ StreamInv'
  BY <1>1, <1>2 DEF IInv, MsgsInv, StreamInv
<1>5. RoomInv' /\ GoneInv'
  BY <1>1 DEF IInv, RoomInv, GoneInv
<1>6. EndInv'
  BY <1>1 DEF IInv, EndInv, GoneInv
<1> QED BY <1>3, <1>4, <1>5, <1>6 DEF IInv

\* A step that only moves the control keeps everything but what the end finds.
LEMMA ControlKeeps ==
  ASSUME IInv, UNCHANGED <<outside, i_buf, i_bytes, dispatched, failed>>,
         rd_err' \in {"ok", "data", "io"},
         I_BUF_MAX' \in Nat, I_BUF_MAX <= I_BUF_MAX',
         pc' \in {"idle", "top", "parse", "read", "lastparse", "error", "deleted"},
         pc' \in {"lastparse", "error", "deleted"} => peer # "open",
         EndInv'
  PROVE  IInv'
<1>1. UNCHANGED <<msgs, sent, peer, ahead, hasDispatch>>
  BY DEF outside
<1>2. Total' = Total /\ From' = From
  BY <1>1 DEF Total, From
<1>3. TypeOK'
  BY <1>1 DEF IInv, TypeOK
<1>4. MsgsInv' /\ StreamInv'
  BY <1>1, <1>2 DEF IInv, MsgsInv, StreamInv
<1>5. RoomInv' /\ GoneInv'
  BY <1>1, Numbers DEF IInv, RoomInv, GoneInv, TypeOK
<1> QED BY <1>3, <1>4, <1>5 DEF IInv

\* Where data() leads: a failed callback ends the call of hp_rd_read.
LEMMA Returned ==
  ASSUME IInv, Parsing, NEW rc \in {0, -1}, DataReturns(rc)
  PROVE  /\ rd_err' \in {"ok", "data", "io"}
         /\ pc' \in {"idle", "read", "error"}
         /\ pc' = "read" => pc = "parse"
         /\ pc' = "error" => pc = "lastparse" /\ peer # "open"
<1>1. CASE pc = "lastparse"
  BY <1>1 DEF DataReturns, IInv, TypeOK, GoneInv
<1>2. CASE pc = "parse"
  BY <1>2 DEF DataReturns, IInv, TypeOK
<1> QED BY <1>1, <1>2 DEF Parsing

\* The top of the loop goes to read() only with an empty buffer.
LEMMA TopKeeps ==
  ASSUME IInv, Top
  PROVE  IInv'
<1>1. /\ pc' \in {"parse", "read"} /\ (pc' = "read" => i_buf = <<>>)
      /\ UNCHANGED <<outside, buffer, rd_err, dispatched, failed>>
  BY DEF Top
<1>2. EndInv'
  BY <1>1, Drained, Numbers DEF EndInv, outside, buffer
<1> QED BY <1>1, <1>2, ControlKeeps DEF IInv, TypeOK, buffer

\* on_parse that needs more has not all of a message, so bytes are still to come.
LEMMA NeedsMoreKeeps ==
  ASSUME IInv, NeedsMore
  PROVE  IInv'
<1>1. /\ Parsing /\ i_buf # <<>>
      /\ Framed => ~msgs[Current].bad /\ Len(i_buf) < MsgLen(Current)
      /\ DataReturns(0) /\ UNCHANGED <<outside, buffer, dispatched, failed>>
  BY DEF NeedsMore
<1>2. /\ rd_err' \in {"ok", "data", "io"} /\ pc' \in {"idle", "read", "error"}
      /\ pc' = "error" => pc = "lastparse" /\ peer # "open"
  BY <1>1, Returned
<1>3. ~failed /\ peer # "reset" => i_bytes < sent
  <2>1. SUFFICES ASSUME ~failed, peer # "reset" PROVE i_bytes < sent
    OBVIOUS
  <2>2. /\ Framed /\ Current \in 1..Len(msgs) /\ From \in Nat
        /\ MsgLen(Current) = msgs[Current].end - From
    BY <2>1, <1>1, Front
  <2>3. Len(i_buf) = i_bytes - From /\ sent = Total /\ i_bytes \in Nat
    BY <2>1 DEF IInv, StreamInv, MsgsInv, TypeOK
  <2>4. msgs[Current].end \in Nat /\ msgs[Current].end <= Total /\ Total \in Nat
    BY <2>2, Numbers
  <2> QED BY <2>2, <2>3, <2>4, <1>1
<1>4. EndInv'
  <2>1. pc = "lastparse" => failed \/ peer = "reset" \/ ~(hasDispatch => ahead <= 2)
    BY <1>3 DEF IInv, EndInv, TypeOK
  <2> QED BY <2>1, <1>1, <1>2, <1>3 DEF EndInv, IInv, TypeOK, outside, buffer
<1> QED BY <1>1, <1>2, <1>4, ControlKeeps DEF IInv, TypeOK, buffer

\* on_parse < 0 drops the buffer; after it the stream is given up.
LEMMA FailKeeps ==
  ASSUME IInv, ParseFails
  PROVE  IInv'
<1>1. /\ Parsing /\ i_buf' = <<>> /\ failed' = TRUE
      /\ DataReturns(-1) /\ UNCHANGED <<outside, I_BUF_MAX, i_bytes, dispatched>>
  BY DEF ParseFails
<1>2. /\ rd_err' \in {"ok", "data", "io"} /\ pc' \in {"idle", "read", "error"}
      /\ pc' = "error" => pc = "lastparse" /\ peer # "open"
  BY <1>1, Returned
<1>3. UNCHANGED <<msgs, sent, peer, ahead, hasDispatch>>
  BY <1>1 DEF outside
<1>4. TypeOK'
  BY <1>1, <1>2, <1>3 DEF IInv, TypeOK
<1>5. MsgsInv'
  BY <1>1, <1>3 DEF IInv, MsgsInv, Total
<1>6. StreamInv' /\ EndInv'
  BY <1>1 DEF StreamInv, EndInv
<1>7. RoomInv' /\ GoneInv'
  BY <1>1, <1>2, <1>3 DEF IInv, RoomInv, GoneInv, TypeOK
<1> QED BY <1>4, <1>5, <1>6, <1>7 DEF IInv

\* Without on_dispatch data() returns with the buffer taken.
LEMMA EndsKeeps ==
  ASSUME IInv, ParseEnds
  PROVE  IInv'
<1>1. /\ Parsing /\ i_buf = <<>> /\ DataReturns(0)
      /\ UNCHANGED <<outside, buffer, dispatched, failed>>
  BY DEF ParseEnds
<1>2. /\ rd_err' \in {"ok", "data", "io"} /\ pc' \in {"idle", "read", "error"}
      /\ pc' = "error" => pc = "lastparse" /\ peer # "open"
  BY <1>1, Returned
<1>3. EndInv'
  <2>1. (pc = "lastparse" /\ ~failed /\ peer # "reset" /\ (hasDispatch => ahead <= 2))
             => i_bytes = sent
    BY DEF IInv, EndInv
  <2> QED BY <2>1, <1>1, <1>2, Drained, Numbers DEF EndInv, outside, buffer
<1> QED BY <1>1, <1>2, <1>3, ControlKeeps DEF IInv, TypeOK, buffer

\* Taking one message off moves the front of the buffer behind it.
LEMMA MessageKeeps ==
  ASSUME IInv, NEW rc \in {0, -1}, ParseMessage(rc)
  PROVE  IInv'
<1> DEFINE d == Len(dispatched)
           n == MsgLen(Current)
<1>1. /\ Parsing /\ i_buf # <<>> /\ Framed /\ Len(i_buf) >= n
      /\ dispatched' = Append(dispatched, Current)
      /\ i_buf' = SubSeq(i_buf, n + 1, Len(i_buf))
      /\ UNCHANGED <<outside, I_BUF_MAX, i_bytes>>
  BY DEF ParseMessage, TakeMessage
<1>2. IF hasDispatch
        THEN DataReturns(rc) /\ failed' = (failed \/ rc < 0)
        ELSE UNCHANGED <<pc, rd_err, failed>>
  BY DEF ParseMessage
<1>3. UNCHANGED <<msgs, sent, peer, ahead, hasDispatch>>
  BY <1>1 DEF outside
<1>4. /\ rd_err' \in {"ok", "data", "io"} /\ failed' \in BOOLEAN
      /\ ~failed' => ~failed
      /\ hasDispatch => /\ pc' \in {"idle", "read", "error"}
                        /\ pc' = "read" => pc = "parse"
                        /\ pc' = "error" => pc = "lastparse" /\ peer # "open"
      /\ ~hasDispatch => pc' = pc
  <2>1. CASE hasDispatch
    <3>1. DataReturns(rc) /\ failed' = (failed \/ rc < 0)
      BY <1>2, <2>1
    <3>2. failed' \in BOOLEAN /\ (~failed' => ~failed)
      BY <3>1 DEF IInv, TypeOK
    <3> QED BY <3>1, <3>2, <1>1, <2>1, Returned
  <2>2. CASE ~hasDispatch
    BY <2>2, <1>2 DEF IInv, TypeOK
  <2> QED BY <2>1, <2>2
<1>5. /\ Current \in 1..Len(msgs) /\ Current \in Nat /\ n \in Nat \ {0}
      /\ d \in Nat /\ Len(i_buf) \in Nat
      /\ dispatched \in Seq(Nat) /\ i_buf \in Seq(Nat)
  BY <1>1, Framing, Numbers DEF IInv, TypeOK
<1>e. /\ ~failed => Current = d + 1 /\ From \in Nat /\ n = msgs[Current].end - From
      /\ n + 1 \in Nat /\ Len(i_buf) - n \in Nat /\ n <= Len(i_buf)
  BY <1>1, <1>5, Front
<1>f. \A k \in 1..d : ~failed => dispatched[k] = k
  BY DEF IInv, StreamInv
<1>g. n \in Nat /\ Len(i_buf) \in Nat
  BY <1>5
<1> HIDE DEF d, n
<1>6. /\ dispatched' \in Seq(Nat) /\ Len(dispatched') = d + 1
      /\ dispatched'[d + 1] = Current
      /\ \A k \in 1..d : dispatched'[k] = dispatched[k]
  BY <1>1, <1>5 DEF d
<1>7. /\ i_buf' \in Seq(Nat) /\ Len(i_buf') = Len(i_buf) - n
      /\ \A j \in 1..Len(i_buf) - n : i_buf'[j] = i_buf[n + j]
  <2>1. n + 1 \in 1..Len(i_buf) + 1
    BY <1>1, <1>5
  <2>2. /\ i_buf' \in Seq(Nat)
        /\ Len(i_buf') = Len(i_buf) - (n + 1) + 1
        /\ \A j \in 1..Len(i_buf) - (n + 1) + 1 : i_buf'[j] = i_buf[(n + 1) + j - 1]
    BY <2>1, <1>1, <1>5, SubSeqProperties, SMTT(20)
  <2>3. Len(i_buf) - (n + 1) + 1 = Len(i_buf) - n
    BY <1>5
  <2>4. \A j \in 1..Len(i_buf) - n : (n + 1) + j - 1 = n + j
    BY <1>5
  <2> QED BY <2>2, <2>3, <2>4
<1>8. TypeOK'
  BY <1>1, <1>3, <1>4, <1>6, <1>7 DEF IInv, TypeOK
<1>9. MsgsInv'
  BY <1>1, <1>3 DEF IInv, MsgsInv, Total
<1>10. RoomInv' /\ GoneInv'
  <2>1. RoomInv'
    BY <1>1, <1>5, <1>7 DEF IInv, RoomInv, TypeOK
  <2>2. pc' \in {"lastparse", "error", "deleted"} => peer # "open"
    BY <1>1, <1>4 DEF IInv, GoneInv, Parsing
  <2> QED BY <2>1, <2>2, <1>3 DEF GoneInv
<1>12. StreamInv'
  <2>1. SUFFICES ASSUME ~failed, Current = d + 1, From \in Nat,
                        n = msgs[Current].end - From
                 PROVE  StreamInv'
    BY <1>4, <1>e DEF StreamInv
  <2>2. From' = From + n
    <3>1. dispatched' # <<>>
      BY <1>5, <1>6
    <3>2. From' = msgs[Current].end
      BY <3>1, <1>3, <1>6, <2>1 DEF From
    <3> QED BY <3>2, <2>1, <1>5, Numbers, SMTT(20)
  <2>3. \A k \in 1..d + 1 : dispatched'[k] = k
    BY <2>1, <1>5, <1>6, <1>f, SMTT(20)
  <2>4. \A j \in 1..Len(i_buf') : i_buf'[j] = From' + j - 1
    <3>1. SUFFICES ASSUME NEW j \in 1..Len(i_buf) - n
                   PROVE  i_buf'[j] = From' + j - 1
      BY <1>7
    <3>2. n + j \in 1..Len(i_buf)
      BY <1>5
    <3>3. i_buf[n + j] = From + (n + j) - 1
      BY <3>2, <2>1 DEF IInv, StreamInv
    <3>4. i_buf'[j] = i_buf[n + j] /\ From' = From + n /\ j \in Nat
      BY <2>2, <1>5, <1>7
    <3>5. From \in Nat
      BY <2>1
    <3> QED BY <3>3, <3>4, <3>5, <1>g
  <2>5. d + 1 <= Len(msgs) /\ Len(msgs) - (d + 1) <= ahead
    BY <2>1, <1>5, Numbers DEF IInv, StreamInv, TypeOK, d
  <2>6. From' <= i_bytes /\ Len(i_buf') = i_bytes - From'
    <3>1. /\ Len(i_buf) = i_bytes - From /\ i_bytes \in Nat
      BY <2>1 DEF IInv, StreamInv, TypeOK
    <3>2. Len(i_buf') = Len(i_buf) - n
      BY <1>7
    <3>3. From \in Nat
      BY <2>1
    <3> QED BY <3>1, <3>2, <3>3, <2>2, <1>e, <1>g
  <2> QED BY <2>3, <2>4, <2>5, <2>6, <1>1, <1>3, <1>6 DEF StreamInv
<1>13. EndInv'
  <2>1. SUFFICES ASSUME ~failed, hasDispatch => ahead <= 2 PROVE EndInv'
    BY <1>3, <1>4 DEF EndInv
  <2>2. d + 1 <= Len(msgs) /\ Len(msgs) - d <= ahead /\ Len(msgs) \in Nat
    BY <2>1, <1>5, <1>e, Numbers DEF IInv, StreamInv, d
  <2>3. CASE hasDispatch
    <3>1. Len(msgs) <= d + 2
      BY <2>1, <2>2, <2>3, <1>5 DEF IInv, TypeOK
    <3>2. pc' = "error" /\ peer # "reset" => Len(msgs) <= d + 1
      BY <2>1, <2>3, <1>4 DEF IInv, EndInv, d
    <3> QED BY <3>1, <3>2, <2>2, <2>3, <1>3, <1>4, <1>5, <1>6 DEF EndInv
  <2>4. CASE ~hasDispatch
    <3>1. pc' \in {"parse", "lastparse"} /\ pc' = pc
      BY <2>4, <1>1, <1>4 DEF Parsing
    <3> QED BY <2>1, <2>4, <3>1, <1>1, <1>3 DEF IInv, EndInv
  <2> QED BY <2>3, <2>4
<1> QED BY <1>8, <1>9, <1>10, <1>12, <1>13 DEF IInv

\* A read() always has room: a full buffer has doubled.
LEMMA GrownRoom ==
  ASSUME IInv
  PROVE  Grown \in Nat /\ I_BUF_MAX <= Grown /\ Len(i_buf) < Grown
BY Numbers DEF Grown, IInv, RoomInv, TypeOK

\* What read() returns goes behind what is buffered, within the allocation.
LEMMA ReadKeeps ==
  ASSUME IInv, ReadSome
  PROVE  IInv'
<1>1. PICK k \in 1..(I_BUF_MAX * 2) : /\ k <= Room /\ k <= sent - i_bytes
                                      /\ i_buf' = Filled(k)
                                      /\ i_bytes' = i_bytes + k
  BY DEF ReadSome
<1>2. /\ UNCHANGED <<msgs, sent, peer, ahead, hasDispatch, rd_err, dispatched, failed>>
      /\ I_BUF_MAX' = Grown /\ pc' = "top"
  BY DEF ReadSome, outside
<1>3. /\ k \in Nat \ {0} /\ i_bytes \in Nat /\ sent \in Nat
      /\ i_buf \in Seq(Nat) /\ Len(i_buf) \in Nat
      /\ Grown \in Nat /\ I_BUF_MAX <= Grown /\ k <= Grown - Len(i_buf)
      /\ I_BUF_MAX \in Nat /\ I_BUF_MAX > 0
  BY <1>1, GrownRoom DEF IInv, TypeOK, RoomInv, Room
<1> DEFINE s == [j \in 1..k |-> i_bytes + j - 1]
<1>4. s \in Seq(Nat) /\ Len(s) = k /\ \A j \in 1..k : s[j] = i_bytes + j - 1
  <2>1. \A j \in 1..k : i_bytes + j - 1 \in Nat
    BY <1>3
  <2>2. s \in [1..k -> Nat]
    BY <2>1
  <2> QED BY <2>2, <1>3
<1> HIDE DEF s
<1>5. i_buf' = i_buf \o s
  BY <1>1 DEF Filled, s
<1>6. /\ i_buf' \in Seq(Nat) /\ Len(i_buf') = Len(i_buf) + k
      /\ \A j \in 1..Len(i_buf) + k :
           i_buf'[j] = IF j <= Len(i_buf) THEN i_buf[j] ELSE s[j - Len(i_buf)]
  <2>1. /\ i_buf \o s \in Seq(Nat) /\ Len(i_buf \o s) = Len(i_buf) + Len(s)
        /\ \A j \in 1..Len(i_buf) + Len(s) :
             (i_buf \o s)[j] = IF j <= Len(i_buf) THEN i_buf[j] ELSE s[j - Len(i_buf)]
    BY <1>3, <1>4, ConcatProperties
  <2> QED BY <2>1, <1>4, <1>5
<1>7. TypeOK'
  BY <1>1, <1>2, <1>3, <1>6 DEF IInv, TypeOK
<1>8. Total' = Total /\ From' = From
  BY <1>2 DEF Total, From
<1>9. MsgsInv'
  BY <1>1, <1>2, <1>3, <1>8 DEF IInv, MsgsInv
<1>10. RoomInv' /\ GoneInv' /\ EndInv'
  BY <1>2, <1>3, <1>6 DEF RoomInv, GoneInv, EndInv
<1>11. StreamInv'
  <2>1. SUFFICES ASSUME ~failed PROVE StreamInv'
    BY <1>2 DEF StreamInv
  <2>2. /\ From <= i_bytes /\ Len(i_buf) = i_bytes - From
        /\ \A j \in 1..Len(i_buf) : i_buf[j] = From + j - 1
        /\ From \in Nat
    <3>1. From \in Nat
      <4>1. Len(dispatched) <= Len(msgs) /\ dispatched \in Seq(Nat)
        BY <2>1 DEF IInv, StreamInv, TypeOK
      <4>2. dispatched # <<>> => Len(dispatched) \in 1..Len(msgs)
        BY <4>1, Numbers
      <4> QED BY <4>2, Numbers DEF From
    <3> QED BY <3>1, <2>1 DEF IInv, StreamInv
  <2>3. ASSUME NEW j \in 1..Len(i_buf')
        PROVE  i_buf'[j] = From + j - 1
    <3>1. CASE j <= Len(i_buf)
      BY <3>1, <2>2, <1>3, <1>6
    <3>2. CASE ~(j <= Len(i_buf))
      <4>1. j - Len(i_buf) \in 1..k
        BY <3>2, <1>3, <1>6
      <4>2. i_buf'[j] = i_bytes + (j - Len(i_buf)) - 1
        BY <4>1, <3>2, <1>3, <1>4, <1>6
      <4> QED BY <4>2, <2>2, <1>3, <1>6
    <3> QED BY <3>1, <3>2
  <2>4. From <= i_bytes' /\ Len(i_buf') = i_bytes' - From
    BY <2>2, <1>1, <1>3, <1>6
  <2> QED BY <2>1, <2>3, <2>4, <1>2, <1>8 DEF IInv, StreamInv
<1> QED BY <1>7, <1>9, <1>10, <1>11 DEF IInv

\* A read that returns nothing, and the end of the input.
LEMMA OtherKeeps ==
  ASSUME IInv, hp_rd_read \/ ReadAgain \/ ReadEnds \/ ReadError
  PROVE  IInv'
<1>1. CASE hp_rd_read
  BY <1>1, ControlKeeps DEF hp_rd_read, EndInv, buffer, IInv, TypeOK
<1>2. CASE ReadAgain
  BY <1>2, ControlKeeps, GrownRoom DEF ReadAgain, EndInv, IInv, TypeOK
<1>3. CASE ReadEnds
  <2>1. /\ pc = "read"
        /\ peer = "reset" \/ (peer = "eof" /\ i_bytes = sent)
        /\ pc' = IF i_buf # <<>> THEN "lastparse" ELSE "error"
        /\ I_BUF_MAX' = Grown /\ rd_err' = "io"
        /\ UNCHANGED <<outside, i_buf, i_bytes, dispatched, failed>>
    BY <1>3 DEF ReadEnds, AfterEof
  <2>2. EndInv'
    BY <2>1, Drained DEF IInv, EndInv, outside
  <2> QED BY <2>1, <2>2, ControlKeeps, GrownRoom DEF IInv, TypeOK
<1>4. CASE ReadError
  <2>1. pc = "error" /\ pc' = "deleted"
        /\ UNCHANGED <<outside, buffer, rd_err, dispatched, failed>>
    BY <1>4 DEF ReadError
  <2>2. EndInv'
    BY <2>1 DEF IInv, EndInv, outside
  <2> QED BY <2>1, <2>2, ControlKeeps DEF IInv, TypeOK, GoneInv, buffer
<1> QED BY <1>1, <1>2, <1>3, <1>4
-----------------------------------------------------------------------------
(* The theorems *)

\* hp_rd_init: nothing sent, nothing read.
LEMMA InitHolds == Init => IInv
<1>1. SUFFICES ASSUME Init PROVE IInv
  OBVIOUS
<1>2. TypeOK
  <2>1. msgs \in Seq([end : Nat, bad : BOOLEAN]) /\ i_buf \in Seq(Nat)
    BY <1>1 DEF Init
  <2>2. dispatched \in Seq(Nat) /\ hasDispatch \in BOOLEAN /\ I_BUF_MAX \in Nat
    BY <1>1, InitBufAssumption, FlagAssumption DEF Init
  <2> QED BY <1>1, <2>1, <2>2 DEF Init, TypeOK
<1>3. Total = 0 /\ From = 0
  BY <1>1 DEF Init, Total, From
<1>4. MsgsInv /\ StreamInv
  BY <1>1, <1>3 DEF Init, MsgsInv, StreamInv
<1>5. RoomInv /\ EndInv /\ GoneInv
  BY <1>1, InitBufAssumption DEF Init, RoomInv, EndInv, GoneInv
<1> QED BY <1>2, <1>4, <1>5 DEF IInv

\* Every step of hp_rd_read, of the callbacks and of the peer keeps the invariant.
LEMMA StepKeeps == IInv /\ [Next]_vars => IInv'
<1>1. SUFFICES ASSUME IInv, [Next]_vars PROVE IInv'
  OBVIOUS
<1>2. CASE \E l \in MsgLens, bad \in {FALSE, BadMsgs}, cut \in {0, 1} :
             PeerSends(l, bad, cut)
  BY <1>1, <1>2, SendKeeps
<1>3. CASE \E how \in {"eof", "reset"} : PeerCloses(how)
  BY <1>1, <1>3, CloseKeeps
<1>4. CASE Data
  <2>1. CASE \E rc \in {0} \cup (IF BadMsgs THEN {-1} ELSE {}) : ParseMessage(rc)
    BY <1>1, <2>1, MessageKeeps
  <2>2. CASE Top \/ NeedsMore \/ ParseFails \/ ParseEnds
    BY <1>1, <2>2, TopKeeps, NeedsMoreKeeps, FailKeeps, EndsKeeps
  <2> QED BY <1>4, <2>1, <2>2 DEF Data
<1>5. CASE hp_rd_read \/ Read \/ ReadError
  BY <1>1, <1>5, ReadKeeps, OtherKeeps DEF Read
<1>6. CASE UNCHANGED vars
  <2>1. UNCHANGED <<outside, i_buf, I_BUF_MAX, i_bytes, rd_err, pc, dispatched, failed>>
    BY <1>6 DEF vars, outside
  <2>2. EndInv'
    BY <1>1, <2>1 DEF IInv, EndInv, outside
  <2> QED BY <1>1, <2>1, <2>2, ControlKeeps DEF IInv, TypeOK, GoneInv
<1> QED BY <1>1, <1>2, <1>3, <1>4, <1>5, <1>6 DEF Next

\* In every behaviour the buffer fits its allocation and, until a callback
\* fails, holds exactly the bytes between the last message taken off and the last
\* byte read: hp_rd_read and hp_io_t_on_data, however their steps interleave with
\* the peer's.
THEOREM BufferIsSound == Spec => []BufferSound
<1>1. IInv => BufferSound
  <2>1. SUFFICES ASSUME IInv PROVE BufferIsStream
    BY DEF IInv, RoomInv, BufferSound, BufferFits
  <2>2. SUFFICES ASSUME ~failed
                 PROVE  i_buf = [j \in 1..(i_bytes - From) |-> From + j - 1]
    BY DEF BufferIsStream, From
  <2>3. /\ i_buf \in Seq(Nat) /\ Len(i_buf) = i_bytes - From
        /\ \A j \in 1..Len(i_buf) : i_buf[j] = From + j - 1
    BY <2>1, <2>2 DEF IInv, TypeOK, StreamInv
  <2>4. i_buf = [j \in 1..Len(i_buf) |-> i_buf[j]]
    BY <2>3
  <2> QED BY <2>3, <2>4
<1> QED BY <1>1, InitHolds, StepKeeps, PTL DEF Spec

\* In every behaviour messages are dispatched once each and in order, and a peer
\* that closes after its last message loses none of them, unless on_dispatch is set
\* and more than two were outstanding: the last data() call before read_error.
THEOREM NoMessageLost == Spec => []NoneLost
<1>1. IInv => NoneLost
  <2>1. SUFFICES ASSUME IInv PROVE DispatchInOrder /\ NoneLostAtEof
    BY DEF NoneLost
  <2>2. DispatchInOrder
    <3>1. SUFFICES ASSUME ~failed PROVE dispatched = [k \in 1..Len(dispatched) |-> k]
      BY DEF DispatchInOrder
    <3>2. /\ dispatched \in Seq(Nat)
          /\ \A k \in 1..Len(dispatched) : dispatched[k] = k
      BY <2>1, <3>1 DEF IInv, TypeOK, StreamInv
    <3>3. dispatched = [k \in 1..Len(dispatched) |-> dispatched[k]]
      BY <3>2
    <3> QED BY <3>2, <3>3
  <2>3. NoneLostAtEof
    BY <2>1 DEF NoneLostAtEof, Complete, IInv, EndInv, StreamInv
  <2> QED BY <2>2, <2>3
<1> QED BY <1>1, InitHolds, StepKeeps, PTL DEF Spec
=============================================================================
