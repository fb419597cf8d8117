-------------------------------- MODULE HpMsg --------------------------------
(***************************************************************************)
(* hp_pm_pack of hp_msg.c takes one message from a buffer: a magic number, *)
(* a header with the message's id and the length of its body, the body.    *)
(* Bytes before the magic are skipped.  The caller reads whatever arrives  *)
(* and calls it until it asks for more data.                               *)
(*                                                                         *)
(* The magic is two symbols, id and length one each.  A frame is a record  *)
(* of its body and whether it is marked PMT_Z and cannot be unpacked.      *)
(***************************************************************************)
EXTENDS Integers, Sequences, SequencesExt

CONSTANTS
  Garbage,      \* byte sequences between frames, without a magic number
  Frames,       \* frames: [body, z]
  MaxFrames     \* frames of a stream

\* Bytes are numbers; what lies between two frames has no magic number in it.
ASSUME MsgAssumption ==
  /\ \A g \in Garbage : /\ g \in Seq(Nat)
                        /\ \A k \in 1..Len(g) - 1 : ~(g[k] = 101 /\ g[k + 1] = 102)
  /\ \A f \in Frames : f.body \in Seq(Nat) /\ f.z \in BOOLEAN
  /\ MaxFrames \in Nat

VARIABLES
  frames,       \* the frames sent
  wireb,        \* bytes under way
  mbuf,         \* the caller's buffer
  mpc2,         \* "read", or "pack" in the caller's loop
  noskip,       \* PMRW_NOSKIP
  out,          \* ids of the messages handed over
  zdrop         \* a message that could not be unpacked was dropped

msgVars == <<frames, wireb, mbuf, mpc2, noskip, out, zdrop>>
Magic == <<101, 102>>
HeaderLen == Len(Magic) + 2

\* hp_msg_header and the body
Packed(id, f) == Magic \o <<id, Len(f.body)>> \o f.body

MsgInit ==
  /\ frames = <<>> /\ wireb = <<>> /\ mbuf = <<>> /\ out = <<>>
  /\ mpc2 = "read" /\ noskip \in BOOLEAN /\ zdrop = FALSE

FrameSent(g, f) ==
  /\ Len(frames) < MaxFrames
  /\ frames' = Append(frames, f)
  /\ wireb' = wireb \o g \o Packed(Len(frames) + 1, f)
  /\ UNCHANGED <<mbuf, mpc2, noskip, out, zdrop>>

SomeArrive ==
  /\ mpc2 = "read" /\ wireb # <<>>
  /\ \E n \in 1..Len(wireb) :
       /\ mbuf' = mbuf \o SubSeq(wireb, 1, n)
       /\ wireb' = SubSeq(wireb, n + 1, Len(wireb))
  /\ mpc2' = "pack"
  /\ UNCHANGED <<frames, noskip, out, zdrop>>

Drop(n) == mbuf' = SubSeq(mbuf, n + 1, Len(mbuf))
MagicAt(n) == SubSeq(mbuf, n + 1, n + Len(Magic)) = Magic
MoreData == mpc2' = "read" /\ UNCHANGED <<mbuf, out, zdrop>>

\* Mutant: everything goes if there is no magic number.
Bad_SkipTo ==
  LET N == {n \in 1..Len(mbuf) - Len(Magic) : MagicAt(n)}
  IN  IF N = {} THEN Len(mbuf) ELSE CHOOSE n \in N : \A k \in N : n <= k

\* The search ends sizeof(PM_MAGIC) before the end, which stays in the buffer.
SkipTo ==
  LET N == {n \in 1..Len(mbuf) - Len(Magic) - 1 : MagicAt(n)}
  IN  IF N = {} THEN Len(mbuf) - Len(Magic) ELSE CHOOSE n \in N : \A k \in N : n <= k

\* No magic number: one byte is dropped and -1 returned, or bytes are skipped.
Resync ==
  /\ Len(mbuf) >= HeaderLen /\ ~MagicAt(0)
  /\ Drop(IF noskip THEN 1 ELSE SkipTo)
  /\ UNCHANGED <<mpc2, out, zdrop>>

BodyLen == mbuf[HeaderLen]
IsComplete == Len(mbuf) - HeaderLen >= BodyLen

\* The message is taken off the buffer; one that cannot be unpacked is dropped,
\* and 0 returned as if data were missing.
TakeMsg(id) ==
  /\ Drop(HeaderLen + BodyLen)
  /\ IF frames[id].z
       THEN zdrop' = TRUE /\ mpc2' = "read" /\ UNCHANGED out
       ELSE out' = Append(out, id) /\ UNCHANGED <<mpc2, zdrop>>

hp_pm_pack ==
  /\ mpc2 = "pack"
  /\ \/ Len(mbuf) < HeaderLen /\ MoreData
     \/ Resync
     \/ Len(mbuf) >= HeaderLen /\ MagicAt(0) /\ IsComplete /\ TakeMsg(mbuf[HeaderLen - 1])
     \/ Len(mbuf) >= HeaderLen /\ MagicAt(0) /\ ~IsComplete /\ MoreData
  /\ UNCHANGED <<frames, wireb, noskip>>

MsgNext ==
  \/ \E g \in Garbage, f \in Frames : FrameSent(g, f)
  \/ SomeArrive \/ hp_pm_pack
MsgSpec == MsgInit /\ [][MsgNext]_msgVars
-----------------------------------------------------------------------------
\* The frames among the first n of fs that can be unpacked, in their order.
UnpackableOf(fs) ==
  LET upto[n \in 0..Len(fs)] ==
        IF n = 0 THEN <<>> ELSE IF fs[n].z THEN upto[n - 1] ELSE Append(upto[n - 1], n)
  IN  upto
Unpackable == UnpackableOf(frames)[Len(frames)]

\* Whatever lies between the frames and however the stream is cut into reads, the
\* messages come out whole and in order.
MsgsInOrder == IsPrefix(out, Unpackable)

\* When the caller was told to wait for data and there is none under way, it has
\* all messages, unless one was dropped in the last round (hp_msg.c:159).
NoMsgWaits == wireb = <<>> /\ mpc2 = "read" /\ ~zdrop => out = Unpackable

\* The messages come out whole, in order and as soon as they are there.
MsgsWhole == MsgsInOrder /\ NoMsgWaits
=============================================================================
