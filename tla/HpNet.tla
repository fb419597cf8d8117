-------------------------------- MODULE HpNet --------------------------------
(***************************************************************************)
(* Sockets in hp_net.c.  One part is how descriptors are made: each        *)
(* function is a row of system calls that may fail, with or without a      *)
(* close.  The other part is how bytes are moved by calls that transfer    *)
(* less than they were asked for, fail, are interrupted or meet the end of *)
(* the stream: do_readv, readv_a, read_a, readn and writen.                *)
(*                                                                         *)
(* Byte k of the stream is the number k; memory is one array, of which the *)
(* buffers of an iovec are consecutive parts.                              *)
(***************************************************************************)
EXTENDS Integers, Sequences

CONSTANTS
  Vecs,         \* lengths of the buffers given to a transfer
  MaxExtra      \* bytes asked for beyond the room of the buffers

\* A transfer is asked for something.
ASSUME NetAssumption ==
  /\ \A lens \in Vecs : lens \in Seq(Nat) /\ \E i \in 1..Len(lens) : lens[i] > 0
  /\ MaxExtra \in Nat

VARIABLES
  nfn,          \* the function under way, "none" or "done"
  row,          \* the system calls it still has to make
  opened,       \* descriptors it has opened
  blocking,     \* those that block
  vec, vec_n,   \* remaining buffers [base, len], index of the one to use
  bytes,        \* the argument bytes
  nread,        \* bytes moved
  mem,          \* memory
  atEof,        \* whether the stream has ended
  res           \* result: "ok", "eof", "again", "error", "short"

setup == <<row, opened, blocking>>
xfer == <<vec, vec_n, bytes, nread, mem, atEof>>
netVars == <<nfn, row, opened, blocking, vec, vec_n, bytes, nread, mem, atEof, res>>

\* A system call, what it makes, whether its failure closes what was opened
Makes(fd) == [call |-> "make", fds |-> fd, closes |-> FALSE]
NonBlocking(fd, c) == [call |-> "nonblock", fds |-> fd, closes |-> c]
Checked == [call |-> "set", fds |-> {}, closes |-> TRUE]

hp_tcp_listen == <<Makes({1}), Checked, NonBlocking({1}, TRUE), Checked, Checked>>
hp_net_udp_bind ==
  <<Makes({1}), Checked, Checked, Checked, NonBlocking({1}, TRUE), Checked>>
hp_net_socketpair ==
  <<Makes({1, 2}), NonBlocking({1}, FALSE), NonBlocking({2}, FALSE)>>
hp_tcp_connect_addr == <<Makes({1}), NonBlocking({1}, TRUE), Checked>>
hp_tcp_connect2 == <<Makes({1}), Checked, NonBlocking({1}, TRUE), Checked>>

Row(fn) ==
  CASE fn = "hp_tcp_listen" -> hp_tcp_listen
    [] fn = "hp_net_udp_bind" -> hp_net_udp_bind
    [] fn = "hp_net_socketpair" -> hp_net_socketpair
    [] fn = "hp_tcp_connect_addr" -> hp_tcp_connect_addr
    [] fn = "hp_tcp_connect2" -> hp_tcp_connect2
    [] OTHER -> <<>>
Setups == {"hp_tcp_listen", "hp_net_udp_bind", "hp_net_socketpair",
           "hp_tcp_connect_addr", "hp_tcp_connect2"}
Waiting2 == {"do_readv", "readn", "writen"}     \* try again at EINTR and EAGAIN
Transfers == Waiting2 \cup {"readv_a", "read_a"}
Vectored == {"do_readv", "readv_a"}             \* the others have one buffer

\* Sums(lens, n)[i]: what buffers n to i hold
Sums(lens, n) ==
  LET sum[i \in 0..Len(lens)] == IF i < n THEN 0 ELSE sum[i - 1] + lens[i]
  IN  sum
TotalLen(lens) == Sums(lens, 1)[Len(lens)]
Buffers(lens) ==
  [i \in 1..Len(lens) |-> [base |-> Sums(lens, 1)[i - 1] + 1, len |-> lens[i]]]

NetInit ==
  /\ nfn = "none" /\ row = <<>> /\ opened = {} /\ blocking = {}
  /\ vec = <<>> /\ vec_n = 1 /\ bytes = 0 /\ nread = 0 /\ mem = <<>>
  /\ atEof = FALSE /\ res = "ok"
-----------------------------------------------------------------------------
CallSetup(fn) ==
  /\ nfn = "none"
  /\ nfn' = fn /\ row' = Row(fn)
  /\ UNCHANGED <<opened, blocking, xfer, res>>

Return(r) == nfn' = "done" /\ res' = r

SystemCall ==
  /\ nfn \in Setups /\ row # <<>>
  /\ row' = Tail(row)
  /\ opened' = opened \cup IF Head(row).call = "make" THEN Head(row).fds ELSE {}
  /\ blocking' = IF Head(row).call = "make" THEN blocking \cup Head(row).fds
                 ELSE IF Head(row).call = "nonblock" THEN blocking \ Head(row).fds
                 ELSE blocking
  /\ UNCHANGED <<nfn, xfer, res>>

SystemCallFails ==
  /\ nfn \in Setups /\ row # <<>>
  /\ Return("error")
  /\ opened' = IF Head(row).closes THEN {} ELSE opened
  /\ row' = <<nfn>>    \* which function failed
  /\ UNCHANGED <<blocking, xfer>>

SetupDone ==
  /\ nfn \in Setups /\ row = <<>>
  /\ Return("ok")
  /\ UNCHANGED <<setup, xfer>>
-----------------------------------------------------------------------------
CallTransfer(fn, lens, extra) ==
  /\ nfn = "none"
  /\ fn \in Vectored \/ Len(lens) = 1
  /\ fn \in {"readn", "writen"} => extra = 0
  /\ nfn' = fn
  /\ vec' = Buffers(lens)
  /\ bytes' = TotalLen(lens) + extra
  /\ mem' = [k \in 1..TotalLen(lens) |-> 0]
  /\ UNCHANGED <<setup, vec_n, nread, atEof, res>>

\* What the buffers from vec_n to i hold, and what a call can move at most
Upto(i) == Sums([k \in 1..Len(vec) |-> vec[k].len], vec_n)[i]
Fits == Upto(Len(vec))

\* The buffer of the j-th byte a call moves, and its place in memory
BufferOf(j) ==
  CHOOSE i \in vec_n..Len(vec) : j <= Upto(i) /\ \A k \in vec_n..i - 1 : Upto(k) < j
Target(j) == LET b == vec[BufferOf(j)]
             IN  b.base + b.len - 1 - (Upto(BufferOf(j)) - j)

\* Mutant: a buffer that was filled exactly is used again.
Bad_before_readv(r) ==
  LET i == BufferOf(r)
  IN  /\ vec_n' = i
      /\ vec' = [vec EXCEPT ![i] =
                   [base |-> IF r = Upto(i) THEN @.base ELSE @.base + @.len - (Upto(i) - r),
                    len |-> IF r = Upto(i) THEN @.len ELSE Upto(i) - r]]

\* The first buffer r bytes do not fill is cut to what is left of it; if there is
\* none, nothing changes.
before_readv(r) ==
  IF r >= Fits THEN UNCHANGED <<vec, vec_n>>
  ELSE LET i == BufferOf(r + 1)
       IN  /\ vec_n' = i
           /\ vec' = [vec EXCEPT ![i] =
                        [base |-> @.base + @.len - (Upto(i) - r), len |-> Upto(i) - r]]

\* buf + nread, len - nread
OneBuffer(r) ==
  /\ vec' = [vec EXCEPT ![1] = [base |-> @.base + r, len |-> @.len - r]]
  /\ UNCHANGED vec_n

\* A call moves r bytes.
Moved(r) ==
  /\ mem' = [k \in DOMAIN mem |->
               LET J == {j \in 1..r : Target(j) = k}
               IN  IF J = {} THEN mem[k] ELSE nread + (CHOOSE j \in J : TRUE)]
  /\ nread' = nread + r
  /\ IF nread + r = bytes THEN Return("ok") /\ UNCHANGED <<vec, vec_n>>
     ELSE /\ IF nfn \in Vectored THEN before_readv(r) ELSE OneBuffer(r)
          /\ UNCHANGED <<nfn, res>>
  /\ UNCHANGED <<setup, bytes, atEof>>

Transfer ==
  nfn \in Transfers /\ ~atEof /\ nread < bytes /\ \E r \in 1..Fits : Moved(r)

\* A call with no room returns 0 too, which the _a functions take for the end.
NothingRead ==
  /\ nfn \in Transfers \ {"writen"}
  /\ atEof \/ Fits = 0
  /\ Return(IF nfn \in {"readv_a", "read_a"} THEN "eof" ELSE "short")
  /\ UNCHANGED <<setup, xfer>>

\* EINTR or EAGAIN: the _a functions return, the others call again.
Interrupted ==
  /\ nfn \in Transfers \ Waiting2
  /\ Return("again")
  /\ UNCHANGED <<setup, xfer>>

TransferFails ==
  /\ nfn \in Transfers
  /\ Return("error")
  /\ UNCHANGED <<setup, xfer>>

StreamEnds ==
  /\ nfn \in Transfers /\ ~atEof
  /\ atEof' = TRUE
  /\ UNCHANGED <<nfn, res, setup, vec, vec_n, bytes, nread, mem>>

NetNext ==
  \/ \E fn \in Setups : CallSetup(fn)
  \/ SystemCall \/ SystemCallFails \/ SetupDone
  \/ \E fn \in Transfers, lens \in Vecs, extra \in 0..MaxExtra : CallTransfer(fn, lens, extra)
  \/ Transfer \/ NothingRead \/ Interrupted \/ TransferFails \/ StreamEnds
NetSpec == NetInit /\ [][NetNext]_netVars
-----------------------------------------------------------------------------
\* A function that makes a socket leaves none open when it fails, at whatever
\* call, and a descriptor it returns does not block.  (Not so hp_net_socketpair.)
NoDescriptorLeaks ==
  nfn = "done" /\ vec = <<>> =>
    IF res = "ok" THEN opened # {} /\ blocking \cap opened = {}
    ELSE opened = {} \/ row = <<"hp_net_socketpair">>

Exact == bytes = Len(mem)

\* However the bytes are cut, and wherever the cut lies in the buffers, they are
\* stored in order and without gaps, if what is asked for is what fits.
StoredInOrder ==
  Exact /\ vec # <<>> =>
    /\ nread <= Len(mem)
    /\ \A k \in 1..Len(mem) : mem[k] = IF k <= nread THEN k ELSE 0

\* The caller can tell a complete transfer from the end of the stream, and the end
\* of the stream from an interruption.
ResultTells ==
  nfn = "done" /\ vec # <<>> /\ Exact =>
    /\ res = "ok" <=> nread = bytes
    /\ res \in {"eof", "short"} => atEof

\* Whichever call fails or is cut short, no descriptor stays behind, no byte is lost
\* and the caller is told.
NetSound == NoDescriptorLeaks /\ StoredInOrder /\ ResultTells
=============================================================================
