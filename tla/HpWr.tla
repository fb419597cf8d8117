-------------------------------- MODULE HpWr --------------------------------
(***************************************************************************)
(* The output queue hp_wr of hp_io.c: hp_wr_add queues an item, hp_wr_write*)
(* gathers up to IovMax queued items in an iovec and calls writev until    *)
(* everything is written, the socket says "again", or an error occurs.     *)
(*                                                                         *)
(* The bytes themselves are abstracted to their position in the stream of  *)
(* all bytes ever queued: an iovec [base, len] points at the bytes base,   *)
(* ..., base + len - 1.  What the code does to iov_base and iov_len is     *)
(* done to base and len, so a pointer that is advanced wrongly shows as a  *)
(* gap or a repetition on the wire.                                        *)
(*                                                                         *)
(* The kernel's choices (how many bytes a writev takes, EAGAIN, an error)  *)
(* and the user's calls are nondeterministic.                              *)
(***************************************************************************)
EXTENDS Integers, Sequences, FiniteSets

CONSTANTS
  InitLen,    \* n of hp_wr_init: O_ITEMS_INIT_LEN
  IovMax,     \* sysconf(_SC_IOV_MAX)
  ItemLens,   \* the values of iov_len that users pass to hp_wr_add
  MaxItems    \* bound: number of hp_wr_add calls

ASSUME InitLenAssumption == InitLen \in Nat \ {0}
ASSUME IovMaxAssumption == IovMax \in Nat \ {0}
ASSUME ItemLensAssumption == ItemLens \subseteq Nat
ASSUME MaxItemsAssumption == MaxItems \in Nat

VARIABLES
  o_items,       \* Seq of [id, base, len]: wr->o_items, o_items_len = Len
  O_ITEMS_LEN,   \* slots allocated for o_items
  o_bytes,       \* wr->o_bytes, total bytes written
  wr_err,        \* wr->err is not 0
  pc,            \* where hp_wr_write is
  vec,           \* its local iovec array
  n,             \* its local n: items of vec that are completely written
  nwrite,        \* bytes written by the current hp_uio_write
  W,             \* bytes to write in this batch
  err,           \* hp_uio_write's *err
  wire,          \* positions of the bytes the kernel took, oldest first
  ends,          \* ends[id]: stream position just after the last byte of item id
  freed          \* ids in the order hp_etio_del_n released them

queue == <<o_items, O_ITEMS_LEN, o_bytes, wr_err>>
locals == <<vec, n, nwrite, W, err>>
vars == <<o_items, O_ITEMS_LEN, o_bytes, wr_err, pc, vec, n, nwrite, W, err,
          wire, ends, freed>>

Iovec == [base : Nat, len : Nat]
Item == [id : Nat, base : Nat, len : Nat]
Errs == {"OK", "EAGAIN", "EIO"}

total == IF ends = <<>> THEN 0 ELSE ends[Len(ends)]

Minimum(a, b) == IF a <= b THEN a ELSE b

\* PrefixBytes(v)[i] is the number of bytes of the first i vectors.
PrefixBytes(v) ==
  LET sum[i \in 0..Len(v)] == IF i = 0 THEN 0 ELSE sum[i - 1] + v[i].len
  IN  sum

iovec_total_bytes(v) == PrefixBytes(v)[Len(v)]

\* The bytes of vectors 1, 2, ... of v one after the other, as writev sees them.
Gather(v) ==
  LET sum == PrefixBytes(v)
      Owner(k) == CHOOSE i \in 1..Len(v) : sum[i - 1] < k /\ k <= sum[i]
  IN  [k \in 1..sum[Len(v)] |-> v[Owner(k)].base + k - 1 - sum[Owner(k) - 1]]

hp_wr_bytes == iovec_total_bytes(o_items)

Rest(v, m) == SubSeq(v, m + 1, Len(v))
-----------------------------------------------------------------------------
Init ==
  /\ o_items = <<>>
  /\ O_ITEMS_LEN = InitLen
  /\ o_bytes = 0
  /\ wr_err = FALSE
  /\ pc = "idle"
  /\ vec = <<>> /\ n = 0 /\ nwrite = 0 /\ W = 0 /\ err = "OK"
  /\ wire = <<>> /\ ends = <<>> /\ freed = <<>>

\* Mutant: shrinks without looking at how many items are queued.
Bad_hp_eto_reserve(len, used) ==
  IF len - used <= 3 THEN len * 2
  ELSE IF len > InitLen THEN len \div 2
  ELSE len

\* The slots after hp_wr_add looked at them: doubled when at most 3 are left,
\* halved when the queue would fill less than half of the half.
hp_eto_reserve(len, used) ==
  IF len - used <= 3 THEN len * 2
  ELSE IF len > InitLen /\ used + 2 < len \div 2 THEN len \div 2
  ELSE len

hp_wr_add(l) ==
  /\ pc = "idle"
  /\ Len(ends) < MaxItems
  /\ O_ITEMS_LEN' = hp_eto_reserve(O_ITEMS_LEN, Len(o_items))
  /\ o_items' = Append(o_items,
                  [id |-> Len(ends) + 1, base |-> total, len |-> l])
  /\ ends' = Append(ends, total + l)
  /\ UNCHANGED <<o_bytes, wr_err, pc, locals, wire, freed>>

\* Mutant: the memmove starts one item too far.
Bad_hp_etio_del_n(items, k) ==
  /\ freed' = freed \o [i \in 1..k |-> items[i].id]
  /\ o_items' = Rest(items, Minimum(k + 1, Len(items)))

\* Release the first k of items and move the others to the front.
hp_etio_del_n(items, k) ==
  /\ freed' = freed \o [i \in 1..k |-> items[i].id]
  /\ o_items' = Rest(items, k)

-----------------------------------------------------------------------------
(* hp_wr_write, one action per place where it may leave, call or loop.     *)

hp_wr_write ==
  /\ pc = "idle"
  /\ o_items # <<>>
  /\ pc' = "batch"
  /\ UNCHANGED <<queue, locals, wire, ends, freed>>

\* Top of the loop: everything is written.
WriteDone ==
  /\ pc = "batch"
  /\ o_items = <<>>
  /\ pc' = "idle"
  /\ UNCHANGED <<queue, locals, wire, ends, freed>>

Batch == SubSeq(o_items, 1, Minimum(IovMax, Len(o_items)))

\* Mutant: the empty items are not dropped before the loop goes on.
Bad_SkipEmpty ==
  /\ pc = "batch"
  /\ o_items # <<>>
  /\ iovec_total_bytes(Batch) = 0
  /\ UNCHANGED vars

\* Nothing but empty items in this batch: drop them and go on.
SkipEmpty ==
  /\ pc = "batch"
  /\ o_items # <<>>
  /\ iovec_total_bytes(Batch) = 0
  /\ hp_etio_del_n(o_items, Len(Batch))
  /\ UNCHANGED <<O_ITEMS_LEN, o_bytes, wr_err, pc, locals, wire, ends>>

\* Copy the next items to vec and enter hp_uio_write.
PrepareBatch ==
  /\ pc = "batch"
  /\ o_items # <<>>
  /\ iovec_total_bytes(Batch) # 0
  /\ vec' = [i \in 1..Len(Batch) |->
              [base |-> o_items[i].base, len |-> o_items[i].len]]
  /\ W' = iovec_total_bytes(Batch)
  /\ n' = 0 /\ nwrite' = 0 /\ err' = "OK"
  /\ pc' = "writev"
  /\ UNCHANGED <<queue, wire, ends, freed>>

\* Mutant: on an item boundary the finished item is taken for a partial one.
Bad_before_writev(w) ==
  LET sum == PrefixBytes(vec)
      i == CHOOSE i \in n + 1 .. Len(vec) :
             /\ w <= sum[i] - sum[n]
             /\ \A j \in n + 1 .. i - 1 : ~ (w <= sum[j] - sum[n])
      left == sum[i] - sum[n] - w
  IN  /\ vec' = [vec EXCEPT ![i] = [base |-> @.base + @.len - left, len |-> left]]
      /\ n' = i

\* Mutant: the operands of r - nwrite are swapped.
Neg_before_writev(w) ==
  LET sum == PrefixBytes(vec)
      i == CHOOSE i \in n + 1 .. Len(vec) :
             /\ w < sum[i] - sum[n]
             /\ \A j \in n + 1 .. i - 1 : ~ (w < sum[j] - sum[n])
      left == w - (sum[i] - sum[n])
  IN  /\ vec' = [vec EXCEPT ![i] = [base |-> @.base + @.len - left, len |-> left]]
      /\ n' = i - 1

\* Find the first vector that was not completely written by the last writev
\* and let it point at what is left of it.
before_writev(w) ==
  LET sum == PrefixBytes(vec)
      i == CHOOSE i \in n + 1 .. Len(vec) :
             /\ w < sum[i] - sum[n]
             /\ \A j \in n + 1 .. i - 1 : ~ (w < sum[j] - sum[n])
      left == sum[i] - sum[n] - w
  IN  /\ vec' = [vec EXCEPT ![i] = [base |-> @.base + @.len - left, len |-> left]]
      /\ n' = i - 1

\* writev takes w bytes; hp_uio_write stops when all of W is written and
\* otherwise adjusts vec and tries again.
Writev(w) ==
  /\ pc = "writev"
  /\ wire' = wire \o SubSeq(Gather(Rest(vec, n)), 1, w)
  /\ nwrite' = nwrite + w
  /\ IF nwrite + w = W
       THEN /\ n' = Len(vec) /\ err' = "OK" /\ pc' = "written"
            /\ UNCHANGED vec
       ELSE /\ before_writev(w)
            /\ UNCHANGED <<err, pc>>
  /\ UNCHANGED <<queue, W, ends, freed>>

\* writev fails: EINTR and EAGAIN are reported as EAGAIN, all else as itself.
WritevFails(e) ==
  /\ pc = "writev"
  /\ err' = e
  /\ pc' = "written"
  /\ UNCHANGED <<queue, vec, n, nwrite, W, wire, ends, freed>>

\* Back in hp_wr_write: count the bytes, put the adjusted vector back in the
\* queue, release the written items and look at err.
AfterUioWrite ==
  /\ pc = "written"
  /\ o_bytes' = o_bytes + nwrite
  /\ hp_etio_del_n(
       IF n < Len(vec)
         THEN [o_items EXCEPT ![n + 1] = [id |-> @.id, base |-> vec[n + 1].base,
                                          len |-> vec[n + 1].len]]
         ELSE o_items, n)
  /\ pc' = CASE err = "OK" -> "batch"
             [] err = "EAGAIN" -> "idle"
             [] OTHER -> "error"
  /\ UNCHANGED <<O_ITEMS_LEN, wr_err, locals, wire, ends>>

\* hp_wr_clear, then free o_items.
hp_wr_uninit == hp_etio_del_n(o_items, Len(o_items))

\* The write_error callback.  hp_io_t's tears the queue down; the one of
\* another user may leave it as it is.  wr->err is set after it.
WriteError ==
  /\ pc = "error"
  /\ wr_err' = TRUE
  /\ \/ hp_wr_uninit /\ pc' = "closed"
     \/ pc' = "idle" /\ UNCHANGED <<o_items, freed>>
  /\ UNCHANGED <<O_ITEMS_LEN, o_bytes, locals, wire, ends>>

\* The user tears the queue down outside of a write.
Uninit ==
  /\ pc = "idle"
  /\ hp_wr_uninit
  /\ pc' = "closed"
  /\ UNCHANGED <<O_ITEMS_LEN, o_bytes, wr_err, locals, wire, ends>>

Unwritten == PrefixBytes(vec)[Len(vec)] - PrefixBytes(vec)[n]

WritevSome == \E w \in 1..Unwritten : Writev(w)

Next ==
  \/ \E l \in ItemLens : hp_wr_add(l)
  \/ hp_wr_write
  \/ WriteDone
  \/ SkipEmpty
  \/ PrepareBatch
  \/ WritevSome
  \/ \E e \in {"EAGAIN", "EIO"} : WritevFails(e)
  \/ AfterUioWrite
  \/ WriteError
  \/ Uninit

Spec == Init /\ [][Next]_vars

\* The event loop keeps calling hp_wr_write, the function itself runs on, and
\* a socket that is tried again and again takes some bytes now and then.
Fairness ==
  /\ WF_vars(hp_wr_write)
  /\ WF_vars(WriteDone \/ SkipEmpty \/ PrepareBatch \/ AfterUioWrite \/ WriteError)
  /\ WF_vars(WritevSome \/ \E e \in {"EAGAIN", "EIO"} : WritevFails(e))
  /\ SF_vars(WritevSome)

FairSpec == Spec /\ Fairness
-----------------------------------------------------------------------------
TypeOK ==
  /\ o_items \in Seq(Item)
  /\ O_ITEMS_LEN \in Nat
  /\ o_bytes \in Nat
  /\ wr_err \in BOOLEAN
  /\ pc \in {"idle", "batch", "writev", "written", "error", "closed"}
  /\ vec \in Seq(Iovec)
  /\ n \in 0..Len(vec)
  /\ nwrite \in Nat /\ W \in Nat
  /\ err \in Errs
  /\ wire \in Seq(Nat) /\ ends \in Seq(Nat) /\ freed \in Seq(Nat)

\* Growing and shrinking o_items never leaves fewer slots than queued items:
\* the slot hp_wr_add writes is always inside the allocation, and the halving
\* realloc never cuts a queued item off.
SlotsSuffice == Len(o_items) <= O_ITEMS_LEN

\* Every item handed to hp_wr_add is either still queued or has been released
\* by hp_etio_del_n, exactly once, in the order of the hp_wr_add calls.
ReleasedOnceInOrder ==
  freed \o [i \in 1..Len(o_items) |-> o_items[i].id] = [i \in 1..Len(ends) |-> i]

\* While the queue is alive no item is released before its last byte is on the
\* wire: writev never reads released memory in a later batch.
NoEarlyRelease ==
  pc # "closed" =>
    \A i \in 1..Len(freed) :
      ends[freed[i]] <= Len(wire)

\* Between calls hp_wr_bytes() is exactly what the peer has not been sent, and
\* o_bytes exactly what it has, however the writes were cut.
BytesAccounted ==
  pc = "idle" => /\ o_bytes = Len(wire)
                 /\ hp_wr_bytes = total - Len(wire)

\* hp_wr implements the ordered stream: no byte is lost, repeated or overtaken
\* by partial writes, by batches of IovMax items or by "again".
Stream == INSTANCE HpStream WITH total <- total, wire <- wire,
                                 closed <- (pc = "closed")
ImplementsStream == Stream!Spec

\* What is queued reaches the wire unless an error or the teardown intervenes.
EventuallyWritten ==
  \A k \in 1..MaxItems :
    (Len(ends) >= k) ~> \/ Len(ends) >= k /\ Len(wire) >= ends[k]
                        \/ wr_err
                        \/ pc = "closed"

\* What hp_wr_add was given is safe with the queue: there is a slot for it, it is
\* released once, in order, and not before it is written.
ItemsSafe == SlotsSuffice /\ ReleasedOnceInOrder /\ NoEarlyRelease
=============================================================================
