-------------------------- MODULE HpThreadsProofs --------------------------
(***************************************************************************)
(* Proofs about the parts that share state with the kernel or with other   *)
(* threads: the file watches HpInotify, for any paths and any number of    *)
(* entries, files, watches and events; and the completion port loop        *)
(* HpIocp, for any capacity of its tables and buffers, any number of       *)
(* threads, connections, writes and chunks.                                *)
(***************************************************************************)
EXTENDS HpInotify, HpIocp, SequenceTheorems, FiniteSetTheorems, TLAPS

-----------------------------------------------------------------------------
(* Sequences *)

\* RemoveAt closes the gap, as vecrm of the two tables and cvector_remove do.
LEMMA RemoveAtProperties ==
  ASSUME NEW S, NEW s \in Seq(S), NEW k \in 1..Len(s)
  PROVE  /\ RemoveAt(s, k) \in Seq(S)
         /\ Len(RemoveAt(s, k)) = Len(s) - 1
         /\ \A m \in 1..Len(s) - 1 :
              RemoveAt(s, k)[m] = IF m < k THEN s[m] ELSE s[m + 1]
<1> DEFINE p == SubSeq(s, 1, k - 1)
           q == SubSeq(s, k + 1, Len(s))
<1>t. Len(s) \in Nat /\ k \in Nat /\ \A m \in 1..Len(s) : s[m] \in S
  BY LenProperties, ElementOfSeq
<1>1. /\ p \in Seq(S) /\ Len(p) = k - 1
      /\ \A m \in 1..k - 1 : p[m] = s[m]
  <2>1. \A m \in 1..k - 1 : s[m] \in S
    BY <1>t
  <2>2. /\ p \in Seq(S) /\ Len(p) = IF 1 <= k - 1 THEN k - 1 - 1 + 1 ELSE 0
        /\ \A m \in 1..k - 1 - 1 + 1 : p[m] = s[1 + m - 1]
    BY <2>1, <1>t, SubSeqProperties
  <2> QED BY <2>2, <1>t
<1>2. /\ q \in Seq(S) /\ Len(q) = Len(s) - k
      /\ \A m \in 1..Len(s) - k : q[m] = s[k + m]
  <2>1. \A m \in k + 1..Len(s) : s[m] \in S
    BY <1>t
  <2>2. /\ q \in Seq(S)
        /\ Len(q) = IF k + 1 <= Len(s) THEN Len(s) - (k + 1) + 1 ELSE 0
        /\ \A m \in 1..Len(s) - (k + 1) + 1 : q[m] = s[k + 1 + m - 1]
    BY <2>1, <1>t, SubSeqProperties
  <2> QED BY <2>2, <1>t
<1>3. RemoveAt(s, k) = p \o q
  BY DEF RemoveAt
<1> HIDE DEF p, q
<1>4. /\ p \o q \in Seq(S) /\ Len(p \o q) = Len(p) + Len(q)
      /\ \A m \in 1..Len(p) + Len(q) :
           (p \o q)[m] = IF m <= Len(p) THEN p[m] ELSE q[m - Len(p)]
  BY <1>1, <1>2, ConcatProperties
<1>5. Len(p) + Len(q) = Len(s) - 1
  BY <1>1, <1>2, <1>t
<1>6. ASSUME NEW m \in 1..Len(s) - 1
      PROVE  (p \o q)[m] = IF m < k THEN s[m] ELSE s[m + 1]
  <2>1. CASE m < k
    BY <2>1, <1>1, <1>4, <1>5, <1>t
  <2>2. CASE ~(m < k)
    <3>1. m - (k - 1) \in 1..Len(s) - k /\ k + (m - (k - 1)) = m + 1
      BY <2>2, <1>t
    <3>2. (p \o q)[m] = q[m - (k - 1)]
      BY <2>2, <1>4, <1>1, <1>2, <1>t
    <3> QED BY <3>1, <3>2, <1>2, <2>2
  <2> QED BY <2>1, <2>2
<1> QED BY <1>3, <1>4, <1>5, <1>6

\* The entries that stay, in their order.
Kept(m, k) == IF m < k THEN m ELSE m + 1

\* What RemoveAt leaves, and where each entry came from.
LEMMA RemovedFrom ==
  ASSUME NEW S, NEW s \in Seq(S), NEW k \in 1..Len(s)
  PROVE  /\ RemoveAt(s, k) \in Seq(S)
         /\ Len(s) \in Nat /\ Len(RemoveAt(s, k)) = Len(s) - 1
         /\ \A m \in 1..Len(RemoveAt(s, k)) :
              /\ Kept(m, k) \in 1..Len(s) /\ Kept(m, k) # k
              /\ RemoveAt(s, k)[m] = s[Kept(m, k)]
         /\ \A m, j \in 1..Len(RemoveAt(s, k)) : m < j => Kept(m, k) < Kept(j, k)
         /\ \A j \in 1..Len(s) : j # k =>
              \E m \in 1..Len(RemoveAt(s, k)) : j = Kept(m, k)
<1>1. /\ RemoveAt(s, k) \in Seq(S) /\ Len(s) \in Nat /\ k \in Nat
      /\ Len(RemoveAt(s, k)) = Len(s) - 1
      /\ \A m \in 1..Len(s) - 1 : RemoveAt(s, k)[m] = IF m < k THEN s[m] ELSE s[m + 1]
  BY RemoveAtProperties, LenProperties
<1>2. \A m \in 1..Len(s) - 1 :
        /\ Kept(m, k) \in 1..Len(s) /\ Kept(m, k) # k
        /\ RemoveAt(s, k)[m] = s[Kept(m, k)]
  BY <1>1 DEF Kept
<1>3. \A m, j \in 1..Len(s) - 1 : m < j => Kept(m, k) < Kept(j, k)
  BY <1>1 DEF Kept
<1>4. ASSUME NEW j \in 1..Len(s), j # k
      PROVE  \E m \in 1..Len(s) - 1 : j = Kept(m, k)
  <2>1. CASE j < k
    <3>1. j \in 1..Len(s) - 1
      BY <2>1, <1>1
    <3> QED BY <3>1, <2>1 DEF Kept
  <2>2. CASE ~(j < k)
    <3>1. j - 1 \in 1..Len(s) - 1 /\ ~(j - 1 < k) /\ (j - 1) + 1 = j
      BY <2>2, <1>4, <1>1
    <3> QED BY <3>1 DEF Kept
  <2> QED BY <2>1, <2>2
<1> QED BY <1>1, <1>2, <1>3, <1>4

\* Entries of a sequence one was appended to.
LEMMA AppendedTo ==
  ASSUME NEW S, NEW s \in Seq(S), NEW e \in S
  PROVE  /\ Append(s, e) \in Seq(S) /\ Len(s) \in Nat /\ Len(Append(s, e)) = Len(s) + 1
         /\ \A k \in 1..Len(s) : k \in 1..Len(Append(s, e)) /\ Append(s, e)[k] = s[k]
         /\ Len(s) + 1 \in 1..Len(Append(s, e)) /\ Append(s, e)[Len(s) + 1] = e
         /\ \A k \in 1..Len(Append(s, e)) : k \in Nat /\ (k = Len(s) + 1 \/ k \in 1..Len(s))
<1>1. /\ Append(s, e) \in Seq(S) /\ Len(Append(s, e)) = Len(s) + 1 /\ Len(s) \in Nat
      /\ \A k \in 1..Len(s) : Append(s, e)[k] = s[k]
      /\ Append(s, e)[Len(s) + 1] = e
  BY AppendProperties, LenProperties
<1> QED BY <1>1

\* Entries of the tail of a sequence that is not empty.
LEMMA TailOf ==
  ASSUME NEW S, NEW s \in Seq(S), s # <<>>
  PROVE  /\ Tail(s) \in Seq(S) /\ Len(s) \in Nat /\ 1 \in 1..Len(s)
         /\ Len(Tail(s)) = Len(s) - 1 /\ s[1] = Head(s) /\ Head(s) \in S
         /\ \A k \in 1..Len(Tail(s)) : k + 1 \in 1..Len(s) /\ Tail(s)[k] = s[k + 1] /\ k \in Nat
         /\ \A k \in 1..Len(s) : k = 1 \/ (k - 1 \in 1..Len(Tail(s)) /\ Tail(s)[k - 1] = s[k])
<1>1. /\ Tail(s) \in Seq(S) /\ Len(s) \in Nat /\ Len(s) # 0 /\ Head(s) \in S
      /\ Len(Tail(s)) = Len(s) - 1 /\ s[1] = Head(s)
      /\ \A k \in 1..Len(s) - 1 : Tail(s)[k] = s[k + 1]
  BY HeadTailProperties, LenProperties, EmptySeq
<1>2. ASSUME NEW k \in 1..Len(s), k # 1
      PROVE  k - 1 \in 1..Len(Tail(s)) /\ Tail(s)[k - 1] = s[k]
  <2>1. k - 1 \in 1..Len(s) - 1 /\ (k - 1) + 1 = k
    BY <1>1, <1>2
  <2> QED BY <2>1, <1>1
<1> QED BY <1>1, <1>2

\* A function on 1..m is a sequence.
LEMMA FcnIsSeq ==
  ASSUME NEW S, NEW m \in Nat, NEW f \in [1..m -> S]
  PROVE  f \in Seq(S) /\ Len(f) = m
<1>1. f \in Seq(S)
  BY SeqDef, Zenon
<1>2. DOMAIN f = 1..m /\ DOMAIN f = 1..Len(f) /\ Len(f) \in Nat
  BY <1>1, LenProperties
<1> QED BY <1>1, <1>2
-----------------------------------------------------------------------------
(* HpInotify *)

IEnt == [path : Paths, wd : Nat]
IEvent == [wd : Nat, modify : BOOLEAN]

WatchTypes ==
  /\ inodes \in Nat /\ wds \in Nat /\ dir \in [Paths -> 0..inodes]
  /\ watches \subseteq [wd : 1..wds, ino : 1..inodes]
  /\ ients \in Seq(IEnt) /\ ievents \in Seq(IEvent) /\ iopen \in BOOLEAN

\* A file has one name.
FilesInv == \A p, q \in Paths : dir[p] = dir[q] /\ dir[p] # 0 => p = q

\* The watch of an entry is one of the file its path had, and not of another path's.
OwnWatch ==
  \A k \in 1..Len(ients), w \in watches, p \in Paths :
    w.wd = ients[k].wd /\ dir[p] = w.ino => p = ients[k].path

\* The loop will read that the file of an entry is gone.
EndInv ==
  iopen => \A k \in 1..Len(ients) :
    dir[ients[k].path] = 0 /\ ients[k].path \notin lost /\ ients[k].wd # 0
      => EndUnread(ients[k].wd)

WInv == WatchTypes /\ InotifyTypeOK /\ FilesInv /\ OwnWatch /\ EndInv /\ WatchedOrKnown

\* Elements of the two sequences.
LEMMA EntryTypes ==
  ASSUME WatchTypes
  PROVE  /\ Len(ients) \in Nat /\ Len(ievents) \in Nat
         /\ \A k \in 1..Len(ients) : /\ ients[k] \in IEnt /\ ients[k].path \in Paths
                                     /\ ients[k].wd \in Nat /\ dir[ients[k].path] \in 0..inodes
         /\ \A k \in 1..Len(ievents) : ievents[k] \in IEvent
<1>1. /\ ients \in Seq(IEnt) /\ ievents \in Seq(IEvent)
  BY DEF WatchTypes
<1>2. /\ Len(ients) \in Nat /\ Len(ievents) \in Nat
      /\ \A k \in 1..Len(ients) : ients[k] \in IEnt
      /\ \A k \in 1..Len(ievents) : ievents[k] \in IEvent
  BY <1>1, ElementOfSeq, LenProperties
<1> QED BY <1>2 DEF IEnt, WatchTypes

\* There is nothing in the beginning.
LEMMA InotifyStarts == InotifyInit => WInv
<1> SUFFICES ASSUME InotifyInit PROVE WInv
  OBVIOUS
<1>1. /\ ients = <<>> /\ ievents = <<>> /\ Len(<<>>) = 0 /\ 1..0 = {}
      /\ <<>> \in Seq(IEnt) /\ <<>> \in Seq(IEvent)
  BY EmptySeq DEF InotifyInit
<1>2. WatchTypes
  BY <1>1 DEF InotifyInit, WatchTypes
<1>3. FilesInv
  BY DEF InotifyInit, FilesInv
<1>4. InotifyTypeOK
  BY <1>1 DEF InotifyInit, InotifyTypeOK, Listed
<1> QED BY <1>1, <1>2, <1>3, <1>4 DEF InotifyInit, WInv, OwnWatch, EndInv, WatchedOrKnown

\* Steps that leave the entries alone.
LEMMA ListedSame ==
  ASSUME ients' = ients
  PROVE  Listed' = Listed
BY DEF Listed

\* A file is made: an entry of its path whose end is unread is noted as lost.
LEMMA FileMadeKeeps ==
  ASSUME WInv, NEW p \in Paths, FileMade(p)
  PROVE  WInv'
<1>1. /\ dir[p] = 0 /\ inodes' = inodes + 1 /\ dir' = [dir EXCEPT ![p] = inodes + 1]
      /\ lost' = IF \E k \in 1..Len(ients) : ients[k].path = p /\ EndUnread(ients[k].wd)
                   THEN lost \cup {p} ELSE lost
      /\ UNCHANGED <<watches, wds, ievents, ients, iopen, dirty>>
  BY DEF FileMade
<1>t. /\ inodes \in Nat /\ wds \in Nat /\ dir \in [Paths -> 0..inodes]
      /\ watches \subseteq [wd : 1..wds, ino : 1..inodes] /\ lost \subseteq Paths
      /\ \A k \in 1..Len(ients) : ients[k].path \in Paths
  BY EntryTypes DEF WInv, WatchTypes, InotifyTypeOK
<1>2. /\ dir' \in [Paths -> 0..inodes'] /\ dir'[p] = inodes + 1 /\ inodes' \in Nat
      /\ \A q \in Paths : q # p => dir'[q] = dir[q]
      /\ \A q \in Paths : dir[q] # inodes + 1
  BY <1>1, <1>t
<1>3. watches' \subseteq [wd : 1..wds', ino : 1..inodes']
      /\ \A w \in watches : w.ino # inodes + 1
  BY <1>1, <1>t
<1>4. WatchTypes'
  BY <1>1, <1>2, <1>3 DEF WInv, WatchTypes
<1>5. InotifyTypeOK'
  BY <1>1, <1>t, ListedSame DEF WInv, InotifyTypeOK
<1>6. FilesInv' /\ OwnWatch'
  BY <1>1, <1>2, <1>3 DEF WInv, FilesInv, OwnWatch
<1>7. lost \subseteq lost'
  BY <1>1
<1>8. EndInv'
  BY <1>1, <1>2, <1>7, <1>t DEF WInv, EndInv, EndUnread
<1>9. WatchedOrKnown'
  <2> SUFFICES ASSUME iopen, NEW k \in 1..Len(ients), dir'[ients[k].path] # 0,
                      ients[k].path \notin lost', ients[k].wd # 0
               PROVE  [wd |-> ients[k].wd, ino |-> dir'[ients[k].path]] \in watches
    BY <1>1 DEF WatchedOrKnown
  <2>1. ients[k].path # p
    BY <1>1, <1>7 DEF WInv, EndInv
  <2> QED BY <2>1, <1>1, <1>2, <1>7, <1>t DEF WInv, WatchedOrKnown
<1> QED BY <1>4, <1>5, <1>6, <1>8, <1>9 DEF WInv

\* An event is queued for a change.
LEMMA FileChangedKeeps ==
  ASSUME WInv, NEW p \in Paths, FileChanged(p)
  PROVE  WInv'
<1>1. PICK wd \in WatchOf(dir[p]) : ievents' = Append(ievents, [wd |-> wd, modify |-> TRUE])
  BY DEF FileChanged
<1>2. /\ UNCHANGED <<dir, inodes, watches, wds, ients, iopen, lost>>
      /\ dirty' \in {dirty, dirty \cup {p}} /\ (dirty' = dirty \/ p \in Listed)
  BY DEF FileChanged, kernel
<1>3. wd \in Nat
  BY <1>1 DEF WatchOf, WInv, WatchTypes
<1>4. [wd |-> wd, modify |-> TRUE] \in IEvent /\ ievents \in Seq(IEvent)
  BY <1>3 DEF IEvent, WInv, WatchTypes
<1>5. /\ ievents' \in Seq(IEvent)
      /\ \A k \in 1..Len(ievents) : k \in 1..Len(ievents') /\ ievents'[k] = ievents[k]
  BY <1>1, <1>4, AppendedTo
<1>6. WatchTypes'
  BY <1>2, <1>5 DEF WInv, WatchTypes
<1>7. InotifyTypeOK'
  BY <1>2, ListedSame DEF WInv, InotifyTypeOK
<1>8. FilesInv' /\ OwnWatch' /\ WatchedOrKnown'
  BY <1>2, SMTT(20) DEF WInv, FilesInv, OwnWatch, WatchedOrKnown
<1>9. EndInv'
  BY <1>2, <1>5 DEF WInv, EndInv, EndUnread
<1> QED BY <1>6, <1>7, <1>8, <1>9 DEF WInv

\* A file goes: its watch tells of it.
LEMMA FileRemovedKeeps ==
  ASSUME WInv, NEW p \in Paths, FileRemoved(p)
  PROVE  WInv'
<1> DEFINE W == {w \in watches : w.ino = dir[p]}
           ev == [wd |-> (CHOOSE w \in W : TRUE).wd, modify |-> FALSE]
<1>1. /\ dir[p] # 0 /\ dir' = [dir EXCEPT ![p] = 0] /\ dirty' = dirty \ {p}
      /\ ievents' = IF W = {} THEN ievents ELSE Append(ievents, ev)
      /\ watches' = watches \/ watches' = watches \ W
      /\ UNCHANGED <<inodes, wds, ients, iopen, lost>>
  BY DEF FileRemoved
<1>t. /\ inodes \in Nat /\ wds \in Nat /\ dir \in [Paths -> 0..inodes]
      /\ watches \subseteq [wd : 1..wds, ino : 1..inodes] /\ ievents \in Seq(IEvent)
      /\ \A k \in 1..Len(ients) : ients[k].path \in Paths
  BY EntryTypes DEF WInv, WatchTypes
<1>2. dir' \in [Paths -> 0..inodes'] /\ dir'[p] = 0 /\ \A q \in Paths : q # p => dir'[q] = dir[q]
  BY <1>1, <1>t
<1>3. W # {} => ev \in IEvent /\ \A w \in W : w.wd = ev.wd
  <2> SUFFICES ASSUME W # {} PROVE ev \in IEvent /\ \A w \in W : w.wd = ev.wd
    OBVIOUS
  <2>1. (CHOOSE w \in W : TRUE) \in W
    OBVIOUS
  <2>2. \A v, w \in W : v.wd = w.wd
    BY DEF WInv, InotifyTypeOK
  <2>3. ev.wd = (CHOOSE w \in W : TRUE).wd
    OBVIOUS
  <2>4. (CHOOSE w \in W : TRUE).wd \in Nat
    BY <2>1, <1>t
  <2> QED BY <2>1, <2>2, <2>3, <2>4 DEF IEvent
<1>e. ev.modify = FALSE
  OBVIOUS
<1> HIDE DEF ev
<1>4. /\ ievents' \in Seq(IEvent)
      /\ \A k \in 1..Len(ievents) : k \in 1..Len(ievents') /\ ievents'[k] = ievents[k]
      /\ W # {} => \E k \in 1..Len(ievents') : ievents'[k] = ev
  <2>1. CASE W = {}
    BY <2>1, <1>1, <1>t
  <2>2. CASE W # {}
    BY <2>2, <1>1, <1>3, <1>t, AppendedTo
  <2> QED BY <2>1, <2>2
<1>5. watches' \subseteq watches /\ \A w \in watches : w.ino # dir[p] => w \in watches'
  BY <1>1
<1> HIDE DEF W
<1>6. WatchTypes'
  BY <1>1, <1>2, <1>4, <1>5 DEF WInv, WatchTypes
<1>7. InotifyTypeOK'
  BY <1>1, <1>5, ListedSame DEF WInv, InotifyTypeOK
<1>8. FilesInv' /\ OwnWatch'
  BY <1>1, <1>2, <1>5, <1>t DEF WInv, FilesInv, OwnWatch
<1>9. WatchedOrKnown'
  <2> SUFFICES ASSUME iopen, NEW k \in 1..Len(ients), dir'[ients[k].path] # 0,
                      ients[k].path \notin lost, ients[k].wd # 0
               PROVE  [wd |-> ients[k].wd, ino |-> dir'[ients[k].path]] \in watches'
    BY <1>1 DEF WatchedOrKnown
  <2>1. ients[k].path # p /\ dir'[ients[k].path] = dir[ients[k].path]
    BY <1>2, <1>t
  <2>2. [wd |-> ients[k].wd, ino |-> dir[ients[k].path]] \in watches
    BY <2>1 DEF WInv, WatchedOrKnown
  <2>3. dir[ients[k].path] # dir[p]
    BY <2>1, <1>1, <1>t DEF WInv, FilesInv
  <2> QED BY <2>1, <2>2, <2>3, <1>5
<1>10. EndInv'
  <2> SUFFICES ASSUME iopen, NEW k \in 1..Len(ients), dir'[ients[k].path] = 0,
                      ients[k].path \notin lost, ients[k].wd # 0
               PROVE  \E i \in 1..Len(ievents') :
                        ievents'[i] = [wd |-> ients[k].wd, modify |-> FALSE]
    BY <1>1 DEF EndInv, EndUnread
  <2>1. CASE ients[k].path # p
    <3>1. EndUnread(ients[k].wd)
      BY <2>1, <1>2, <1>t DEF WInv, EndInv
    <3> QED BY <3>1, <1>4 DEF EndUnread
  <2>2. CASE ients[k].path = p
    <3>1. [wd |-> ients[k].wd, ino |-> dir[p]] \in watches
      BY <2>2, <1>1 DEF WInv, WatchedOrKnown
    <3>2. [wd |-> ients[k].wd, ino |-> dir[p]] \in W
      BY <3>1 DEF W
    <3>3. ev.wd = ients[k].wd /\ ev \in IEvent
      BY <3>2, <1>3
    <3>4. ev = [wd |-> ients[k].wd, modify |-> FALSE]
      BY <3>3, <1>e DEF IEvent
    <3> QED BY <3>2, <3>4, <1>4
  <2> QED BY <2>1, <2>2
<1> QED BY <1>6, <1>7, <1>8, <1>9, <1>10 DEF WInv

\* inotify_add_watch: the file has the watch that is returned, and no other.
LEMMA AddWatchProperties ==
  ASSUME WInv, NEW p \in Paths, dir[p] # 0, AddWatch(p), UNCHANGED <<dir, inodes>>
  PROVE  /\ wds' \in Nat /\ wds <= wds' /\ Watched(p) \in 1..wds'
         /\ watches \subseteq watches'
         /\ [wd |-> Watched(p), ino |-> dir[p]] \in watches'
         /\ watches' \subseteq [wd : 1..wds', ino : 1..inodes']
         /\ \A v, w \in watches' : v.wd = w.wd <=> v.ino = w.ino
         /\ \A w \in watches' : w \in watches \/ wds < w.wd
         /\ \A w \in watches' : w.wd = Watched(p) => w.ino = dir[p]
<1> DEFINE new == [wd |-> Watched(p), ino |-> dir[p]]
           W == WatchOf(dir[p])
<1>1. /\ wds' = (IF Watched(p) > wds THEN wds + 1 ELSE wds)
      /\ watches' = watches \cup {new}
  BY DEF AddWatch
<1>t. /\ inodes \in Nat /\ wds \in Nat /\ dir[p] \in 1..inodes /\ UNCHANGED inodes
      /\ watches \subseteq [wd : 1..wds, ino : 1..inodes]
      /\ \A v, w \in watches : v.wd = w.wd <=> v.ino = w.ino
  BY DEF WInv, WatchTypes, InotifyTypeOK
<1>2. CASE W # {}
  <2>1. Watched(p) \in W
    BY <1>2 DEF Watched
  <2>2. PICK w \in watches : w.ino = dir[p] /\ w.wd = Watched(p)
    BY <2>1 DEF WatchOf
  <2>3. w = new
    BY <2>2, <1>t
  <2>4. watches' = watches /\ wds' = wds /\ Watched(p) \in 1..wds
    BY <2>2, <2>3, <1>1, <1>t
  <2> QED BY <2>2, <2>3, <2>4, <1>t
<1>3. CASE W = {}
  <2>1. Watched(p) = wds + 1 /\ wds' = wds + 1
    BY <1>3, <1>1, <1>t DEF Watched
  <2>2. \A w \in watches : w.ino # dir[p] /\ w.wd # wds + 1
    BY <1>3, <1>t DEF WatchOf
  <2>3. new.wd = wds + 1 /\ new.ino = dir[p] /\ new \in [wd : 1..wds + 1, ino : 1..inodes]
    BY <2>1, <1>t
  <2> HIDE DEF new
  <2>4. watches' \subseteq [wd : 1..wds + 1, ino : 1..inodes]
    BY <2>3, <1>1, <1>t
  <2>5. \A v, w \in watches' : v.wd = w.wd <=> v.ino = w.ino
    BY <2>2, <2>3, <1>1, <1>t
  <2>6. /\ \A w \in watches' : w \in watches \/ wds < w.wd
        /\ \A w \in watches' : w.wd = wds + 1 => w.ino = dir[p]
    BY <2>2, <2>3, <1>1, <1>t
  <2> QED BY <2>1, <2>4, <2>5, <2>6, <1>1, <1>t DEF new
<1> QED BY <1>2, <1>3

\* A watch made for the path of an entry, new or not, that gets its number.
LEMMA WatchKeeps ==
  ASSUME WInv, NEW p \in Paths, dir[p] # 0, AddWatch(p),
         UNCHANGED <<dir, inodes, ievents, iopen, lost>>,
         ients' \in Seq(IEnt), NEW n \in 1..Len(ients'),
         ients'[n] = [path |-> p, wd |-> Watched(p)],
         \A k \in 1..Len(ients') : k # n => k \in 1..Len(ients) /\ ients'[k] = ients[k],
         dirty' \subseteq Listed'
  PROVE  WInv'
<1>1. /\ wds' \in Nat /\ wds <= wds' /\ Watched(p) \in 1..wds'
      /\ watches \subseteq watches'
      /\ [wd |-> Watched(p), ino |-> dir[p]] \in watches'
      /\ watches' \subseteq [wd : 1..wds', ino : 1..inodes']
      /\ \A v, w \in watches' : v.wd = w.wd <=> v.ino = w.ino
      /\ \A w \in watches' : w \in watches \/ wds < w.wd
      /\ \A w \in watches' : w.wd = Watched(p) => w.ino = dir[p]
  BY AddWatchProperties
<1>2. ients'[n].path = p /\ ients'[n].wd = Watched(p)
  OBVIOUS
<1>t. /\ wds \in Nat
      /\ \A k \in 1..Len(ients) : ients[k].path \in Paths /\ ients[k].wd \in 0..wds
  BY DEF WInv, WatchTypes, InotifyTypeOK
<1>3. WatchTypes'
  BY <1>1 DEF WInv, WatchTypes
<1>4. InotifyTypeOK'
  <2>1. \A k \in 1..Len(ients') : ients'[k].path \in Paths /\ ients'[k].wd \in 0..wds'
    BY <1>1, <1>2, <1>t, SMTT(20)
  <2> QED BY <2>1, <1>1 DEF WInv, InotifyTypeOK
<1>5. FilesInv'
  BY DEF WInv, FilesInv
<1>6. OwnWatch'
  <2> SUFFICES ASSUME NEW k \in 1..Len(ients'), NEW w \in watches', NEW q \in Paths,
                      w.wd = ients'[k].wd, dir[q] = w.ino
               PROVE  q = ients'[k].path
    BY DEF OwnWatch
  <2>1. CASE k = n
    BY <2>1, <1>1, <1>2 DEF WInv, FilesInv
  <2>2. CASE k # n
    <3>1. k \in 1..Len(ients) /\ ients'[k] = ients[k] /\ ients[k].wd <= wds
      BY <2>2, <1>t
    <3>2. w \in watches
      BY <3>1, <1>1, <1>t
    <3> QED BY <3>1, <3>2 DEF WInv, OwnWatch
  <2> QED BY <2>1, <2>2
<1>7. EndInv'
  BY <1>2 DEF WInv, EndInv, EndUnread
<1>8. WatchedOrKnown'
  BY <1>1, <1>2 DEF WInv, WatchedOrKnown
<1> QED BY <1>3, <1>4, <1>5, <1>6, <1>7, <1>8 DEF WInv

\* hp_inotify_add
LEMMA AddKeeps ==
  ASSUME WInv, NEW p \in Paths, hp_inotify_add(p)
  PROVE  WInv'
<1> DEFINE e == [path |-> p, wd |-> Watched(p)]
<1>1. /\ dir[p] # 0 /\ AddWatch(p) /\ ients' = Append(ients, e)
      /\ UNCHANGED <<dir, inodes, ievents, iopen, dirty, lost>>
  BY DEF hp_inotify_add
<1>2. e \in IEnt /\ ients \in Seq(IEnt)
  <2>1. UNCHANGED <<dir, inodes>>
    BY <1>1
  <2>2. wds' \in Nat /\ Watched(p) \in 1..wds'
    BY <2>1, <1>1, AddWatchProperties
  <2>3. Watched(p) \in Nat
    BY <2>2
  <2> QED BY <2>3 DEF IEnt, WInv, WatchTypes
<1> HIDE DEF e
<1>3. /\ ients' \in Seq(IEnt) /\ Len(ients) + 1 \in 1..Len(ients')
      /\ ients'[Len(ients) + 1] = e
      /\ \A k \in 1..Len(ients) : k \in 1..Len(ients') /\ ients'[k] = ients[k]
      /\ \A k \in 1..Len(ients') : k # Len(ients) + 1 => k \in 1..Len(ients)
  BY <1>1, <1>2, AppendedTo
<1>4. dirty' \subseteq Listed'
  BY <1>1, <1>3 DEF Listed, WInv, InotifyTypeOK
<1> QED BY <1>1, <1>3, <1>4, WatchKeeps DEF e

\* epoll_before_wait watches a path again that is back.
LEMMA BeforeWaitKeeps ==
  ASSUME WInv, epoll_before_wait
  PROVE  WInv'
<1>1. PICK n \in Missing :
        /\ AddWatch(ients[n].path)
        /\ ients' = [ients EXCEPT ![n].wd = Watched(ients[n].path)]
        /\ UNCHANGED <<dir, inodes, ievents, iopen, dirty, lost>>
  BY DEF epoll_before_wait
<1>2. /\ n \in 1..Len(ients) /\ ients[n].path \in Paths /\ dir[ients[n].path] # 0
      /\ ients \in Seq(IEnt) /\ Len(ients) \in Nat
      /\ \A k \in 1..Len(ients) : ients[k] \in IEnt
  BY EntryTypes DEF Missing, WInv, WatchTypes
<1>3. Watched(ients[n].path) \in Nat
  <2>1. UNCHANGED <<dir, inodes>>
    BY <1>1
  <2>2. wds' \in Nat /\ Watched(ients[n].path) \in 1..wds'
    BY <2>1, <1>1, <1>2, AddWatchProperties
  <2> QED BY <2>2
<1> DEFINE e == [path |-> ients[n].path, wd |-> Watched(ients[n].path)]
<1>4. e \in IEnt /\ e = [ients[n] EXCEPT !.wd = Watched(ients[n].path)] /\ e.path = ients[n].path
  BY <1>2, <1>3 DEF IEnt
<1>5. ients' = [ients EXCEPT ![n] = e]
  BY <1>1, <1>4
<1>6. ients' \in Seq(IEnt) /\ Len(ients') = Len(ients) /\ ients'[n] = e
      /\ \A k \in 1..Len(ients) : k # n => ients'[k] = ients[k]
  BY <1>2, <1>4, <1>5
<1>7. dirty' \subseteq Listed'
  <2>1. \A k \in 1..Len(ients) : ients'[k].path = ients[k].path
    BY <1>2, <1>4, <1>6
  <2> QED BY <2>1, <1>1, <1>6 DEF Listed, WInv, InotifyTypeOK
<1>8. /\ n \in 1..Len(ients')
      /\ \A k \in 1..Len(ients') : k # n => k \in 1..Len(ients) /\ ients'[k] = ients[k]
  BY <1>2, <1>6
<1>9. ients'[n] = [path |-> ients[n].path, wd |-> Watched(ients[n].path)]
  BY <1>6
<1> QED BY <1>1, <1>2, <1>6, <1>7, <1>8, <1>9, WatchKeeps

\* hp_inotify_del: entries that shared the watch are noted as lost.
LEMMA DelKeeps ==
  ASSUME WInv, NEW p \in Paths, hp_inotify_del(p)
  PROVE  WInv'
<1>1. PICK k \in 1..Len(ients) :
        /\ RmWatch(ients[k].wd)
        /\ ients' = RemoveAt(ients, k)
        /\ LET others == {ients'[j].path : j \in {i \in 1..Len(ients') :
                                 ients'[i].wd = ients[k].wd /\ ients[k].wd # 0}}
           IN  /\ lost' = lost \cup others
               /\ dirty' = dirty \ ({ients[k].path} \cup others)
  BY DEF hp_inotify_del
<1>2. UNCHANGED <<dir, inodes, wds, iopen>>
  BY DEF hp_inotify_del
<1>t. /\ ients \in Seq(IEnt) /\ Len(ients) \in Nat /\ ievents \in Seq(IEvent) /\ wds \in Nat
      /\ \A j \in 1..Len(ients) : ients[j].path \in Paths /\ ients[j].wd \in 0..wds
      /\ watches \subseteq [wd : 1..wds, ino : 1..inodes]
  BY EntryTypes DEF WInv, WatchTypes, InotifyTypeOK
<1>3. /\ ients' \in Seq(IEnt) /\ Len(ients') = Len(ients) - 1
      /\ \A m \in 1..Len(ients') : Kept(m, k) \in 1..Len(ients) /\ ients'[m] = ients[Kept(m, k)]
      /\ \A j \in 1..Len(ients) : j # k => \E m \in 1..Len(ients') : j = Kept(m, k)
  <2> DEFINE r == RemoveAt(ients, k)
  <2>1. /\ r \in Seq(IEnt) /\ Len(r) = Len(ients) - 1
        /\ \A m \in 1..Len(r) : Kept(m, k) \in 1..Len(ients) /\ r[m] = ients[Kept(m, k)]
        /\ \A j \in 1..Len(ients) : j # k => \E m \in 1..Len(r) : j = Kept(m, k)
    BY <1>t, RemovedFrom
  <2>2. ients' = r
    BY <1>1
  <2> HIDE DEF r
  <2> QED BY <2>1, <2>2
<1>4. /\ watches' = {w \in watches : w.wd # ients[k].wd}
      /\ ievents' \in Seq(IEvent)
      /\ \A j \in 1..Len(ievents) : j \in 1..Len(ievents') /\ ievents'[j] = ievents[j]
  <2> DEFINE ev == [wd |-> ients[k].wd, modify |-> FALSE]
  <2>1. ev \in IEvent
    BY <1>t DEF IEvent
  <2>2. /\ watches' = {w \in watches : w.wd # ients[k].wd}
        /\ ievents' = Append(ievents, ev) \/ ievents' = ievents
    BY <1>1 DEF RmWatch
  <2> HIDE DEF ev
  <2>3. CASE ievents' = ievents
    <3>1. \A j \in 1..Len(ievents) : j \in 1..Len(ievents')
      BY <2>3
    <3> QED BY <3>1, <2>2, <2>3, <1>t
  <2>4. CASE ievents' = Append(ievents, ev)
    BY <2>1, <2>2, <2>4, <1>t, AppendedTo
  <2> QED BY <2>2, <2>3, <2>4
<1>5. /\ lost \subseteq lost' /\ lost' \subseteq Paths
      /\ \A m \in 1..Len(ients') : ients'[m].wd = ients[k].wd /\ ients[k].wd # 0
                                     => ients'[m].path \in lost'
  BY <1>1, <1>3, <1>t DEF WInv, InotifyTypeOK
<1>6. WatchTypes'
  BY <1>2, <1>3, <1>4 DEF WInv, WatchTypes
<1>7. dirty' \subseteq Listed'
  <2> SUFFICES ASSUME NEW q \in dirty, q # ients[k].path PROVE q \in Listed'
    BY <1>1
  <2>1. PICK j \in 1..Len(ients) : ients[j].path = q /\ j # k
    BY DEF WInv, InotifyTypeOK, Listed
  <2>2. PICK m \in 1..Len(ients') : j = Kept(m, k)
    BY <2>1, <1>3
  <2>3. ients'[m].path = q
    BY <2>1, <2>2, <1>3
  <2> QED BY <2>3 DEF Listed
<1>8. InotifyTypeOK'
  <2>1. \A m \in 1..Len(ients') : ients'[m].path \in Paths /\ ients'[m].wd \in 0..wds'
    BY <1>2, <1>3, <1>t
  <2> QED BY <2>1, <1>4, <1>5, <1>7 DEF WInv, InotifyTypeOK
<1>9. FilesInv' /\ OwnWatch'
  BY <1>2, <1>3, <1>4 DEF WInv, FilesInv, OwnWatch
<1>10. EndInv'
  <2> SUFFICES ASSUME iopen, NEW m \in 1..Len(ients'), dir[ients'[m].path] = 0,
                      ients'[m].path \notin lost', ients'[m].wd # 0
               PROVE  \E i \in 1..Len(ievents') :
                        ievents'[i] = [wd |-> ients'[m].wd, modify |-> FALSE]
    BY <1>2 DEF EndInv, EndUnread
  <2>1. Kept(m, k) \in 1..Len(ients) /\ ients'[m] = ients[Kept(m, k)]
    BY <1>3
  <2>2. PICK i \in 1..Len(ievents) : ievents[i] = [wd |-> ients'[m].wd, modify |-> FALSE]
    BY <2>1, <1>5 DEF WInv, EndInv, EndUnread
  <2> QED BY <2>2, <1>4
<1>11. WatchedOrKnown'
  <2> SUFFICES ASSUME iopen, NEW m \in 1..Len(ients'), dir[ients'[m].path] # 0,
                      ients'[m].path \notin lost', ients'[m].wd # 0
               PROVE  [wd |-> ients'[m].wd, ino |-> dir[ients'[m].path]] \in watches'
    BY <1>2 DEF WatchedOrKnown
  <2>1. Kept(m, k) \in 1..Len(ients) /\ ients'[m] = ients[Kept(m, k)]
    BY <1>3
  <2>2. [wd |-> ients'[m].wd, ino |-> dir[ients'[m].path]] \in watches
    BY <2>1, <1>5 DEF WInv, WatchedOrKnown
  <2>3. ients'[m].wd # ients[k].wd
    BY <1>5
  <2> QED BY <2>2, <2>3, <1>4
<1> QED BY <1>6, <1>8, <1>9, <1>10, <1>11 DEF WInv

\* hp_inotify_iread_event: entries whose file is gone are known not to be watched; no
\* other entry had their watch, unless it was lost.
LEMMA ReadEventKeeps ==
  ASSUME WInv, hp_inotify_iread_event
  PROVE  WInv'
<1> DEFINE ev == Head(ievents)
           E == {k \in 1..Len(ients) : ients[k].wd = ev.wd}
           Gone == {k \in E : dir[ients[k].path] = 0}
           end == [wd |-> ev.wd, modify |-> FALSE]
<1>1. /\ iopen /\ ievents # <<>>
      /\ ients' = [k \in DOMAIN ients |-> IF k \in Gone THEN Unwatched(ients[k]) ELSE ients[k]]
      /\ watches' = IF Gone # {} THEN {w \in watches : w.wd # ev.wd} ELSE watches
      /\ dirty' \subseteq dirty
      /\ ievents' = Append(Tail(ievents), end) \/ ievents' = Tail(ievents)
      /\ UNCHANGED <<dir, inodes, wds, iopen, lost>>
  BY DEF hp_inotify_iread_event
<1>t. /\ ients \in Seq(IEnt) /\ Len(ients) \in Nat /\ ievents \in Seq(IEvent) /\ wds \in Nat
      /\ DOMAIN ients = 1..Len(ients)
      /\ \A j \in 1..Len(ients) : ients[j].path \in Paths /\ ients[j].wd \in 0..wds
                                  /\ ients[j] \in IEnt
      /\ watches \subseteq [wd : 1..wds, ino : 1..inodes]
  BY EntryTypes, LenProperties DEF WInv, WatchTypes, InotifyTypeOK
<1>2. \A e \in IEnt : Unwatched(e) \in IEnt /\ Unwatched(e).path = e.path /\ Unwatched(e).wd = 0
  BY DEF Unwatched, IEnt
<1>3. /\ Tail(ievents) \in Seq(IEvent) /\ ev \in IEvent /\ ievents[1] = ev
      /\ \A k \in 1..Len(ievents) :
           k = 1 \/ (k - 1 \in 1..Len(Tail(ievents)) /\ Tail(ievents)[k - 1] = ievents[k])
  BY <1>1, <1>t, TailOf
<1>4. end \in IEvent
  BY <1>3 DEF IEvent
<1>5. /\ ievents' \in Seq(IEvent)
      /\ \A k \in 1..Len(Tail(ievents)) :
           k \in 1..Len(ievents') /\ ievents'[k] = Tail(ievents)[k]
  <2> HIDE DEF end
  <2>1. CASE ievents' = Tail(ievents)
    <3>1. \A k \in 1..Len(Tail(ievents)) : k \in 1..Len(ievents')
      BY <2>1
    <3> QED BY <3>1, <2>1, <1>3
  <2>2. CASE ievents' = Append(Tail(ievents), end)
    BY <2>2, <1>3, <1>4, AppendedTo
  <2> QED BY <2>1, <2>2, <1>1
<1>g. \A k \in Gone : k \in 1..Len(ients) /\ ients[k].wd = ev.wd /\ dir[ients[k].path] = 0
  OBVIOUS
<1>h. \A k \in 1..Len(ients) :
        ients[k].wd = ev.wd /\ dir[ients[k].path] = 0 => k \in Gone
  OBVIOUS
<1> HIDE DEF ev, E, Gone, end
<1>6. /\ ients' \in Seq(IEnt) /\ Len(ients') = Len(ients)
      /\ \A k \in 1..Len(ients) :
           /\ k \in Gone => ients'[k].path = ients[k].path /\ ients'[k].wd = 0
           /\ k \notin Gone => ients'[k] = ients[k]
  <2>1. \A k \in 1..Len(ients) :
          (IF k \in Gone THEN Unwatched(ients[k]) ELSE ients[k]) \in IEnt
    BY <1>2, <1>t
  <2>2. ients' \in [1..Len(ients) -> IEnt]
    BY <2>1, <1>1, <1>t
  <2>3. ients' \in Seq(IEnt) /\ Len(ients') = Len(ients)
    BY <2>2, <1>t, FcnIsSeq
  <2> QED BY <2>3, <1>1, <1>2, <1>t
<1>7. /\ watches' \subseteq watches
      /\ \A w \in watches : w.wd # ev.wd \/ Gone = {} => w \in watches'
      /\ Gone # {} => \A w \in watches' : w.wd # ev.wd
  BY <1>1
<1>8. \A k \in 1..Len(ients) : ients'[k].path = ients[k].path
  BY <1>6
<1>u. dir' = dir /\ lost' = lost
  BY <1>1
<1>9. WatchTypes'
  BY <1>1, <1>5, <1>6, <1>7 DEF WInv, WatchTypes
<1>10. InotifyTypeOK'
  <2>1. \A k \in 1..Len(ients') : ients'[k].path \in Paths /\ ients'[k].wd \in 0..wds'
    BY <1>1, <1>6, <1>t
  <2>2. Listed' = Listed
    BY <1>6, <1>8 DEF Listed
  <2> QED BY <2>1, <2>2, <1>1, <1>7 DEF WInv, InotifyTypeOK
<1>11. FilesInv'
  BY <1>1 DEF WInv, FilesInv
<1>12. OwnWatch'
  <2>1. \A w \in watches' : w.wd # 0
    BY <1>7, <1>t
  <2> SUFFICES ASSUME NEW k \in 1..Len(ients), NEW w \in watches, NEW q \in Paths,
                      w.wd = ients'[k].wd, w.wd # 0, dir[q] = w.ino
               PROVE  q = ients[k].path
    BY <2>1, <1>1, <1>6, <1>7, <1>8, ZenonT(60) DEF OwnWatch
  <2>2. ients'[k] = ients[k]
    BY <1>6
  <2> QED BY <2>2 DEF WInv, OwnWatch
<1>13. EndInv'
  <2> SUFFICES ASSUME NEW k \in 1..Len(ients'), dir'[ients'[k].path] = 0,
                      ients'[k].path \notin lost', ients'[k].wd # 0
               PROVE  \E i \in 1..Len(ievents') :
                        ievents'[i] = [wd |-> ients'[k].wd, modify |-> FALSE]
    BY DEF EndInv, EndUnread
  <2>0. k \in 1..Len(ients) /\ dir[ients[k].path] = 0 /\ ients[k].path \notin lost
    BY <1>u, <1>6, <1>8
  <2>1. k \notin Gone /\ ients'[k] = ients[k] /\ ients[k].wd # ev.wd
    BY <2>0, <1>6, <1>h
  <2>2. PICK i \in 1..Len(ievents) : ievents[i] = [wd |-> ients[k].wd, modify |-> FALSE]
    BY <2>0, <2>1, <1>1 DEF WInv, EndInv, EndUnread
  <2>3. i # 1
    BY <2>1, <2>2, <1>3
  <2>4. i - 1 \in 1..Len(ievents') /\ ievents'[i - 1] = ievents[i]
    BY <2>3, <1>3, <1>5
  <2> QED BY <2>1, <2>2, <2>4
<1>14. WatchedOrKnown'
  <2> SUFFICES ASSUME NEW k \in 1..Len(ients'), dir'[ients'[k].path] # 0,
                      ients'[k].path \notin lost', ients'[k].wd # 0
               PROVE  [wd |-> ients'[k].wd, ino |-> dir'[ients'[k].path]] \in watches'
    BY DEF WatchedOrKnown
  <2>0. /\ k \in 1..Len(ients) /\ dir[ients[k].path] # 0 /\ ients[k].path \notin lost
        /\ dir'[ients'[k].path] = dir[ients[k].path]
    BY <1>u, <1>6, <1>8
  <2>1. ients'[k] = ients[k]
    BY <2>0, <1>6, <1>g
  <2>2. [wd |-> ients[k].wd, ino |-> dir[ients[k].path]] \in watches
    BY <2>0, <2>1, <1>1 DEF WInv, WatchedOrKnown
  <2>3. ASSUME NEW g \in Gone, ients[k].wd = ev.wd
        PROVE  FALSE
    <3>1. /\ g \in 1..Len(ients) /\ ients[g].wd = ients[k].wd /\ dir[ients[g].path] = 0
      BY <2>3, <1>g
    <3>2. ients[k].path = ients[g].path
      BY <3>1, <2>0, <2>2, <1>t DEF WInv, OwnWatch
    <3> QED BY <3>1, <3>2, <2>0
  <2>4. [wd |-> ients[k].wd, ino |-> dir[ients[k].path]].wd = ients[k].wd
    OBVIOUS
  <2> QED BY <2>0, <2>1, <2>2, <2>3, <2>4, <1>7
<1> QED BY <1>9, <1>10, <1>11, <1>12, <1>13, <1>14 DEF WInv

\* The descriptor is closed: there are no watches.
LEMMA EndsKeep ==
  ASSUME WInv, hp_inotify_ends
  PROVE  WInv'
<1>1. /\ iopen' = FALSE /\ watches' = {} /\ ievents' = <<>> /\ dirty' = {}
      /\ ients' \in {ients, <<>>} /\ UNCHANGED <<dir, inodes, wds, lost>>
  BY DEF hp_inotify_ends
<1>2. <<>> \in Seq(IEvent) /\ <<>> \in Seq(IEnt) /\ Len(<<>>) = 0 /\ 1..0 = {}
  BY EmptySeq
<1>3. WatchTypes'
  BY <1>1, <1>2 DEF WInv, WatchTypes
<1>4. InotifyTypeOK'
  BY <1>1, <1>2 DEF WInv, InotifyTypeOK
<1> QED BY <1>1, <1>3, <1>4 DEF WInv, FilesInv, OwnWatch, EndInv, WatchedOrKnown

\* An entry whose file exists is watched or known not to be, while others remove and
\* make files at any time, with the exceptions that are noted.
THEOREM WatchesAreSound == InotifySpec => []WatchesSound
<1>1. WInv /\ [InotifyNext]_inotifyVars => WInv'
  <2> SUFFICES ASSUME WInv, [InotifyNext]_inotifyVars PROVE WInv'
    OBVIOUS
  <2>1. ASSUME NEW p \in Paths, FileMade(p) \/ FileChanged(p) \/ FileRemoved(p)
        PROVE  WInv'
    BY <2>1, FileMadeKeeps, FileChangedKeeps, FileRemovedKeeps
  <2>2. ASSUME NEW p \in Paths, hp_inotify_add(p) \/ hp_inotify_del(p)
        PROVE  WInv'
    BY <2>2, AddKeeps, DelKeeps
  <2>3. CASE hp_inotify_iread_event
    BY <2>3, ReadEventKeeps
  <2>4. CASE epoll_before_wait
    BY <2>4, BeforeWaitKeeps
  <2>5. CASE hp_inotify_ends
    BY <2>5, EndsKeep
  <2>6. CASE UNCHANGED inotifyVars
    BY <2>6 DEF inotifyVars, WInv, WatchTypes, InotifyTypeOK, FilesInv, OwnWatch, EndInv,
                WatchedOrKnown, EndUnread, Listed
  <2> QED BY <2>1, <2>2, <2>3, <2>4, <2>5, <2>6 DEF InotifyNext
<1>2. WInv => WatchesSound
  BY DEF WInv, WatchesSound
<1> QED BY <1>1, <1>2, InotifyStarts, PTL DEF InotifySpec

-----------------------------------------------------------------------------
(* HpIocp: the tables *)

Block == [id : Ids, kind : {"r", "w"}, n : Nat, nbuf : {-1, 0, 1}]
OutBlock == [id : Ids, kind : {"w"}, n : Nat, nbuf : {1}]
Item == [id : Ids, obuf : Seq(OutBlock), ibuf : Seq(Nat), rm : BOOLEAN]
Pd == [id : Ids, flags : {{"IN"}, {"IN", "OUT"}}]
UserMessage ==
  [op : {"FD"}, id : Ids, flags : SUBSET {"OUT", "ERR"}]
    \cup {[op |-> "IO", id |-> b.id, flags |-> b] : b \in Block}
PollMessage ==
  [op : {"ADD"}, id : Ids, flags : {{"IN"}}]
    \cup [op : {"RM"}, id : Ids, flags : {{}, {"IN", "OUT"}}]

ItemIds == {items[k].id : k \in 1..Len(items)}
PdIds == {pds[k].id : k \in 1..Len(pds)}

\* The tables and their two threads; there are no items once the ids are used up.
TableTypes ==
  /\ items \in Seq(Item) /\ pq \in Seq(PollMessage) /\ pds \in Seq(Pd)
  /\ ioid \in -1..MaxAdds
  /\ tpc \in {"drain", "scan", "exit"} /\ tk \in Nat /\ tk >= 1
  /\ ipc \in {"msgs", "items", "quit", "drained", "done"} /\ ii \in Nat /\ ii >= 1
  /\ Quit <=> ipc \in {"drained", "done"}
  /\ Quit => items = <<>>

\* What is under way between the threads and the system.
QueueTypes ==
  /\ uq \in Seq(UserMessage) /\ port \in Seq(Block \cup {QuitPacket})
  /\ held \in [PortThreads -> Block \cup {QuitPacket, Idle}]
  /\ sending \subseteq OutBlock
  /\ arrived \in [Ids -> Nat] /\ taken \in [Ids -> Nat] /\ written \in [Ids -> Nat]
  /\ got \in [Ids -> Seq(Nat)] /\ released \subseteq OutBlock

ItemsInv ==
  /\ Len(items) <= MaxItems
  /\ \A k \in 1..Len(items) : Len(items[k].ibuf) <= IBufMax /\ items[k].id < ioid
  /\ \A k, j \in 1..Len(items) : k < j => items[k].id < items[j].id

\* What the poll thread will find: an ADD is for a socket it does not have, an RM for
\* one it has by then.
Added(m, id) == m.op = "ADD" /\ m.id = id
Ends(m, id) == m.op = "RM" /\ m.flags = {} /\ m.id = id
Known(id) == id \in PdIds \/ \E j \in 1..Len(pq) : Added(pq[j], id)
Ended(id) == \E j \in 1..Len(pq) : Ends(pq[j], id)

AddIsNew ==
  \A i \in 1..Len(pq) : pq[i].op = "ADD" =>
    pq[i].id \notin PdIds /\ \A j \in 1..i - 1 : pq[j].id # pq[i].id
RmIsKnown ==
  \A i \in 1..Len(pq) : pq[i].op = "RM" =>
    /\ pq[i].id \in PdIds \/ \E j \in 1..i - 1 : Added(pq[j], pq[i].id)
    /\ \A j \in 1..i - 1 : ~Ends(pq[j], pq[i].id)
ItemsAreKnown ==
  \A id \in Ids : /\ Known(id) => id < ioid
                  /\ id \in ItemIds <=> Known(id) /\ ~Ended(id)

PdsInv == \A j, k \in 1..Len(pds) : pds[j].id = pds[k].id => j = k
TableInv == PdsInv /\ (~Quit => AddIsNew /\ RmIsKnown /\ ItemsAreKnown)

TInv == TableTypes /\ QueueTypes /\ ItemsInv /\ TableInv

\* Elements of the tables and of the poll thread's queue.
LEMMA TableElements ==
  ASSUME TableTypes
  PROVE  /\ Len(items) \in Nat /\ Len(pq) \in Nat /\ Len(pds) \in Nat
         /\ MaxAdds \in Nat /\ Ids = 0..MaxAdds - 1
         /\ \A k \in 1..Len(items) : /\ items[k] \in Item /\ items[k].id \in Ids
                                     /\ items[k].obuf \in Seq(OutBlock)
                                     /\ items[k].ibuf \in Seq(Nat) /\ items[k].rm \in BOOLEAN
         /\ \A k \in 1..Len(pq) : /\ pq[k] \in PollMessage /\ pq[k].id \in Ids
                                  /\ pq[k].op \in {"ADD", "RM"}
         /\ \A k \in 1..Len(pds) : /\ pds[k] \in Pd /\ pds[k].id \in Ids
                                   /\ pds[k].flags \in {{"IN"}, {"IN", "OUT"}}
         /\ ItemIds \subseteq Ids /\ PdIds \subseteq Ids
<1>1. /\ Len(items) \in Nat /\ Len(pq) \in Nat /\ Len(pds) \in Nat
      /\ \A k \in 1..Len(items) : items[k] \in Item
      /\ \A k \in 1..Len(pq) : pq[k] \in PollMessage
      /\ \A k \in 1..Len(pds) : pds[k] \in Pd
  BY ElementOfSeq, LenProperties DEF TableTypes
<1>2. /\ \A e \in Item : /\ e.id \in Ids /\ e.obuf \in Seq(OutBlock)
                         /\ e.ibuf \in Seq(Nat) /\ e.rm \in BOOLEAN
      /\ \A e \in PollMessage : e.id \in Ids /\ e.op \in {"ADD", "RM"}
      /\ \A e \in Pd : e.id \in Ids /\ e.flags \in {{"IN"}, {"IN", "OUT"}}
  BY DEF Item, PollMessage, Pd
<1>3. MaxAdds \in Nat /\ Ids = 0..MaxAdds - 1
  BY IocpAssumption DEF Ids
<1> QED BY <1>1, <1>2, <1>3 DEF ItemIds, PdIds

\* A message for the poll thread about an item that is there.
LEMMA MessagePosted ==
  ASSUME TInv, ~Quit, NEW id \in ItemIds, NEW flags \in {{}, {"IN", "OUT"}},
         pq' = Post(pq, "RM", id, flags), UNCHANGED <<pds, ioid>>,
         ItemIds' = IF flags = {} THEN ItemIds \ {id} ELSE ItemIds
  PROVE  pq' \in Seq(PollMessage) /\ TableInv'
<1> DEFINE m == [op |-> "RM", id |-> id, flags |-> flags]
<1>t. /\ ItemIds \subseteq Ids /\ pq \in Seq(PollMessage) /\ Len(pq) \in Nat
      /\ \A k \in 1..Len(pq) : pq[k].id \in Ids
  BY TableElements DEF TInv, TableTypes
<1>1. m \in PollMessage /\ pq' = Append(pq, m) /\ m.op = "RM" /\ m.id = id /\ m.flags = flags
  BY <1>t DEF PollMessage, Post
<1> HIDE DEF m
<1>2. /\ pq' \in Seq(PollMessage) /\ Len(pq') = Len(pq) + 1
      /\ \A k \in 1..Len(pq) : k \in 1..Len(pq') /\ pq'[k] = pq[k]
      /\ Len(pq) + 1 \in 1..Len(pq') /\ pq'[Len(pq) + 1] = m
      /\ \A k \in 1..Len(pq') : k \in Nat /\ (k = Len(pq) + 1 \/ k \in 1..Len(pq))
  BY <1>1, <1>t, AppendedTo
<1>3. PdIds' = PdIds /\ PdsInv' /\ ~Quit'
  BY DEF PdIds, PdsInv, TInv, TableInv, Quit
<1>i. AddIsNew /\ RmIsKnown /\ ItemsAreKnown /\ Known(id) /\ ~Ended(id)
  BY <1>t DEF TInv, TableInv, ItemsAreKnown
<1>4. \A k \in 1..Len(pq') : \A j \in 1..k - 1 : j \in 1..Len(pq) /\ pq'[j] = pq[j]
  BY <1>2, <1>t
<1>5. AddIsNew'
  <2> SUFFICES ASSUME NEW i \in 1..Len(pq'), pq'[i].op = "ADD"
               PROVE  pq'[i].id \notin PdIds /\ \A j \in 1..i - 1 : pq'[j].id # pq'[i].id
    BY <1>3 DEF AddIsNew
  <2>1. i \in 1..Len(pq) /\ pq'[i] = pq[i]
    BY <1>1, <1>2
  <2> QED BY <2>1, <1>4, <1>i DEF AddIsNew
<1>6. RmIsKnown'
  <2> SUFFICES ASSUME NEW i \in 1..Len(pq'), pq'[i].op = "RM"
               PROVE  /\ pq'[i].id \in PdIds \/ \E j \in 1..i - 1 : Added(pq'[j], pq'[i].id)
                      /\ \A j \in 1..i - 1 : ~Ends(pq'[j], pq'[i].id)
    BY <1>3 DEF RmIsKnown
  <2>1. CASE i \in 1..Len(pq)
    BY <2>1, <1>2, <1>4, <1>i DEF RmIsKnown
  <2>2. CASE i = Len(pq) + 1
    <3>1. pq'[i].id = id
      BY <2>2, <1>1, <1>2
    <3>2. i - 1 = Len(pq)
      BY <2>2, <1>t
    <3> QED BY <3>1, <3>2, <1>2, <1>i DEF Known, Ended
  <2> QED BY <2>1, <2>2, <1>2
<1>7. \A x \in Ids : /\ Known(x)' <=> Known(x)
                     /\ Ended(x)' <=> Ended(x) \/ (flags = {} /\ x = id)
  BY <1>1, <1>2, <1>3 DEF Known, Ended, Added, Ends
<1>8. ItemsAreKnown'
  BY <1>7, <1>i DEF ItemsAreKnown
<1> QED BY <1>2, <1>3, <1>5, <1>6, <1>8 DEF TableInv

\* An item that changes in place.
LEMMA ItemsEdited ==
  ASSUME TInv, items' \in Seq(Item), Len(items') = Len(items), UNCHANGED ioid,
         \A k \in 1..Len(items) :
           items'[k].id = items[k].id /\ Len(items'[k].ibuf) <= IBufMax
  PROVE  ItemsInv' /\ ItemIds' = ItemIds
<1>1. ItemIds' = ItemIds
  BY DEF ItemIds
<1> QED BY <1>1 DEF ItemsInv, TInv

\* No two items have the same id: they ascend.
LEMMA IdsDiffer ==
  ASSUME TInv
  PROVE  \A m, j \in 1..Len(items) : m # j => items[m].id # items[j].id
<1>t. /\ Len(items) \in Nat /\ Ids = 0..MaxAdds - 1 /\ MaxAdds \in Nat
      /\ \A m \in 1..Len(items) : items[m].id \in Ids
  BY TableElements DEF TInv
<1>1. \A m, j \in 1..Len(items) : m # j => m < j \/ j < m
  BY <1>t
<1>2. \A m, j \in 1..Len(items) : m < j => items[m].id < items[j].id
  BY DEF TInv, ItemsInv
<1> QED BY <1>1, <1>2, <1>t

\* hp_iocp_item_on_error: the item goes, and the poll thread is told.
LEMMA ItemEnds ==
  ASSUME TInv, ~Quit, NEW k \in 1..Len(items), hp_iocp_item_on_error(k),
         UNCHANGED <<pds, ioid>>
  PROVE  /\ items' \in Seq(Item) /\ pq' \in Seq(PollMessage)
         /\ ItemsInv' /\ TableInv'
         /\ Len(items') = Len(items) - 1
         /\ \A m \in 1..Len(items') : /\ Kept(m, k) \in 1..Len(items) /\ Kept(m, k) # k
                                      /\ items'[m] = items[Kept(m, k)]
                                      /\ items'[m].id # items[k].id
<1>1. items' = RemoveAt(items, k) /\ pq' = Post(pq, "RM", items[k].id, {})
  BY DEF hp_iocp_item_on_error
<1>t. /\ items \in Seq(Item) /\ Len(items) \in Nat /\ k \in Nat
      /\ MaxItems \in Nat /\ ItemIds \subseteq Ids /\ Ids = 0..MaxAdds - 1 /\ MaxAdds \in Nat
      /\ \A m \in 1..Len(items) : items[m].id \in Ids
  BY TableElements, IocpAssumption DEF TInv, TableTypes
<1>2. /\ items' \in Seq(Item) /\ Len(items') = Len(items) - 1
      /\ \A m \in 1..Len(items') : /\ Kept(m, k) \in 1..Len(items) /\ Kept(m, k) # k
                                   /\ items'[m] = items[Kept(m, k)]
      /\ \A m, j \in 1..Len(items') : m < j => Kept(m, k) < Kept(j, k)
      /\ \A j \in 1..Len(items) : j # k => \E m \in 1..Len(items') : j = Kept(m, k)
  <2> DEFINE r == RemoveAt(items, k)
  <2>1. /\ r \in Seq(Item) /\ Len(r) = Len(items) - 1
        /\ \A m \in 1..Len(r) : /\ Kept(m, k) \in 1..Len(items) /\ Kept(m, k) # k
                                /\ r[m] = items[Kept(m, k)]
        /\ \A m, j \in 1..Len(r) : m < j => Kept(m, k) < Kept(j, k)
        /\ \A j \in 1..Len(items) : j # k => \E m \in 1..Len(r) : j = Kept(m, k)
    BY <1>t, RemovedFrom
  <2>2. items' = r
    BY <1>1
  <2> HIDE DEF r
  <2> QED BY <2>1, <2>2
<1>3. \A m, j \in 1..Len(items) : m # j => items[m].id # items[j].id
  BY IdsDiffer
<1>4. \A m \in 1..Len(items') : items'[m].id # items[k].id
  BY <1>2, <1>3
<1>5. ItemIds' = ItemIds \ {items[k].id}
  <2>1. \A m \in 1..Len(items') : items'[m].id \in ItemIds \ {items[k].id}
    BY <1>2, <1>4 DEF ItemIds
  <2>2. \A j \in 1..Len(items) : j # k => \E m \in 1..Len(items') : items'[m].id = items[j].id
    BY <1>2
  <2>3. ItemIds' = {items'[m].id : m \in 1..Len(items')}
    BY DEF ItemIds
  <2>4. ItemIds' \subseteq ItemIds \ {items[k].id}
    BY <2>1, <2>3
  <2>5. ASSUME NEW x \in ItemIds, x # items[k].id PROVE x \in ItemIds'
    <3>1. PICK j \in 1..Len(items) : x = items[j].id
      BY DEF ItemIds
    <3> QED BY <3>1, <2>2, <2>3, <2>5
  <2> QED BY <2>4, <2>5
<1>6. ItemsInv'
  <2>1. Len(items') <= MaxItems
    BY <1>2, <1>t DEF TInv, ItemsInv
  <2>2. \A m \in 1..Len(items') : Len(items'[m].ibuf) <= IBufMax /\ items'[m].id < ioid
    BY <1>2 DEF TInv, ItemsInv
  <2>3. \A m, j \in 1..Len(items') : m < j => items'[m].id < items'[j].id
    BY <1>2 DEF TInv, ItemsInv
  <2> QED BY <2>1, <2>2, <2>3 DEF ItemsInv
<1>7. items[k].id \in ItemIds
  BY DEF ItemIds
<1>8. pq' \in Seq(PollMessage) /\ TableInv'
  BY <1>1, <1>5, <1>7, MessagePosted
<1> QED BY <1>2, <1>4, <1>6, <1>8

\* The threads that look at neither table leave what is said of them as it is.
LEMMA TablesSame ==
  ASSUME TInv, UNCHANGED <<items, ioid>>, UNCHANGED <<pq, pds>>
  PROVE  ItemsInv' /\ TableInv'
BY DEF TInv, ItemsInv, TableInv, PdsInv, AddIsNew, RmIsKnown, ItemsAreKnown, Known, Ended,
       ItemIds, PdIds, Quit

\* Items change in place: the poll thread's table and its messages still agree with them.
LEMMA SameIds ==
  ASSUME TInv, UNCHANGED <<ioid, pds>>, UNCHANGED pq, ItemIds' = ItemIds
  PROVE  TableInv'
BY DEF TInv, TableInv, PdsInv, AddIsNew, RmIsKnown, ItemsAreKnown, Known, Ended, PdIds, Quit

\* One item changes in place.
LEMMA ItemReplaced ==
  ASSUME TInv, UNCHANGED ioid, NEW k \in 1..Len(items), NEW e \in Item,
         e.id = items[k].id, Len(e.ibuf) <= IBufMax, items' = [items EXCEPT ![k] = e]
  PROVE  /\ items' \in Seq(Item) /\ Len(items') = Len(items)
         /\ \A j \in 1..Len(items) : items'[j] = IF j = k THEN e ELSE items[j]
         /\ ItemsInv' /\ ItemIds' = ItemIds
<1>1. items \in Seq(Item)
  BY DEF TInv, TableTypes
<1>2. /\ items' \in Seq(Item) /\ Len(items') = Len(items)
      /\ \A j \in 1..Len(items) : items'[j] = IF j = k THEN e ELSE items[j]
  BY <1>1, ExceptSeq
<1>3. \A j \in 1..Len(items) :
        items'[j].id = items[j].id /\ Len(items'[j].ibuf) <= IBufMax
  BY <1>2 DEF TInv, ItemsInv
<1> QED BY <1>2, <1>3, ItemsEdited

\* hp_iocp_add: a new item, and an ADD for a socket that the poll thread does not have.
LEMMA AddTables ==
  ASSUME TInv, hp_iocp_add
  PROVE  TInv'
<1> DEFINE e == [id |-> ioid, obuf |-> <<>>, ibuf |-> <<>>, rm |-> FALSE]
           m == [op |-> "ADD", id |-> ioid, flags |-> {"IN"}]
<1>1. /\ ipc = "msgs" /\ ioid < MaxAdds /\ Len(items) < MaxItems
      /\ ioid' = ioid + 1
      /\ UNCHANGED <<uq, pds, tpc, tk, port, held, sending, ipc, ii, arrived, taken, written>>
      /\ UNCHANGED <<got, released>>
  BY DEF hp_iocp_add, UserCalls, pollThread, userThread, sockets
<1>2. items' = Append(items, e) /\ pq' = Append(pq, m)
  BY DEF hp_iocp_add, hp_iocp_do_socket, Post
<1>t. /\ ItemIds \subseteq Ids /\ PdIds \subseteq Ids /\ Ids = 0..MaxAdds - 1
      /\ MaxAdds \in Nat /\ ioid \in 0..MaxAdds - 1 /\ ~Quit
      /\ \A k \in 1..Len(pq) : pq[k].id \in Ids /\ pq[k].op \in {"ADD", "RM"}
      /\ items \in Seq(Item) /\ pq \in Seq(PollMessage)
      /\ Len(items) \in Nat /\ Len(pq) \in Nat /\ MaxItems \in Nat /\ IBufMax \in Nat
  BY <1>1, TableElements, IocpAssumption DEF TInv, TableTypes, Quit
<1>3. /\ e \in Item /\ e.id = ioid /\ Len(e.ibuf) = 0
      /\ m \in PollMessage /\ m.op = "ADD" /\ m.id = ioid
  <2>1. <<>> \in Seq(OutBlock) /\ <<>> \in Seq(Nat) /\ Len(<<>>) = 0
    BY EmptySeq
  <2> QED BY <2>1, <1>t DEF Item, PollMessage
<1> HIDE DEF e, m
<1>4. /\ items' \in Seq(Item) /\ Len(items') = Len(items) + 1
      /\ \A k \in 1..Len(items) : k \in 1..Len(items') /\ items'[k] = items[k]
      /\ Len(items) + 1 \in 1..Len(items') /\ items'[Len(items) + 1] = e
      /\ \A k \in 1..Len(items') : k \in Nat /\ (k = Len(items) + 1 \/ k \in 1..Len(items))
  BY <1>2, <1>3, <1>t, AppendedTo
<1>5. /\ pq' \in Seq(PollMessage) /\ Len(pq') = Len(pq) + 1
      /\ \A k \in 1..Len(pq) : k \in 1..Len(pq') /\ pq'[k] = pq[k]
      /\ Len(pq) + 1 \in 1..Len(pq') /\ pq'[Len(pq) + 1] = m
      /\ \A k \in 1..Len(pq') : k \in Nat /\ (k = Len(pq) + 1 \/ k \in 1..Len(pq))
  BY <1>2, <1>3, <1>t, AppendedTo
<1>6. ItemsInv'
  <2>1. Len(items') <= MaxItems
    BY <1>1, <1>4, <1>t
  <2>2. \A k \in 1..Len(items) : /\ Len(items[k].ibuf) <= IBufMax /\ items[k].id < ioid
                                 /\ items[k].id \in Ids
    BY TableElements DEF TInv, ItemsInv
  <2>3. \A k \in 1..Len(items') : Len(items'[k].ibuf) <= IBufMax /\ items'[k].id < ioid'
    <3> SUFFICES ASSUME NEW k \in 1..Len(items')
                 PROVE  Len(items'[k].ibuf) <= IBufMax /\ items'[k].id < ioid'
      OBVIOUS
    <3>1. CASE k \in 1..Len(items)
      BY <3>1, <2>2, <1>1, <1>4, <1>t, SMTT(20)
    <3>2. CASE k = Len(items) + 1
      <4>1. items'[k] = e
        BY <3>2, <1>4
      <4> QED BY <4>1, <1>1, <1>3, <1>t
    <3> QED BY <3>1, <3>2, <1>4
  <2>4. ASSUME NEW k \in 1..Len(items'), NEW j \in 1..Len(items'), k < j
        PROVE  items'[k].id < items'[j].id
    <3>1. k \in 1..Len(items) /\ items'[k] = items[k]
      BY <2>4, <1>4, <1>t
    <3>2. CASE j = Len(items) + 1
      BY <3>1, <3>2, <2>2, <1>3, <1>4
    <3>3. CASE j \in 1..Len(items)
      BY <2>4, <3>1, <3>3, <1>4 DEF TInv, ItemsInv
    <3> QED BY <3>2, <3>3, <1>4
  <2> QED BY <2>1, <2>3, <2>4 DEF ItemsInv
<1>7. \A x \in Ids : x \in ItemIds' <=> x \in ItemIds \/ x = ioid
  BY <1>3, <1>4 DEF ItemIds
<1>8. PdIds' = PdIds /\ PdsInv' /\ ~Quit'
  BY <1>1, <1>t DEF PdIds, PdsInv, TInv, TableInv, Quit
<1>i. AddIsNew /\ RmIsKnown /\ ItemsAreKnown
  BY <1>t DEF TInv, TableInv
<1>9. ioid \notin PdIds /\ \A k \in 1..Len(pq) : pq[k].id # ioid
  <2>1. ~Known(ioid)
    BY <1>i, <1>t DEF ItemsAreKnown
  <2>2. ASSUME NEW k \in 1..Len(pq), pq[k].id = ioid PROVE FALSE
    <3>1. pq[k].op = "RM"
      BY <2>1, <2>2, <1>t DEF Known, Added
    <3>2. PICK j \in 1..k - 1 : Added(pq[j], ioid)
      BY <3>1, <2>1, <2>2, <1>i DEF RmIsKnown, Known
    <3>3. j \in 1..Len(pq)
      BY <1>t
    <3> QED BY <3>2, <3>3, <2>1 DEF Known
  <2> QED BY <2>1, <2>2 DEF Known
<1>10. \A k \in 1..Len(pq') : \A j \in 1..k - 1 : j \in 1..Len(pq) /\ pq'[j] = pq[j]
  BY <1>5, <1>t
<1>11. AddIsNew'
  <2> SUFFICES ASSUME NEW i \in 1..Len(pq'), pq'[i].op = "ADD"
               PROVE  pq'[i].id \notin PdIds /\ \A j \in 1..i - 1 : pq'[j].id # pq'[i].id
    BY <1>8 DEF AddIsNew
  <2>1. CASE i \in 1..Len(pq)
    BY <2>1, <1>5, <1>10, <1>i DEF AddIsNew
  <2>2. CASE i = Len(pq) + 1
    BY <2>2, <1>3, <1>5, <1>9, <1>10
  <2> QED BY <2>1, <2>2, <1>5
<1>12. RmIsKnown'
  <2> SUFFICES ASSUME NEW i \in 1..Len(pq'), pq'[i].op = "RM"
               PROVE  /\ pq'[i].id \in PdIds \/ \E j \in 1..i - 1 : Added(pq'[j], pq'[i].id)
                      /\ \A j \in 1..i - 1 : ~Ends(pq'[j], pq'[i].id)
    BY <1>8 DEF RmIsKnown
  <2>1. i \in 1..Len(pq) /\ pq'[i] = pq[i]
    BY <1>3, <1>5
  <2> QED BY <2>1, <1>10, <1>i DEF RmIsKnown
<1>13. \A x \in Ids : /\ Known(x)' <=> Known(x) \/ x = ioid
                      /\ Ended(x)' <=> Ended(x)
  BY <1>3, <1>5, <1>8 DEF Known, Ended, Added, Ends
<1>14. ~Ended(ioid)
  BY <1>9 DEF Ended, Ends
<1>15. ItemsAreKnown'
  BY <1>1, <1>7, <1>13, <1>14, <1>i, <1>t DEF ItemsAreKnown
<1>16. TableTypes'
  BY <1>1, <1>4, <1>5, <1>8, <1>t DEF TInv, TableTypes, Quit
<1>17. QueueTypes'
  BY <1>1 DEF TInv, QueueTypes
<1> QED BY <1>6, <1>8, <1>11, <1>12, <1>15, <1>16, <1>17 DEF TInv, TableInv

\* hp_iocp_write: the block is queued and POLLOUT asked for, or the block is deleted.
LEMMA WriteTables ==
  ASSUME TInv, NEW id \in Ids, hp_iocp_write(id)
  PROVE  TInv'
<1> DEFINE ol == hp_iocp_ol(id, "w", written[id] + 1)
           K == {k \in Entry(items, id) : ~items[k].rm}
<1>1. /\ ipc = "msgs" /\ written' = [written EXCEPT ![id] = @ + 1]
      /\ UNCHANGED <<uq, pds, tpc, tk, port, held, sending, ipc, ii, arrived, taken, ioid>>
      /\ UNCHANGED got
  BY DEF hp_iocp_write, UserCalls, pollThread, userThread, sockets
<1>2. \/ /\ K # {}
         /\ items' = [k \in DOMAIN items |->
              IF k \in K THEN [items[k] EXCEPT !.obuf = Append(@, ol)] ELSE items[k]]
         /\ pq' = Post(pq, "RM", id, {"IN", "OUT"}) /\ UNCHANGED released
      \/ released' = released \cup {ol} /\ UNCHANGED <<items, pq>>
  BY DEF hp_iocp_write
<1>t. /\ items \in Seq(Item) /\ Len(items) \in Nat /\ DOMAIN items = 1..Len(items) /\ ~Quit
      /\ \A k \in 1..Len(items) : /\ items[k] \in Item /\ items[k].id \in Ids
                                  /\ items[k].obuf \in Seq(OutBlock)
                                  /\ items[k].ibuf \in Seq(Nat) /\ items[k].rm \in BOOLEAN
  BY <1>1, TableElements, LenProperties DEF TInv, TableTypes
<1>3. ol \in OutBlock /\ written' \in [Ids -> Nat]
  BY <1>1 DEF TInv, QueueTypes, OutBlock, hp_iocp_ol
<1>4. K \subseteq 1..Len(items) /\ \A k \in K : items[k].id = id
  BY DEF Entry
<1> HIDE DEF ol, K
<1>5. /\ items' \in Seq(Item) /\ pq' \in Seq(PollMessage) /\ ItemsInv' /\ TableInv'
      /\ released' \subseteq OutBlock
  <2>1. CASE /\ K # {}
             /\ items' = [k \in DOMAIN items |->
                  IF k \in K THEN [items[k] EXCEPT !.obuf = Append(@, ol)] ELSE items[k]]
             /\ pq' = Post(pq, "RM", id, {"IN", "OUT"}) /\ UNCHANGED released
    <3> DEFINE new(k) == IF k \in K THEN [items[k] EXCEPT !.obuf = Append(@, ol)] ELSE items[k]
               f == [k \in 1..Len(items) |-> new(k)]
    <3>1. \A k \in 1..Len(items) :
            new(k) \in Item /\ new(k).id = items[k].id /\ new(k).ibuf = items[k].ibuf
      <4> SUFFICES ASSUME NEW k \in 1..Len(items)
                   PROVE  /\ new(k) \in Item /\ new(k).id = items[k].id
                          /\ new(k).ibuf = items[k].ibuf
        OBVIOUS
      <4>1. Append(items[k].obuf, ol) \in Seq(OutBlock)
        BY <1>3, <1>t, AppendedTo
      <4> QED BY <4>1, <1>t DEF Item
    <3>2. f \in [1..Len(items) -> Item] /\ \A k \in 1..Len(items) : f[k] = new(k)
      BY <3>1
    <3>3. items' = f
      BY <2>1, <1>t
    <3> HIDE DEF f, new
    <3>4. items' \in Seq(Item) /\ Len(items') = Len(items)
      BY <3>2, <3>3, <1>t, FcnIsSeq
    <3>5. \A k \in 1..Len(items) : items'[k].id = items[k].id /\ Len(items'[k].ibuf) <= IBufMax
      BY <3>1, <3>2, <3>3 DEF TInv, ItemsInv
    <3>6. ItemsInv' /\ ItemIds' = ItemIds
      BY <3>4, <3>5, <1>1, ItemsEdited
    <3>7. id \in ItemIds /\ {"IN", "OUT"} # {}
      BY <2>1, <1>4 DEF ItemIds
    <3>8. pq' \in Seq(PollMessage) /\ TableInv'
      BY <3>6, <3>7, <2>1, <1>1, <1>t, MessagePosted
    <3> QED BY <3>4, <3>6, <3>8, <2>1 DEF TInv, QueueTypes
  <2>2. CASE released' = released \cup {ol} /\ UNCHANGED <<items, pq>>
    <3>1. UNCHANGED <<items, ioid>> /\ UNCHANGED <<pq, pds>>
      BY <2>2, <1>1
    <3> QED BY <3>1, <2>2, <1>3, TablesSame DEF TInv, TableTypes, QueueTypes
  <2> QED BY <2>1, <2>2, <1>2
<1>6. TableTypes'
  BY <1>1, <1>5, <1>t DEF TInv, TableTypes, Quit
<1>7. QueueTypes'
  BY <1>1, <1>3, <1>5 DEF TInv, QueueTypes
<1> QED BY <1>5, <1>6, <1>7 DEF TInv

\* hp_iocp_rm: the item keeps its place and its id.
LEMMA RmTables ==
  ASSUME TInv, NEW id \in Ids, hp_iocp_rm(id)
  PROVE  TInv'
<1>1. /\ ipc = "msgs"
      /\ UNCHANGED <<uq, pds, tpc, tk, port, held, sending, ipc, ii, arrived, taken, ioid>>
      /\ UNCHANGED <<pq, written, got, released>>
  BY DEF hp_iocp_rm, UserCalls, pollThread, userThread, sockets
<1>2. PICK k \in Entry(items, id) : items' = [items EXCEPT ![k].rm = TRUE]
  BY DEF hp_iocp_rm
<1> DEFINE e == [items[k] EXCEPT !.rm = TRUE]
<1>t. k \in 1..Len(items) /\ items[k] \in Item /\ items \in Seq(Item) /\ ~Quit
  BY <1>1, TableElements DEF TInv, TableTypes, Entry
<1>3. e \in Item /\ e.id = items[k].id /\ e.ibuf = items[k].ibuf
  BY <1>t DEF Item
<1>4. items' = [items EXCEPT ![k] = e]
  BY <1>2
<1> HIDE DEF e
<1>5. Len(e.ibuf) <= IBufMax /\ UNCHANGED ioid
  BY <1>1, <1>3, <1>t DEF TInv, ItemsInv
<1>6. items' \in Seq(Item) /\ ItemsInv' /\ ItemIds' = ItemIds
  BY <1>3, <1>4, <1>5, <1>t, ItemReplaced
<1>7. TableInv'
  BY <1>1, <1>6, SameIds
<1>8. TableTypes'
  BY <1>1, <1>6, <1>t DEF TInv, TableTypes, Quit
<1>9. QueueTypes'
  BY <1>1 DEF TInv, QueueTypes
<1> QED BY <1>6, <1>7, <1>8, <1>9 DEF TInv

\* The user's thread takes a message: what is left to show of its handler.
LEMMA MessageTaken ==
  ASSUME TInv, NextMessage
  PROVE  /\ UNCHANGED <<ioid, pds>> /\ ~Quit
         /\ uq # <<>> /\ uq' = Tail(uq) /\ uq \in Seq(UserMessage)
         /\ Head(uq) \in UserMessage
         /\ items' \in Seq(Item) /\ pq' \in Seq(PollMessage) /\ ItemsInv' /\ TableInv'
            /\ sending' \subseteq OutBlock /\ got' \in [Ids -> Seq(Nat)]
            /\ released' \subseteq OutBlock => TInv'
<1>1. /\ ipc = "msgs" /\ uq # <<>> /\ uq' = Tail(uq)
      /\ UNCHANGED <<ioid, ipc, ii, pds, tpc, tk, port, held, arrived, taken, written>>
  BY DEF NextMessage, userThread, pollThread, sockets
<1>2. uq \in Seq(UserMessage)
  BY DEF TInv, QueueTypes
<1>3. uq' \in Seq(UserMessage) /\ Head(uq) \in UserMessage
  BY <1>1, <1>2, TailOf
<1>4. ~Quit /\ ~Quit'
  BY <1>1 DEF TInv, TableTypes, Quit
<1>5. ASSUME items' \in Seq(Item), pq' \in Seq(PollMessage)
      PROVE  TableTypes'
  BY <1>1, <1>4, <1>5 DEF TInv, TableTypes
<1>6. ASSUME sending' \subseteq OutBlock, got' \in [Ids -> Seq(Nat)], released' \subseteq OutBlock
      PROVE  QueueTypes'
  BY <1>1, <1>3, <1>6 DEF TInv, QueueTypes
<1> QED BY <1>1, <1>2, <1>3, <1>4, <1>5, <1>6 DEF TInv

\* HP_IOCP_WM_FD: a block is given to the system, or the item ends.
LEMMA FdTables ==
  ASSUME TInv, HandleFd
  PROVE  TInv'
<1>1. NextMessage /\ UNCHANGED got
  BY DEF HandleFd
<1>2. /\ UNCHANGED <<ioid, pds>> /\ ~Quit /\ Head(uq) \in UserMessage
      /\ items' \in Seq(Item) /\ pq' \in Seq(PollMessage) /\ ItemsInv' /\ TableInv'
         /\ sending' \subseteq OutBlock /\ got' \in [Ids -> Seq(Nat)]
         /\ released' \subseteq OutBlock => TInv'
  BY <1>1, MessageTaken
<1>3. UNCHANGED ioid
  BY <1>2
<1>t. /\ items \in Seq(Item) /\ pq \in Seq(PollMessage) /\ sending \subseteq OutBlock
      /\ got' \in [Ids -> Seq(Nat)] /\ released \subseteq OutBlock
      /\ \A k \in 1..Len(items) : /\ items[k] \in Item /\ items[k].obuf \in Seq(OutBlock)
                                  /\ Len(items[k].ibuf) <= IBufMax
  BY <1>1, TableElements DEF TInv, TableTypes, QueueTypes, ItemsInv
<1>4. CASE Dropped /\ UNCHANGED <<sending, sent, released>>
  <2>1. UNCHANGED <<items, ioid>> /\ UNCHANGED <<pq, pds>>
    BY <1>2, <1>4 DEF Dropped
  <2> QED BY <2>1, <1>2, <1>4, <1>t, TablesSame
<1>5. ASSUME NEW k \in 1..Len(items), hp_iocp_item_on_error(k),
             sending' \subseteq OutBlock, released' \subseteq OutBlock
      PROVE  TInv'
  BY <1>2, <1>5, <1>t, ItemEnds
<1>6. ASSUME NEW k \in 1..Len(items), items[k].obuf # <<>>
      PROVE  /\ Tail(items[k].obuf) \in Seq(OutBlock)
             /\ Head(items[k].obuf) \in OutBlock
  BY <1>6, <1>t, TailOf
<1>7. ASSUME NEW k \in 1..Len(items), items[k].obuf # <<>>, hp_iocp_do_write(k)
      PROVE  TInv'
  <2> DEFINE e == [items[k] EXCEPT !.obuf = Tail(@)]
  <2>1. e \in Item /\ e.id = items[k].id /\ e.ibuf = items[k].ibuf
    BY <1>6, <1>7, <1>t DEF Item
  <2>2. /\ items' = [items EXCEPT ![k] = e]
        /\ sending' = sending \cup {Head(items[k].obuf)} /\ UNCHANGED <<pq, released>>
    BY <1>7 DEF hp_iocp_do_write
  <2> HIDE DEF e
  <2>3. items' \in Seq(Item) /\ ItemsInv' /\ ItemIds' = ItemIds
    BY <2>1, <2>2, <1>3, <1>t, ItemReplaced
  <2>4. TableInv'
    BY <2>2, <2>3, <1>2, SameIds
  <2> QED BY <2>2, <2>3, <2>4, <1>2, <1>6, <1>7, <1>t
<1>8. ASSUME NEW k \in Entry(items, Head(uq).id),
             \/ /\ "ERR" \in Head(uq).flags
                /\ hp_iocp_item_on_error(k) /\ UNCHANGED <<sending, sent, released>>
             \/ /\ Head(uq).flags = {"OUT"} /\ items[k].obuf # <<>>
                /\ hp_iocp_do_write(k) \/ WSASendFails(k)
      PROVE  TInv'
  <2>1. k \in 1..Len(items)
    BY DEF Entry
  <2>2. CASE hp_iocp_item_on_error(k) /\ UNCHANGED <<sending, sent, released>>
    BY <2>1, <2>2, <1>5, <1>t
  <2>3. CASE items[k].obuf # <<>> /\ hp_iocp_do_write(k)
    BY <2>1, <2>3, <1>7
  <2>4. CASE items[k].obuf # <<>> /\ WSASendFails(k)
    <3>1. /\ hp_iocp_item_on_error(k) /\ UNCHANGED sending
          /\ released' = released \cup {Head(items[k].obuf)}
      BY <2>4 DEF WSASendFails
    <3> QED BY <3>1, <2>1, <2>4, <1>5, <1>6, <1>t
  <2> QED BY <1>8, <2>2, <2>3, <2>4
<1> QED BY <1>4, <1>8 DEF HandleFd

\* HP_IOCP_WM_IO: ibuf or obuf of the item change, or it ends.
LEMMA IoTables ==
  ASSUME TInv, HandleIo
  PROVE  TInv'
<1> DEFINE ol == Head(uq).flags
<1>1. NextMessage /\ Head(uq).op = "IO" /\ UNCHANGED sending
  BY DEF HandleIo
<1>2. /\ UNCHANGED <<ioid, pds>> /\ ~Quit /\ Head(uq) \in UserMessage
      /\ items' \in Seq(Item) /\ pq' \in Seq(PollMessage) /\ ItemsInv' /\ TableInv'
         /\ sending' \subseteq OutBlock /\ got' \in [Ids -> Seq(Nat)]
         /\ released' \subseteq OutBlock => TInv'
  BY <1>1, MessageTaken
<1>3. UNCHANGED ioid
  BY <1>2
<1>t. /\ items \in Seq(Item) /\ pq \in Seq(PollMessage) /\ sending' \subseteq OutBlock
      /\ got \in [Ids -> Seq(Nat)] /\ released \subseteq OutBlock
      /\ \A k \in 1..Len(items) : /\ items[k] \in Item /\ items[k].obuf \in Seq(OutBlock)
                                  /\ items[k].ibuf \in Seq(Nat)
                                  /\ Len(items[k].ibuf) <= IBufMax
      /\ IBufMax \in Nat
  BY <1>1, TableElements, IocpAssumption DEF TInv, TableTypes, QueueTypes, ItemsInv
<1>4. ol \in Block /\ ol.id \in Ids /\ ol.n \in Nat
  BY <1>1, <1>2 DEF UserMessage, Block
<1>5. released' = IF ol.kind = "w" THEN released \cup {hp_iocp_ol(ol.id, "w", ol.n)}
                  ELSE released
  BY DEF HandleIo
<1>6. \/ Entry(items, ol.id) = {} /\ Dropped /\ UNCHANGED got
      \/ \E k \in Entry(items, ol.id) :
           \/ ReadDone(k, ol)
           \/ WriteDone(k, ol)
           \/ ol.nbuf = 0 /\ hp_iocp_item_on_error(k) /\ UNCHANGED got
  BY DEF HandleIo
<1> HIDE DEF ol
<1>7. hp_iocp_ol(ol.id, "w", ol.n) \in OutBlock /\ released' \subseteq OutBlock
  BY <1>4, <1>5, <1>t DEF hp_iocp_ol, OutBlock
<1>8. ASSUME UNCHANGED <<items, pq, got>>
      PROVE  TInv'
  <2>1. UNCHANGED <<items, ioid>> /\ UNCHANGED <<pq, pds>>
    BY <1>2, <1>8
  <2> QED BY <2>1, <1>2, <1>7, <1>8, <1>t, TablesSame
<1>9. ASSUME NEW k \in 1..Len(items), hp_iocp_item_on_error(k), UNCHANGED got
      PROVE  TInv'
  BY <1>2, <1>7, <1>9, <1>t, ItemEnds
<1>10. ASSUME NEW k \in 1..Len(items)
       PROVE  /\ Buffered(k, ol) \in Seq(Nat)
              /\ Len(Buffered(k, ol)) = Len(items[k].ibuf) + 1
              /\ Len(items[k].ibuf) \in Nat
  BY <1>4, <1>t, AppendedTo DEF Buffered
<1>11. ASSUME NEW k \in 1..Len(items), NEW e \in Item, e.id = items[k].id,
              Len(e.ibuf) <= IBufMax, items' = [items EXCEPT ![k] = e],
              got' \in [Ids -> Seq(Nat)],
              \/ UNCHANGED pq
              \/ ol.id = items[k].id /\ pq' = Post(pq, "RM", ol.id, {"IN", "OUT"})
       PROVE  TInv'
  <2>1. items' \in Seq(Item) /\ ItemsInv' /\ ItemIds' = ItemIds
    BY <1>3, <1>11, ItemReplaced
  <2>2. CASE UNCHANGED pq
    <3>1. TableInv'
      BY <2>1, <2>2, <1>2, SameIds
    <3> QED BY <3>1, <2>1, <2>2, <1>2, <1>7, <1>11, <1>t
  <2>3. CASE ol.id = items[k].id /\ pq' = Post(pq, "RM", ol.id, {"IN", "OUT"})
    <3>1. ol.id \in ItemIds /\ {"IN", "OUT"} # {}
      BY <2>3 DEF ItemIds
    <3>2. pq' \in Seq(PollMessage) /\ TableInv'
      BY <3>1, <2>1, <2>3, <1>2, MessagePosted
    <3> QED BY <3>2, <2>1, <1>2, <1>7, <1>11, <1>t
  <2> QED BY <1>11, <2>2, <2>3
<1>12. ASSUME NEW k \in Entry(items, ol.id), ReadDone(k, ol)
       PROVE  TInv'
  <2>0. k \in 1..Len(items)
    BY DEF Entry
  <2>1. CASE /\ got' = [got EXCEPT ![ol.id] = @ \o Buffered(k, ol)]
             /\ items' = [items EXCEPT ![k].ibuf = <<>>]
             /\ UNCHANGED <<pq, closed>>
    <3> DEFINE e == [items[k] EXCEPT !.ibuf = <<>>]
    <3>1. <<>> \in Seq(Nat) /\ Len(<<>>) = 0
      BY EmptySeq
    <3>2. e \in Item /\ e.id = items[k].id /\ e.ibuf = <<>>
      BY <3>1, <2>0, <1>t DEF Item
    <3>3. items' = [items EXCEPT ![k] = e]
      BY <2>1
    <3> HIDE DEF e
    <3>4. got[ol.id] \o Buffered(k, ol) \in Seq(Nat)
      BY <2>0, <1>4, <1>10, <1>t, ConcatProperties
    <3>5. got' \in [Ids -> Seq(Nat)]
      BY <3>4, <2>1, <1>t
    <3>6. Len(e.ibuf) <= IBufMax
      BY <3>1, <3>2, <1>t
    <3> QED BY <3>2, <3>3, <3>5, <3>6, <2>0, <2>1, <1>11
  <2>2. CASE /\ HasRoom(k)
             /\ items' = [items EXCEPT ![k].ibuf = Buffered(k, ol)]
             /\ UNCHANGED <<pq, closed, got>>
    <3> DEFINE b == Buffered(k, ol)
               e == [items[k] EXCEPT !.ibuf = b]
    <3>1. b \in Seq(Nat) /\ Len(b) <= IBufMax
      BY <2>0, <2>2, <1>10, <1>t DEF HasRoom
    <3>2. items' = [items EXCEPT ![k] = e]
      BY <2>2
    <3> HIDE DEF b
    <3>3. e \in Item /\ e.id = items[k].id /\ e.ibuf = b
      BY <3>1, <2>0, <1>t DEF Item
    <3> HIDE DEF e
    <3> QED BY <3>1, <3>2, <3>3, <2>0, <2>2, <1>11, <1>t
  <2>3. CASE hp_iocp_item_on_error(k) /\ UNCHANGED got
    BY <2>0, <2>3, <1>9
  <2> QED BY <1>12, <2>1, <2>2, <2>3 DEF ReadDone
<1>13. ASSUME NEW k \in Entry(items, ol.id), WriteDone(k, ol)
       PROVE  TInv'
  <2>0. k \in 1..Len(items) /\ items[k].id = ol.id
    BY DEF Entry
  <2>1. CASE ol.nbuf = -1
    <3> DEFINE b == Append(items[k].obuf, hp_iocp_ol(ol.id, "w", ol.n))
               e == [items[k] EXCEPT !.obuf = b]
    <3>1. b \in Seq(OutBlock)
      BY <2>0, <1>7, <1>t, AppendedTo
    <3>2. /\ items' = [items EXCEPT ![k] = e]
          /\ pq' = Post(pq, "RM", ol.id, {"IN", "OUT"}) /\ UNCHANGED got
      BY <2>1, <1>13 DEF WriteDone
    <3> HIDE DEF b
    <3>3. e \in Item /\ e.id = items[k].id /\ e.ibuf = items[k].ibuf
      BY <3>1, <2>0, <1>t DEF Item
    <3> HIDE DEF e
    <3> QED BY <3>2, <3>3, <2>0, <1>11, <1>t
  <2>2. CASE ol.nbuf # -1
    BY <2>2, <1>8, <1>13 DEF WriteDone
  <2> QED BY <2>1, <2>2
<1>14. \A k \in Entry(items, ol.id) : k \in 1..Len(items)
  BY DEF Entry
<1> QED BY <1>6, <1>8, <1>9, <1>12, <1>13, <1>14 DEF Dropped

\* The poll thread handles a message: no assert fails.
LEMMA DrainTables ==
  ASSUME TInv, Drain
  PROVE  TInv'
<1> DEFINE m == Head(pq)
           K == Entry(pds, m.id)
<1>1. /\ ~Quit /\ pq # <<>> /\ pq' = Tail(pq)
      /\ UNCHANGED <<items, ioid, uq, tk, port, held, sending, ipc, ii, arrived, taken>>
      /\ UNCHANGED <<written, got, released>>
  BY DEF Drain, table, userThread, sockets
<1>2. \/ /\ m.op = "ADD" /\ K = {}
         /\ pds' = Append(pds, [id |-> m.id, flags |-> m.flags])
         /\ UNCHANGED tpc
      \/ \E k \in K :
           /\ m.op = "RM"
           /\ pds' = IF m.flags = {} THEN RemoveAt(pds, k)
                     ELSE [pds EXCEPT ![k].flags = m.flags]
           /\ UNCHANGED tpc
      \/ (m.op = "ADD") # (K = {})
  BY DEF Drain
<1>t. /\ pds \in Seq(Pd) /\ Len(pds) \in Nat /\ pq \in Seq(PollMessage) /\ Len(pq) \in Nat
      /\ \A k \in 1..Len(pq) : pq[k].id \in Ids
      /\ \A k \in 1..Len(pds) : pds[k] \in Pd
  BY TableElements DEF TInv, TableTypes
<1>3. /\ pq' \in Seq(PollMessage) /\ m \in PollMessage /\ pq[1] = m /\ 1 \in 1..Len(pq)
      /\ \A k \in 1..Len(pq') : k + 1 \in 1..Len(pq) /\ pq'[k] = pq[k + 1] /\ k \in Nat
      /\ \A k \in 1..Len(pq) : k = 1 \/ (k - 1 \in 1..Len(pq') /\ pq'[k - 1] = pq[k])
  BY <1>1, <1>t, TailOf
<1>4. /\ m.id \in Ids /\ m.op \in {"ADD", "RM"}
      /\ m.op = "ADD" => m.flags = {"IN"}
      /\ m.op = "RM" => m.flags \in {{}, {"IN", "OUT"}}
  BY <1>3 DEF PollMessage
<1>5. K = {} <=> m.id \notin PdIds
  BY DEF Entry, PdIds
<1>k. \A k \in K : k \in 1..Len(pds) /\ pds[k].id = m.id
  BY DEF Entry
<1> HIDE DEF m, K
<1>i. AddIsNew /\ RmIsKnown /\ ItemsAreKnown /\ PdsInv
  BY <1>1 DEF TInv, TableInv
<1>6. m.op = "ADD" => m.id \notin PdIds
  BY <1>3, <1>i DEF AddIsNew
<1>7. m.op = "RM" => m.id \in PdIds
  BY <1>3, <1>i DEF RmIsKnown
<1>8. ~Quit' /\ ItemIds' = ItemIds /\ ItemsInv'
  BY <1>1 DEF Quit, ItemIds, TInv, ItemsInv
<1>9. ASSUME NEW i \in 1..Len(pq'), pq'[i].op = "ADD"
      PROVE  /\ pq'[i].id \notin PdIds /\ pq'[i].id # m.id
             /\ \A j \in 1..i - 1 : pq'[j].id # pq'[i].id
  <2>1. /\ i + 1 \in 1..Len(pq) /\ pq'[i] = pq[i + 1]
        /\ pq[i + 1].id \notin PdIds /\ \A j \in 1..i : pq[j].id # pq[i + 1].id
    <3>1. i + 1 \in 1..Len(pq) /\ pq'[i] = pq[i + 1] /\ (i + 1) - 1 = i
      BY <1>3
    <3> QED BY <3>1, <1>9, <1>i DEF AddIsNew
  <2>2. 1 \in 1..i
    BY <1>3
  <2>3. \A j \in 1..i - 1 : j + 1 \in 1..i /\ j \in 1..Len(pq')
    BY <1>3
  <2> QED BY <2>1, <2>2, <2>3, <1>3
<1>10. ASSUME NEW i \in 1..Len(pq'), pq'[i].op = "RM"
       PROVE  /\ \/ pq'[i].id \in PdIds
                 \/ m.op = "ADD" /\ m.id = pq'[i].id
                 \/ \E j \in 1..i - 1 : Added(pq'[j], pq'[i].id)
              /\ ~Ends(m, pq'[i].id)
              /\ \A j \in 1..i - 1 : ~Ends(pq'[j], pq'[i].id)
  <2>1. /\ pq'[i] = pq[i + 1]
        /\ pq[i + 1].id \in PdIds \/ \E j \in 1..i : Added(pq[j], pq[i + 1].id)
        /\ \A j \in 1..i : ~Ends(pq[j], pq[i + 1].id)
    <3>1. i + 1 \in 1..Len(pq) /\ pq'[i] = pq[i + 1] /\ (i + 1) - 1 = i
      BY <1>3
    <3> QED BY <3>1, <1>10, <1>i DEF RmIsKnown
  <2>2. 1 \in 1..i
    BY <1>3
  <2>3. \A j \in 1..i - 1 : j + 1 \in 1..i /\ j \in 1..Len(pq')
    BY <1>3
  <2>4. \A j \in 1..i : j = 1 \/ (j - 1 \in 1..i - 1 /\ pq'[j - 1] = pq[j])
    <3>1. \A j \in 1..i : j \in 1..Len(pq) /\ (j = 1 \/ j - 1 \in 1..i - 1)
      BY <1>3
    <3> QED BY <3>1, <1>3
  <2>5. ~Ends(m, pq'[i].id) /\ \A j \in 1..i - 1 : ~Ends(pq'[j], pq'[i].id)
    BY <2>1, <2>2, <2>3, <1>3
  <2>6. \/ pq'[i].id \in PdIds
        \/ m.op = "ADD" /\ m.id = pq'[i].id
        \/ \E j \in 1..i - 1 : Added(pq'[j], pq'[i].id)
    BY <2>1, <2>4, <1>3, ZenonT(60) DEF Added
  <2> QED BY <2>5, <2>6
<1>11. \A x \in Ids :
         /\ (\E j \in 1..Len(pq) : Added(pq[j], x)) <=>
              (Added(m, x) \/ \E j \in 1..Len(pq') : Added(pq'[j], x))
         /\ Ended(x) <=> Ends(m, x) \/ Ended(x)'
  BY <1>3 DEF Ended
\* what is left is the table, and what follows from it
<1>12. ASSUME tpc' = tpc, pds' \in Seq(Pd), TableInv'
       PROVE  TInv'
  <2>1. TableTypes'
    BY <1>1, <1>3, <1>12 DEF TInv, TableTypes, Quit
  <2>2. QueueTypes'
    BY <1>1 DEF TInv, QueueTypes
  <2> QED BY <2>1, <2>2, <1>8, <1>12 DEF TInv
<1>13. CASE /\ m.op = "ADD" /\ K = {}
            /\ pds' = Append(pds, [id |-> m.id, flags |-> m.flags])
            /\ UNCHANGED tpc
  <2> DEFINE e == [id |-> m.id, flags |-> m.flags]
  <2>1. e \in Pd /\ e.id = m.id /\ pds' = Append(pds, e)
    BY <1>4, <1>13 DEF Pd
  <2> HIDE DEF e
  <2>2. /\ pds' \in Seq(Pd)
        /\ \A k \in 1..Len(pds) : k \in 1..Len(pds') /\ pds'[k] = pds[k]
        /\ Len(pds) + 1 \in 1..Len(pds') /\ pds'[Len(pds) + 1] = e
        /\ \A k \in 1..Len(pds') : k = Len(pds) + 1 \/ k \in 1..Len(pds)
    BY <2>1, <1>t, AppendedTo
  <2>3. \A x : x \in PdIds' <=> x \in PdIds \/ x = m.id
    BY <2>1, <2>2 DEF PdIds
  <2>4. m.id \notin PdIds
    BY <1>5, <1>13
  <2>5. PdsInv'
    <3>1. \A k \in 1..Len(pds) : pds[k].id # m.id
      BY <2>4 DEF PdIds
    <3> QED BY <3>1, <2>1, <2>2, <1>i DEF PdsInv
  <2>6. AddIsNew'
    BY <2>3, <1>9 DEF AddIsNew
  <2>7. RmIsKnown'
    BY <2>3, <1>10 DEF RmIsKnown
  <2>8. \A x \in Ids : (Known(x)' <=> Known(x)) /\ (Ended(x)' <=> Ended(x))
    BY <2>3, <1>11, <1>13 DEF Known, Added, Ends
  <2>9. ItemsAreKnown'
    BY <2>8, <1>1, <1>8, <1>i DEF ItemsAreKnown
  <2> QED BY <2>2, <2>5, <2>6, <2>7, <2>9, <1>12, <1>13 DEF TableInv
<1>14. ASSUME NEW k \in K, m.op = "RM", m.flags = {}, pds' = RemoveAt(pds, k), UNCHANGED tpc
       PROVE  TInv'
  <2>0. k \in 1..Len(pds) /\ pds[k].id = m.id /\ Ends(m, m.id)
    BY <1>14, <1>k DEF Ends
  <2>1. /\ pds' \in Seq(Pd) /\ Len(pds') = Len(pds) - 1
        /\ \A j \in 1..Len(pds') : /\ Kept(j, k) \in 1..Len(pds) /\ Kept(j, k) # k
                                   /\ pds'[j] = pds[Kept(j, k)]
        /\ \A i, j \in 1..Len(pds') : i < j => Kept(i, k) < Kept(j, k)
        /\ \A j \in 1..Len(pds) : j # k => \E i \in 1..Len(pds') : j = Kept(i, k)
    <3> DEFINE r == RemoveAt(pds, k)
    <3>1. /\ r \in Seq(Pd) /\ Len(r) = Len(pds) - 1
          /\ \A j \in 1..Len(r) : /\ Kept(j, k) \in 1..Len(pds) /\ Kept(j, k) # k
                                  /\ r[j] = pds[Kept(j, k)]
          /\ \A i, j \in 1..Len(r) : i < j => Kept(i, k) < Kept(j, k)
          /\ \A j \in 1..Len(pds) : j # k => \E i \in 1..Len(r) : j = Kept(i, k)
      BY <2>0, <1>t, RemovedFrom, ZenonT(60)
    <3>2. pds' = r
      BY <1>14
    <3> HIDE DEF r
    <3> QED BY <3>1, <3>2
  <2>2. \A i, j \in 1..Len(pds') : Kept(i, k) = Kept(j, k) => i = j
    <3> SUFFICES ASSUME NEW i \in 1..Len(pds'), NEW j \in 1..Len(pds'),
                        Kept(i, k) = Kept(j, k)
                 PROVE  i = j
      OBVIOUS
    <3>1. i < j \/ j < i \/ i = j
      OBVIOUS
    <3>2. Kept(i, k) \in 1..Len(pds) /\ Kept(j, k) \in 1..Len(pds)
      BY <2>1
    <3>3. /\ i < j => Kept(i, k) < Kept(j, k)
          /\ j < i => Kept(j, k) < Kept(i, k)
      BY <2>1
    <3> QED BY <3>1, <3>2, <3>3
  <2>3. PdsInv'
    <3> SUFFICES ASSUME NEW i \in 1..Len(pds'), NEW j \in 1..Len(pds'),
                        pds'[i].id = pds'[j].id
                 PROVE  i = j
      BY DEF PdsInv
    <3>1. /\ Kept(i, k) \in 1..Len(pds) /\ Kept(j, k) \in 1..Len(pds)
          /\ pds[Kept(i, k)].id = pds[Kept(j, k)].id
      BY <2>1
    <3> HIDE DEF Kept
    <3>2. Kept(i, k) = Kept(j, k)
      BY <3>1, <1>i DEF PdsInv
    <3> QED BY <3>2, <2>2
  <2>4. \A x : x \in PdIds' <=> x \in PdIds /\ x # m.id
    <3>1. \A j \in 1..Len(pds) : j # k => pds[j].id # m.id
      BY <2>0, <1>i DEF PdsInv
    <3>2. \A j \in 1..Len(pds') : pds'[j].id \in PdIds /\ pds'[j].id # m.id
      BY <3>1, <2>1 DEF PdIds
    <3>3. \A j \in 1..Len(pds) : j # k => \E i \in 1..Len(pds') : pds'[i].id = pds[j].id
      BY <2>1
    <3>4. ASSUME NEW x \in PdIds, x # m.id PROVE x \in PdIds'
      <4>1. PICK j \in 1..Len(pds) : pds[j].id = x
        BY DEF PdIds
      <4> QED BY <4>1, <3>3, <3>4, <2>0 DEF PdIds
    <3>5. PdIds' = {pds'[j].id : j \in 1..Len(pds')}
      BY DEF PdIds
    <3> QED BY <3>2, <3>4, <3>5
  <2>5. AddIsNew'
    BY <2>4, <1>9 DEF AddIsNew
  <2>6. RmIsKnown'
    BY <2>0, <2>4, <1>10, <1>14 DEF RmIsKnown, Ends
  <2>7. \A x \in Ids : Known(x)' <=> Known(x) /\ x # m.id
    <3>1. \A j \in 1..Len(pq') : ~Added(pq'[j], m.id)
      BY <1>9 DEF Added
    <3> QED BY <3>1, <2>4, <1>11, <1>14 DEF Known, Added
  <2>8. \A x \in Ids : Ended(x) <=> x = m.id \/ Ended(x)'
    BY <1>11, <1>14 DEF Ends
  <2>9. ItemsAreKnown'
    BY <2>7, <2>8, <1>1, <1>8, <1>i DEF ItemsAreKnown
  <2> QED BY <2>1, <2>3, <2>5, <2>6, <2>9, <1>12, <1>14 DEF TableInv
<1>15. ASSUME NEW k \in K, m.op = "RM", m.flags # {}, UNCHANGED tpc,
              pds' = [pds EXCEPT ![k].flags = m.flags]
       PROVE  TInv'
  <2> DEFINE e == [pds[k] EXCEPT !.flags = m.flags]
  <2>0. k \in 1..Len(pds) /\ pds[k] \in Pd
    BY <1>k, <1>t
  <2>1. e \in Pd /\ e.id = pds[k].id /\ pds' = [pds EXCEPT ![k] = e]
    BY <2>0, <1>4, <1>15 DEF Pd
  <2> HIDE DEF e
  <2>2. /\ pds' \in Seq(Pd) /\ Len(pds') = Len(pds)
        /\ \A j \in 1..Len(pds) : pds'[j] = IF j = k THEN e ELSE pds[j]
    BY <2>0, <2>1, <1>t, ExceptSeq
  <2>3. \A j \in 1..Len(pds) : pds'[j].id = pds[j].id
    BY <2>1, <2>2
  <2>4. PdsInv' /\ PdIds' = PdIds
    BY <2>2, <2>3, <1>i DEF PdsInv, PdIds
  <2>5. AddIsNew'
    BY <2>4, <1>9 DEF AddIsNew
  <2>6. RmIsKnown'
    BY <2>4, <1>10, <1>15 DEF RmIsKnown
  <2>7. \A x \in Ids : (Known(x)' <=> Known(x)) /\ (Ended(x)' <=> Ended(x))
    BY <2>4, <1>11, <1>15 DEF Known, Added, Ends
  <2>8. ItemsAreKnown'
    BY <2>7, <1>1, <1>8, <1>i DEF ItemsAreKnown
  <2> QED BY <2>2, <2>4, <2>5, <2>6, <2>8, <1>12, <1>15 DEF TableInv
<1> QED BY <1>2, <1>4, <1>5, <1>6, <1>7, <1>13, <1>14, <1>15

\* The threads between their messages, the system and the peers.
LEMMA PollThreadTables ==
  ASSUME TInv, Select \/ ScanEnds \/ PollThreadQuits
  PROVE  TInv'
<1>1. /\ UNCHANGED <<items, ioid, uq, pq, pds, port, held, sending, ipc, ii, arrived, taken>>
      /\ UNCHANGED <<written, got, released>>
      /\ tpc' \in {"drain", "scan", "exit"} /\ tk' \in {1, tk}
  BY DEF Select, ScanEnds, PollThreadQuits, table, userThread, sockets
<1>2. UNCHANGED <<items, ioid>> /\ UNCHANGED <<pq, pds>>
  BY <1>1
<1>3. TableTypes'
  BY <1>1 DEF TInv, TableTypes, Quit
<1>4. QueueTypes'
  BY <1>1 DEF TInv, QueueTypes
<1> QED BY <1>2, <1>3, <1>4, TablesSame DEF TInv

\* A read that is started: what it changes.
LEMMA ReadStarts ==
  ASSUME TInv, NEW id \in Ids,
         hp_iocp_do_read(id) \/ UNCHANGED <<port, taken>>
  PROVE  port' \in Seq(Block \cup {QuitPacket}) /\ taken' \in [Ids -> Nat]
<1>t. /\ port \in Seq(Block \cup {QuitPacket}) /\ taken \in [Ids -> Nat] /\ taken[id] \in Nat
  BY DEF TInv, QueueTypes
<1>1. CASE UNCHANGED <<port, taken>>
  BY <1>1, <1>t
<1>2. CASE /\ taken' = IF taken[id] < arrived[id] THEN [taken EXCEPT ![id] = @ + 1] ELSE taken
           /\ port' = Append(port,
                IF taken[id] < arrived[id] THEN hp_iocp_ol(id, "r", taken[id] + 1)
                ELSE Failed(hp_iocp_ol(id, "r", 0)))
  <2> DEFINE b == IF taken[id] < arrived[id] THEN hp_iocp_ol(id, "r", taken[id] + 1)
                  ELSE Failed(hp_iocp_ol(id, "r", 0))
  <2>1. taken' \in [Ids -> Nat]
    BY <1>2, <1>t
  <2>2. b \in Block \cup {QuitPacket}
    BY <1>t DEF Block, hp_iocp_ol, Failed
  <2>3. port' = Append(port, b)
    BY <1>2
  <2> HIDE DEF b
  <2>4. port' \in Seq(Block \cup {QuitPacket})
    BY <2>2, <2>3, <1>t, AppendedTo
  <2> QED BY <2>1, <2>4
<1> QED BY <1>1, <1>2 DEF hp_iocp_do_read

\* One entry of pds: its flags change, its id does not.
LEMMA ScanTables ==
  ASSUME TInv, Scan
  PROVE  TInv'
<1> DEFINE id == pds[tk].id
           out == IF id \in wfds THEN {"OUT"} ELSE {}
<1>1. /\ UNCHANGED <<items, ioid, pq, tpc, held, sending, ipc, ii, arrived, written>>
      /\ UNCHANGED <<got, released>>
      /\ tpc = "scan" /\ tk <= Len(pds) /\ tk' = tk + 1
  BY DEF Scan, table, userThread, sockets
<1>2. IF id \in rfds \cup wfds
        THEN /\ pds' = [pds EXCEPT ![tk].flags = @ \ out]
             /\ hp_iocp_do_read(id) \/ UNCHANGED <<port, taken>>
             /\ uq' = Post(uq, "FD", id,
                           IF id \in rfds /\ id \in closed THEN {"ERR"} ELSE out)
        ELSE UNCHANGED <<pds, port, taken, uq>>
  BY DEF Scan
<1>t. /\ tk \in Nat /\ tk \in 1..Len(pds) /\ pds \in Seq(Pd) /\ pds[tk] \in Pd
      /\ uq \in Seq(UserMessage)
  BY <1>1, TableElements DEF TInv, TableTypes, QueueTypes
<1>3. id \in Ids /\ pds[tk].flags \in {{"IN"}, {"IN", "OUT"}} /\ out \in {{}, {"OUT"}}
  BY <1>t DEF Pd
<1> HIDE DEF id, out
<1>4. port' \in Seq(Block \cup {QuitPacket}) /\ taken' \in [Ids -> Nat]
  BY <1>2, <1>3, ReadStarts
<1>5. uq' \in Seq(UserMessage)
  <2>1. CASE UNCHANGED uq
    BY <2>1, <1>t
  <2>2. ASSUME NEW flags \in {{}, {"OUT"}, {"ERR"}}, uq' = Post(uq, "FD", id, flags)
        PROVE  uq' \in Seq(UserMessage)
    <3>1. [op |-> "FD", id |-> id, flags |-> flags] \in UserMessage
      BY <1>3 DEF UserMessage
    <3> QED BY <3>1, <2>2, <1>t, AppendedTo DEF Post
  <2> QED BY <2>1, <2>2, <1>2, <1>3
<1>6. /\ pds' \in Seq(Pd) /\ Len(pds') = Len(pds)
      /\ \A j \in 1..Len(pds) : pds'[j].id = pds[j].id
  <2>1. CASE UNCHANGED pds
    BY <2>1, <1>t
  <2>2. CASE pds' = [pds EXCEPT ![tk].flags = @ \ out]
    <3> DEFINE e == [pds[tk] EXCEPT !.flags = @ \ out]
    <3>1. pds[tk].flags \ out \in {{"IN"}, {"IN", "OUT"}}
      BY <1>3
    <3>2. e \in Pd /\ e.id = pds[tk].id /\ pds' = [pds EXCEPT ![tk] = e]
      BY <3>1, <2>2, <1>t DEF Pd
    <3> HIDE DEF e
    <3>3. /\ pds' \in Seq(Pd) /\ Len(pds') = Len(pds)
          /\ \A j \in 1..Len(pds) : pds'[j] = IF j = tk THEN e ELSE pds[j]
      BY <3>2, <1>t, ExceptSeq
    <3> QED BY <3>2, <3>3
  <2> QED BY <2>1, <2>2, <1>2
<1>7. PdIds' = PdIds /\ (PdsInv => PdsInv')
  BY <1>6 DEF PdIds, PdsInv
<1>8. ItemsInv' /\ TableInv'
  BY <1>1, <1>7 DEF TInv, ItemsInv, TableInv, AddIsNew, RmIsKnown, ItemsAreKnown, Known, Ended,
                    ItemIds, Quit
<1>9. TableTypes'
  BY <1>1, <1>6, <1>t DEF TInv, TableTypes, Quit
<1>10. QueueTypes'
  BY <1>1, <1>4, <1>5 DEF TInv, QueueTypes
<1> QED BY <1>8, <1>9, <1>10 DEF TInv

\* Completions, chunks and resets: the tables stay.
LEMMA PortTables ==
  ASSUME TInv,
         \/ \E t \in PortThreads : GetQueuedCompletionStatus(t) \/ PostCompletion(t)
         \/ SendCompletes
         \/ \E id \in Ids : PeerSends(id) \/ PeerCloses(id)
  PROVE  TInv'
<1>1. /\ UNCHANGED <<items, ioid, pq, pds, tpc, tk, ipc, ii, written>>
      /\ UNCHANGED <<taken, got, released>>
  BY DEF GetQueuedCompletionStatus, PostCompletion, SendCompletes, PeerSends, PeerCloses,
         table, userThread, pollThread, sockets
<1>2. UNCHANGED <<items, ioid>> /\ UNCHANGED <<pq, pds>>
  BY <1>1
<1>3. TableTypes'
  BY <1>1 DEF TInv, TableTypes, Quit
<1>t. /\ port \in Seq(Block \cup {QuitPacket}) /\ uq \in Seq(UserMessage)
      /\ held \in [PortThreads -> Block \cup {QuitPacket, Idle}]
      /\ sending \subseteq OutBlock /\ arrived \in [Ids -> Nat]
  BY DEF TInv, QueueTypes
<1>4. ASSUME NEW t \in PortThreads, GetQueuedCompletionStatus(t)
      PROVE  QueueTypes'
  <2>1. /\ port # <<>> /\ port' = Tail(port) /\ held' = [held EXCEPT ![t] = Head(port)]
        /\ UNCHANGED <<uq, sending, arrived, taken, written, got, released>>
    BY <1>4 DEF GetQueuedCompletionStatus, sockets, table
  <2>2. Tail(port) \in Seq(Block \cup {QuitPacket}) /\ Head(port) \in Block \cup {QuitPacket}
    BY <2>1, <1>t, TailOf
  <2>3. held' \in [PortThreads -> Block \cup {QuitPacket, Idle}]
    BY <2>1, <2>2, <1>t
  <2> QED BY <2>1, <2>2, <2>3 DEF TInv, QueueTypes
<1>5. ASSUME NEW t \in PortThreads, PostCompletion(t)
      PROVE  QueueTypes'
  <2> DEFINE b == held[t]
  <2>1. /\ b \notin {Idle, QuitPacket} /\ uq' = Post(uq, "IO", b.id, b)
        /\ held' = [held EXCEPT ![t] = Idle]
        /\ UNCHANGED <<port, sending, arrived, taken, written, got, released>>
    BY <1>5 DEF PostCompletion, sockets, table
  <2>2. b \in Block
    BY <2>1, <1>t
  <2> HIDE DEF b
  <2>3. [op |-> "IO", id |-> b.id, flags |-> b] \in UserMessage
    BY <2>2 DEF UserMessage, Block
  <2>4. uq' \in Seq(UserMessage)
    BY <2>1, <2>3, <1>t, AppendedTo DEF Post
  <2>5. held' \in [PortThreads -> Block \cup {QuitPacket, Idle}]
    BY <2>1, <1>t
  <2> QED BY <2>1, <2>4, <2>5 DEF TInv, QueueTypes
<1>6. ASSUME SendCompletes
      PROVE  QueueTypes'
  <2>1. PICK ol \in sending :
          /\ sending' = sending \ {ol}
          /\ \E done \in {Failed(ol), ol, Short(ol)} : port' = Append(port, done)
    BY <1>6 DEF SendCompletes
  <2>2. UNCHANGED <<uq, held, arrived, taken, written, got, released>>
    BY <1>6 DEF SendCompletes, sockets, table
  <2>3. ol \in OutBlock
    BY <1>t
  <2>4. {Failed(ol), ol, Short(ol)} \subseteq Block
    BY <2>3 DEF OutBlock, Block, Failed, Short
  <2>5. PICK done \in Block : port' = Append(port, done)
    BY <2>1, <2>4
  <2>6. port' \in Seq(Block \cup {QuitPacket})
    BY <2>5, <1>t, AppendedTo
  <2> QED BY <2>1, <2>2, <2>6, <1>t DEF TInv, QueueTypes
<1>7. ASSUME NEW id \in Ids, PeerSends(id) \/ PeerCloses(id)
      PROVE  QueueTypes'
  <2>1. /\ UNCHANGED <<uq, port, held, sending, taken, written, got, released>>
        /\ arrived' = [arrived EXCEPT ![id] = @ + 1] \/ UNCHANGED arrived
    BY <1>7 DEF PeerSends, PeerCloses, table
  <2>2. arrived' \in [Ids -> Nat]
    BY <2>1, <1>t
  <2> QED BY <2>1, <2>2 DEF TInv, QueueTypes
<1> QED BY <1>2, <1>3, <1>4, <1>5, <1>6, <1>7, TablesSame DEF TInv

\* on_loop of the items
LEMMA LoopTables ==
  ASSUME TInv, MessagesEnd \/ ItemsStep
  PROVE  TInv'
<1>1. /\ UNCHANGED <<ioid, uq, pds, tpc, tk, port, held, sending, arrived, taken>>
      /\ UNCHANGED <<written, got, released>>
      /\ ipc \in {"msgs", "items"} /\ ipc' \in {"msgs", "items"} /\ ii' \in {1, ii, ii + 1}
      /\ \/ UNCHANGED <<items, pq>>
         \/ ~(ii > Len(items)) /\ hp_iocp_item_on_error(ii)
  BY DEF MessagesEnd, ItemsStep, table, pollThread, sockets
<1>2. UNCHANGED <<pds, ioid>> /\ ~Quit /\ ~Quit'
  BY <1>1 DEF TInv, TableTypes, Quit
<1>t. /\ ii \in Nat /\ ii >= 1 /\ Len(items) \in Nat /\ items \in Seq(Item)
      /\ pq \in Seq(PollMessage)
  BY TableElements DEF TInv, TableTypes
<1>3. items' \in Seq(Item) /\ pq' \in Seq(PollMessage) /\ ItemsInv' /\ TableInv'
  <2>1. CASE UNCHANGED <<items, pq>>
    <3>1. UNCHANGED <<items, ioid>> /\ UNCHANGED <<pq, pds>>
      BY <2>1, <1>1
    <3> QED BY <3>1, <1>t, TablesSame
  <2>2. CASE ~(ii > Len(items)) /\ hp_iocp_item_on_error(ii)
    <3>1. ii \in 1..Len(items)
      BY <2>2, <1>t
    <3> QED BY <3>1, <2>2, <1>2, ItemEnds
  <2> QED BY <2>1, <2>2, <1>1
<1>4. TableTypes'
  BY <1>1, <1>2, <1>3, <1>t DEF TInv, TableTypes
<1>5. QueueTypes'
  BY <1>1 DEF TInv, QueueTypes
<1> QED BY <1>3, <1>4, <1>5 DEF TInv

\* hp_iocp_uninit
LEMMA UninitTables ==
  ASSUME TInv, hp_iocp_uninit
  PROVE  TInv'
<1>t. /\ port \in Seq(Block \cup {QuitPacket}) /\ uq \in Seq(UserMessage)
      /\ \A k \in 1..Len(uq) : uq[k] \in UserMessage
  BY ElementOfSeq DEF TInv, QueueTypes
<1>1. CASE PostQuit
  <2> DEFINE c == Cardinality(PortThreads)
             q == [k \in 1..c |-> QuitPacket]
  <2>1. /\ ipc = "msgs" /\ ipc' = "quit" /\ port' = port \o q
        /\ UNCHANGED <<items, ioid, uq, pq, pds, tpc, tk, held, sending, ii, arrived, taken>>
        /\ UNCHANGED <<written, got, released>>
    BY <1>1 DEF PostQuit, table, pollThread, sockets
  <2>2. c \in Nat
    BY IocpAssumption, FS_CardinalityType
  <2>3. q \in Seq(Block \cup {QuitPacket})
    <3> HIDE DEF c
    <3>1. q \in [1..c -> Block \cup {QuitPacket}]
      OBVIOUS
    <3> HIDE DEF q
    <3> QED BY <3>1, <2>2, FcnIsSeq
  <2> HIDE DEF q
  <2>4. port' \in Seq(Block \cup {QuitPacket})
    BY <2>1, <2>3, <1>t, ConcatProperties
  <2>5. UNCHANGED <<items, ioid>> /\ UNCHANGED <<pq, pds>>
    BY <2>1
  <2>6. TableTypes'
    BY <2>1 DEF TInv, TableTypes, Quit
  <2>7. QueueTypes'
    BY <2>1, <2>4 DEF TInv, QueueTypes
  <2> QED BY <2>5, <2>6, <2>7, TablesSame DEF TInv
<1>2. CASE WaitForThreads
  <2> DEFINE M == {uq[k] : k \in {j \in 1..Len(uq) : uq[j].op = "IO" /\ uq[j].flags.kind = "w"}}
  <2>1. /\ ipc = "quit" /\ ipc' = "drained" /\ items' = <<>> /\ uq' = <<>> /\ ioid' = -1
        /\ released' = released \cup {hp_iocp_ol(m.id, "w", m.flags.n) : m \in M}
        /\ UNCHANGED <<pq, pds, tpc, tk, port, held, sending, ii, arrived, taken>>
        /\ UNCHANGED <<written, got>>
    BY <1>2 DEF WaitForThreads, pollThread, sockets
  <2>2. \A m \in M : m \in UserMessage /\ m.op = "IO"
    BY <1>t
  <2> HIDE DEF M
  <2>3. \A m \in M : hp_iocp_ol(m.id, "w", m.flags.n) \in OutBlock
    BY <2>2 DEF UserMessage, OutBlock, Block, hp_iocp_ol
  <2>4. released' \subseteq OutBlock
    BY <2>1, <2>3 DEF TInv, QueueTypes
  <2>5. /\ <<>> \in Seq(Item) /\ <<>> \in Seq(UserMessage) /\ Len(<<>>) = 0 /\ MaxItems \in Nat
        /\ MaxAdds \in Nat
    BY EmptySeq, IocpAssumption
  <2>6. TableTypes'
    BY <2>1, <2>5 DEF TInv, TableTypes, Quit
  <2>7. QueueTypes'
    BY <2>1, <2>4, <2>5 DEF TInv, QueueTypes
  <2>8. ItemsInv'
    BY <2>1, <2>5 DEF ItemsInv
  <2>9. TableInv'
    BY <2>1 DEF TInv, TableInv, PdsInv, Quit
  <2> QED BY <2>6, <2>7, <2>8, <2>9 DEF TInv
<1>3. CASE WaitForPollThread
  <2>1. /\ ipc = "drained" /\ ipc' = "done"
        /\ UNCHANGED <<items, ioid, uq, pq, pds, tpc, tk, port, held, sending, ii, arrived>>
        /\ UNCHANGED <<taken, written, got, released>>
    BY <1>3 DEF WaitForPollThread, table, pollThread, sockets
  <2>2. UNCHANGED <<items, ioid>> /\ UNCHANGED <<pq, pds>>
    BY <2>1
  <2>3. TableTypes'
    BY <2>1 DEF TInv, TableTypes, Quit
  <2>4. QueueTypes'
    BY <2>1 DEF TInv, QueueTypes
  <2> QED BY <2>2, <2>3, <2>4, TablesSame DEF TInv
<1> QED BY <1>1, <1>2, <1>3 DEF hp_iocp_uninit

\* Nothing is in the tables and nothing is under way at first.
LEMMA TablesStart == IocpInit => TInv
<1> SUFFICES ASSUME IocpInit PROVE TInv
  OBVIOUS
<1>1. /\ items = <<>> /\ ioid = 0 /\ uq = <<>> /\ pq = <<>> /\ pds = <<>>
      /\ tpc = "drain" /\ tk = 1 /\ port = <<>> /\ held = [t \in PortThreads |-> Idle]
      /\ sending = {} /\ ipc = "msgs" /\ ii = 1
      /\ arrived = [id \in Ids |-> 0] /\ taken = [id \in Ids |-> 0]
      /\ written = [id \in Ids |-> 0] /\ got = [id \in Ids |-> <<>>] /\ released = {}
  BY DEF IocpInit
<1>2. /\ <<>> \in Seq(Item) /\ <<>> \in Seq(PollMessage) /\ <<>> \in Seq(Pd)
      /\ <<>> \in Seq(UserMessage) /\ <<>> \in Seq(Block \cup {QuitPacket}) /\ <<>> \in Seq(Nat)
      /\ Len(<<>>) = 0 /\ 1..0 = {} /\ MaxAdds \in Nat /\ MaxItems \in Nat
  BY EmptySeq, IocpAssumption
<1>3. TableTypes
  BY <1>1, <1>2 DEF TableTypes, Quit
<1>4. QueueTypes
  BY <1>1, <1>2 DEF QueueTypes
<1>5. ItemsInv
  BY <1>1, <1>2 DEF ItemsInv
<1>6. TableInv
  BY <1>1, <1>2 DEF TableInv, PdsInv, AddIsNew, RmIsKnown, ItemsAreKnown, Known, Ended, ItemIds,
                    PdIds
<1> QED BY <1>3, <1>4, <1>5, <1>6 DEF TInv

\* Every step keeps the invariant of the tables.
LEMMA TablesKept == TInv /\ [IocpNext]_iocpVars => TInv'
<1> SUFFICES ASSUME TInv, [IocpNext]_iocpVars PROVE TInv'
  OBVIOUS
<1>1. CASE hp_iocp_add
  BY <1>1, AddTables
<1>2. ASSUME NEW id \in Ids, hp_iocp_write(id) \/ hp_iocp_rm(id) PROVE TInv'
  BY <1>2, WriteTables, RmTables
<1>3. CASE UserStep
  BY <1>3, FdTables, IoTables, LoopTables DEF UserStep
<1>4. CASE PollThreadStep
  BY <1>4, DrainTables, ScanTables, PollThreadTables DEF PollThreadStep
<1>5. CASE PortStep \/ SendCompletes \/ \E id \in Ids : PeerSends(id) \/ PeerCloses(id)
  BY <1>5, PortTables DEF PortStep
<1>6. CASE hp_iocp_uninit
  BY <1>6, UninitTables
<1>7. CASE UNCHANGED iocpVars
  <2>1. /\ UNCHANGED <<items, ioid, uq, pq, pds, tpc, tk, port, held, sending, ipc, ii, arrived>>
        /\ UNCHANGED <<taken, written, got, released>>
    BY <1>7 DEF iocpVars
  <2>2. UNCHANGED <<items, ioid>> /\ UNCHANGED <<pq, pds>>
    BY <2>1
  <2>3. TableTypes'
    BY <2>1 DEF TInv, TableTypes, Quit
  <2>4. QueueTypes'
    BY <2>1 DEF TInv, QueueTypes
  <2> QED BY <2>2, <2>3, <2>4, TablesSame DEF TInv
<1> QED BY <1>1, <1>2, <1>3, <1>4, <1>5, <1>6, <1>7 DEF IocpNext

\* The asserts of the poll thread hold, and when it has read its messages its table
\* names the connections of the user's thread, whatever the two threads do meanwhile.
THEOREM TablesAreSound == IocpSpec => [](IocpTypeOK /\ PollThreadAsserts /\ TablesAgree)
<1>1. TInv => IocpTypeOK /\ PollThreadAsserts /\ TablesAgree
  <2> SUFFICES ASSUME TInv PROVE IocpTypeOK /\ PollThreadAsserts /\ TablesAgree
    OBVIOUS
  <2>1. PollThreadAsserts
    BY DEF TInv, TableTypes, PollThreadAsserts
  <2>2. IocpTypeOK
    <3>1. \A k \in 1..Len(pds) : pds[k].flags \in (SUBSET {"IN", "OUT"}) \ {{}}
      <4>1. \A k \in 1..Len(pds) : pds[k].flags \in {{"IN"}, {"IN", "OUT"}}
        BY TableElements DEF TInv
      <4> QED BY <4>1
    <3>2. \A k \in 1..Len(items) : items[k].id \in Ids
      BY TableElements DEF TInv
    <3> QED BY <3>1, <3>2 DEF TInv, ItemsInv, IocpTypeOK
  <2>3. ASSUME pq = <<>>, ~Quit PROVE PdIds = ItemIds
    <3>1. Len(pq) = 0 /\ 1..0 = {}
      BY <2>3, EmptySeq
    <3>2. \A id \in Ids : id \in ItemIds <=> id \in PdIds
      BY <2>3, <3>1 DEF TInv, TableInv, ItemsAreKnown, Known, Ended
    <3> QED BY <3>2, TableElements DEF TInv
  <2> QED BY <2>1, <2>2, <2>3 DEF TablesAgree, PdIds, ItemIds
<1> QED BY <1>1, TablesStart, TablesKept, PTL DEF IocpSpec
-----------------------------------------------------------------------------
(* HpIocp: the overlapped blocks, when no send is partial *)

\* Blocks that are with the system or on their way back from it.
Away(b) ==
  \/ b \in sending
  \/ \E j \in 1..Len(port) : port[j] = b
  \/ \E t \in PortThreads : held[t] = b
  \/ \E j \in 1..Len(uq) : uq[j].op = "IO" /\ uq[j].flags = b
Queued(ol) == \E k \in 1..Len(items) : \E j \in 1..Len(items[k].obuf) : items[k].obuf[j] = ol
Gone(ol) ==
  \/ ol \in released
  \/ \E b \in Block : Away(b) /\ b.kind = "w" /\ hp_iocp_ol(b.id, "w", b.n) = ol

\* Writes of a connection are numbered as they are queued, and a block leaves obuf for
\* good.
BlockInv ==
  /\ \A k \in 1..Len(items) :
       /\ \A j \in 1..Len(items[k].obuf) : items[k].obuf[j].id = items[k].id
       /\ \A i, j \in 1..Len(items[k].obuf) : i < j => items[k].obuf[i].n < items[k].obuf[j].n
  /\ \A ol \in OutBlock : Queued(ol) \/ Gone(ol) => ol.n <= written[ol.id]
  /\ \A ol \in OutBlock : ~(Queued(ol) /\ Gone(ol))
  /\ \A b \in Block : Away(b) => b.nbuf # -1

\* A send that is away has left obuf.
LEMMA AwayIsGone ==
  ASSUME NEW b \in Block
  PROVE  /\ hp_iocp_ol(b.id, "w", b.n) \in OutBlock
         /\ Away(b) /\ b.kind = "w" => Gone(hp_iocp_ol(b.id, "w", b.n))
<1>1. b.id \in Ids /\ b.n \in Nat
  BY DEF Block
<1>2. hp_iocp_ol(b.id, "w", b.n) \in OutBlock
  BY <1>1 DEF OutBlock, hp_iocp_ol
<1>3. Away(b) /\ b.kind = "w" => Gone(hp_iocp_ol(b.id, "w", b.n))
  BY Zenon DEF Gone
<1> QED BY <1>2, <1>3

\* Steps that queue nothing: blocks stay or move on.
LEMMA BlocksMove ==
  ASSUME BlockInv, UNCHANGED written,
         \A m \in 1..Len(items') :
           \/ items'[m].obuf = <<>>
           \/ \E j \in 1..Len(items) :
                items'[m].id = items[j].id /\ items'[m].obuf = items[j].obuf,
         \A b \in Block : Away(b)' =>
           Away(b) \/ (b.nbuf # -1 /\ (b.kind = "w" => Gone(hp_iocp_ol(b.id, "w", b.n)))),
         \A ol \in released' : Gone(ol)
  PROVE  BlockInv'
<1>0. Len(<<>>) = 0 /\ 1..0 = {}
  OBVIOUS
<1>1. ASSUME NEW ol, Queued(ol)' PROVE Queued(ol)
  <2>1. PICK m \in 1..Len(items') : \E j \in 1..Len(items'[m].obuf) : items'[m].obuf[j] = ol
    BY <1>1 DEF Queued
  <2>2. PICK j \in 1..Len(items) : items'[m].obuf = items[j].obuf
    BY <2>1, <1>0
  <2> QED BY <2>1, <2>2 DEF Queued
<1>2. ASSUME NEW ol, Gone(ol)' PROVE Gone(ol)
  <2>1. CASE ol \in released'
    BY <2>1
  <2>2. ASSUME NEW b \in Block, Away(b)', b.kind = "w", hp_iocp_ol(b.id, "w", b.n) = ol
        PROVE  Gone(ol)
    BY <2>2, AwayIsGone
  <2> QED BY <1>2, <2>1, <2>2 DEF Gone, hp_iocp_ol
<1>3. ASSUME NEW m \in 1..Len(items')
      PROVE  /\ \A j \in 1..Len(items'[m].obuf) : items'[m].obuf[j].id = items'[m].id
             /\ \A i, j \in 1..Len(items'[m].obuf) :
                  i < j => items'[m].obuf[i].n < items'[m].obuf[j].n
  BY <1>0 DEF BlockInv
<1>4. \A b \in Block : Away(b)' => b.nbuf # -1
  BY DEF BlockInv
<1>5. \A ol \in OutBlock : Queued(ol)' \/ Gone(ol)' => ol.n <= written'[ol.id]
  BY <1>1, <1>2 DEF BlockInv
<1>6. \A ol \in OutBlock : ~(Queued(ol)' /\ Gone(ol)')
  BY <1>1, <1>2 DEF BlockInv
<1> QED BY <1>3, <1>4, <1>5, <1>6 DEF BlockInv

\* The first block of an obuf is given to the system or deleted.
LEMMA HeadTaken ==
  ASSUME TInv, BlockInv, UNCHANGED written, NEW k \in 1..Len(items), items[k].obuf # <<>>,
         \A m \in 1..Len(items') : \E j \in 1..Len(items) :
           /\ items'[m].id = items[j].id
           /\ items'[m].obuf = IF j = k THEN Tail(items[j].obuf) ELSE items[j].obuf,
         \A b \in Block : Away(b)' => Away(b) \/ b = Head(items[k].obuf),
         \A ol \in released' : ol \in released \/ ol = Head(items[k].obuf)
  PROVE  BlockInv'
<1> DEFINE h == Head(items[k].obuf)
<1>t. /\ Len(items) \in Nat
      /\ \A j \in 1..Len(items) : items[j].obuf \in Seq(OutBlock)
      /\ \A j, i \in 1..Len(items) : j # i => items[j].id # items[i].id
  BY TableElements, IdsDiffer DEF TInv
<1>1. /\ 1 \in 1..Len(items[k].obuf) /\ items[k].obuf[1] = h /\ h \in OutBlock
      /\ Len(items[k].obuf) \in Nat
      /\ \A i \in 1..Len(Tail(items[k].obuf)) :
           /\ i + 1 \in 1..Len(items[k].obuf) /\ i \in Nat
           /\ Tail(items[k].obuf)[i] = items[k].obuf[i + 1]
  BY <1>t, TailOf
<1>2. h.kind = "w" /\ h.nbuf = 1 /\ h.id \in Ids /\ h.n \in Nat /\ h \in Block
  BY <1>1 DEF OutBlock, Block
<1>3. hp_iocp_ol(h.id, "w", h.n) = h
  BY <1>1 DEF OutBlock, hp_iocp_ol
<1> HIDE DEF h
<1>4. Queued(h)
  BY <1>1 DEF Queued
<1>i. /\ \A j \in 1..Len(items) :
           /\ \A i \in 1..Len(items[j].obuf) : items[j].obuf[i].id = items[j].id
           /\ \A a, i \in 1..Len(items[j].obuf) :
                a < i => items[j].obuf[a].n < items[j].obuf[i].n
      /\ \A ol \in OutBlock : Queued(ol) \/ Gone(ol) => ol.n <= written[ol.id]
      /\ \A ol \in OutBlock : ~(Queued(ol) /\ Gone(ol))
      /\ \A b \in Block : Away(b) => b.nbuf # -1
  BY DEF BlockInv
<1>h. /\ \A b \in Block : Away(b)' => Away(b) \/ b = h
      /\ \A ol \in released' : ol \in released \/ ol = h
  BY DEF h
<1>5. \A i \in 1..Len(Tail(items[k].obuf)) : Tail(items[k].obuf)[i] # h
  <2> SUFFICES ASSUME NEW i \in 1..Len(Tail(items[k].obuf)), Tail(items[k].obuf)[i] = h
               PROVE  FALSE
    OBVIOUS
  <2>1. i + 1 \in 1..Len(items[k].obuf) /\ 1 < i + 1 /\ items[k].obuf[i + 1] = h
    BY <1>1
  <2>2. h.n < h.n
    BY <2>1, <1>1, <1>i
  <2> QED BY <2>2, <1>2
<1>6. ASSUME NEW ol, Queued(ol)' PROVE Queued(ol) /\ ol # h
  <2>0. PICK m \in 1..Len(items') : \E i \in 1..Len(items'[m].obuf) : items'[m].obuf[i] = ol
    BY <1>6 DEF Queued
  <2>1. PICK i \in 1..Len(items'[m].obuf) : items'[m].obuf[i] = ol
    BY <2>0
  <2>2. PICK j \in 1..Len(items) :
          items'[m].obuf = IF j = k THEN Tail(items[j].obuf) ELSE items[j].obuf
    BY <2>1
  <2>3. CASE j = k
    BY <2>1, <2>2, <2>3, <1>1, <1>5 DEF Queued
  <2>4. CASE j # k
    <3>1. Queued(ol) /\ ol.id = items[j].id
      BY <2>1, <2>2, <2>4, <1>i DEF Queued
    <3>2. h.id = items[k].id
      BY <1>1, <1>i
    <3> QED BY <3>1, <3>2, <2>4, <1>t, ZenonT(60)
  <2> QED BY <2>3, <2>4
<1>7. ASSUME NEW ol, Gone(ol)' PROVE Gone(ol) \/ ol = h
  <2>1. CASE ol \in released'
    BY <2>1, <1>h DEF Gone
  <2>2. ASSUME NEW b \in Block, Away(b)', b.kind = "w", hp_iocp_ol(b.id, "w", b.n) = ol
        PROVE  Gone(ol) \/ ol = h
    <3>1. CASE Away(b)
      BY <3>1, <2>2, AwayIsGone
    <3>2. CASE b = h
      BY <3>2, <2>2, <1>3
    <3> QED BY <3>1, <3>2, <2>2, <1>h
  <2> QED BY <1>7, <2>1, <2>2 DEF Gone, hp_iocp_ol
<1>8. ASSUME NEW m \in 1..Len(items')
      PROVE  /\ \A j \in 1..Len(items'[m].obuf) : items'[m].obuf[j].id = items'[m].id
             /\ \A i, j \in 1..Len(items'[m].obuf) :
                  i < j => items'[m].obuf[i].n < items'[m].obuf[j].n
  <2>1. PICK j \in 1..Len(items) :
          /\ items'[m].id = items[j].id
          /\ items'[m].obuf = IF j = k THEN Tail(items[j].obuf) ELSE items[j].obuf
    OBVIOUS
  <2>2. CASE j # k
    BY <2>1, <2>2, <1>i
  <2>3. CASE j = k
    <3>1. items'[m].id = items[k].id /\ items'[m].obuf = Tail(items[k].obuf)
      BY <2>1, <2>3
    <3>2. \A a, i \in 1..Len(Tail(items[k].obuf)) : a < i => a + 1 < i + 1
      BY <1>1
    <3> QED BY <3>1, <3>2, <1>1, <1>i
  <2> QED BY <2>2, <2>3
<1>9. \A b \in Block : Away(b)' => b.nbuf # -1
  BY <1>2, <1>h, <1>i
<1>10. \A ol \in OutBlock : Queued(ol)' \/ Gone(ol)' => ol.n <= written'[ol.id]
  BY <1>1, <1>4, <1>6, <1>7, <1>i
<1>11. \A ol \in OutBlock : ~(Queued(ol)' /\ Gone(ol)')
  BY <1>6, <1>7, <1>i
<1> QED BY <1>8, <1>9, <1>10, <1>11 DEF BlockInv

\* Items and their blocks stay.
LEMMA ItemsStay ==
  ASSUME BlockInv, UNCHANGED <<items, written, released>>,
         \A b \in Block : Away(b)' =>
           Away(b) \/ (b.nbuf # -1 /\ (b.kind = "w" => Gone(hp_iocp_ol(b.id, "w", b.n))))
  PROVE  BlockInv'
<1>1. \A m \in 1..Len(items') : \E j \in 1..Len(items) :
        items'[m].id = items[j].id /\ items'[m].obuf = items[j].obuf
  OBVIOUS
<1>2. UNCHANGED written /\ \A ol \in released' : Gone(ol)
  BY DEF Gone
<1> QED BY <1>1, <1>2, BlocksMove

\* What is under way does not change when the queues do not.
LEMMA AwaySame ==
  ASSUME UNCHANGED <<uq, port, held, sending>>
  PROVE  \A b : Away(b)' <=> Away(b)
BY DEF Away

\* hp_iocp_write: the block queued last has the highest number.
LEMMA WriteBlocks ==
  ASSUME TInv, BlockInv, NEW id \in Ids, hp_iocp_write(id)
  PROVE  BlockInv'
<1> DEFINE ol == hp_iocp_ol(id, "w", written[id] + 1)
           K == {k \in Entry(items, id) : ~items[k].rm}
<1>1. /\ written' = [written EXCEPT ![id] = @ + 1]
      /\ UNCHANGED <<uq, port, held, sending>>
  BY DEF hp_iocp_write
<1>2. \/ /\ K # {}
         /\ items' = [k \in DOMAIN items |->
              IF k \in K THEN [items[k] EXCEPT !.obuf = Append(@, ol)] ELSE items[k]]
         /\ UNCHANGED released
      \/ released' = released \cup {ol} /\ UNCHANGED items
  BY DEF hp_iocp_write
<1>t. /\ items \in Seq(Item) /\ Len(items) \in Nat /\ DOMAIN items = 1..Len(items)
      /\ \A k \in 1..Len(items) : items[k] \in Item /\ items[k].obuf \in Seq(OutBlock)
      /\ written \in [Ids -> Nat]
  BY TableElements, LenProperties DEF TInv, TableTypes, QueueTypes
<1>3. ol \in OutBlock /\ ol.id = id /\ ol.n = written[id] + 1
  BY <1>t DEF OutBlock, hp_iocp_ol
<1>4. K \subseteq 1..Len(items) /\ \A k \in K : items[k].id = id
  BY DEF Entry
<1> HIDE DEF ol, K
<1>i. /\ \A k \in 1..Len(items) :
           /\ \A j \in 1..Len(items[k].obuf) : items[k].obuf[j].id = items[k].id
           /\ \A i, j \in 1..Len(items[k].obuf) :
                i < j => items[k].obuf[i].n < items[k].obuf[j].n
      /\ \A o \in OutBlock : Queued(o) \/ Gone(o) => o.n <= written[o.id]
      /\ \A o \in OutBlock : ~(Queued(o) /\ Gone(o))
      /\ \A b \in Block : Away(b) => b.nbuf # -1
  BY DEF BlockInv
<1>5. ~Queued(ol) /\ ~Gone(ol)
  BY <1>3, <1>i, <1>t
<1>6. \A o \in OutBlock : o.n \in Nat /\ o.id \in Ids
  BY DEF OutBlock
<1>7. \A o \in OutBlock : o.n <= written[o.id] => o.n <= written'[o.id]
  BY <1>1, <1>6, <1>t
<1>8. ol.n <= written'[ol.id]
  BY <1>1, <1>3, <1>t
<1>9. \A b : Away(b)' <=> Away(b)
  BY <1>1, AwaySame
<1>10. CASE released' = released \cup {ol} /\ UNCHANGED items
  <2>1. \A o : Queued(o)' <=> Queued(o)
    BY <1>10 DEF Queued
  <2>2. \A o : Gone(o)' <=> Gone(o) \/ o = ol
    BY <1>9, <1>10 DEF Gone
  <2>3. \A o \in OutBlock : Queued(o)' \/ Gone(o)' => o.n <= written'[o.id]
    BY <2>1, <2>2, <1>7, <1>8, <1>i
  <2>4. \A o \in OutBlock : ~(Queued(o)' /\ Gone(o)')
    BY <2>1, <2>2, <1>5, <1>i
  <2> QED BY <2>3, <2>4, <1>9, <1>10, <1>i DEF BlockInv
<1>11. CASE /\ K # {}
            /\ items' = [k \in DOMAIN items |->
                 IF k \in K THEN [items[k] EXCEPT !.obuf = Append(@, ol)] ELSE items[k]]
            /\ UNCHANGED released
  <2>1. /\ Len(items') = Len(items)
        /\ \A k \in 1..Len(items) :
             /\ items'[k].id = items[k].id
             /\ items'[k].obuf = IF k \in K THEN Append(items[k].obuf, ol) ELSE items[k].obuf
    <3> DEFINE new(k) == IF k \in K THEN [items[k] EXCEPT !.obuf = Append(@, ol)] ELSE items[k]
               f == [k \in 1..Len(items) |-> new(k)]
    <3>1. \A k \in 1..Len(items) :
            /\ new(k).id = items[k].id
            /\ new(k).obuf = IF k \in K THEN Append(items[k].obuf, ol) ELSE items[k].obuf
      BY <1>t DEF Item
    <3>2. items' = f
      BY <1>11, <1>t
    <3>3. \A k \in 1..Len(items) : f[k] = new(k)
      OBVIOUS
    <3>4. f \in [1..Len(items) -> {new(k) : k \in 1..Len(items)}]
      <4> HIDE DEF new
      <4> QED OBVIOUS
    <3> HIDE DEF f, new
    <3>5. Len(f) = Len(items)
      BY <3>4, <1>t, FcnIsSeq
    <3> QED BY <3>1, <3>2, <3>3, <3>5
  <2>2. ASSUME NEW k \in K
        PROVE  /\ k \in 1..Len(items) /\ items'[k].obuf = Append(items[k].obuf, ol)
               /\ Len(items[k].obuf) \in Nat
               /\ \A j \in 1..Len(items[k].obuf) :
                    items'[k].obuf[j] = items[k].obuf[j] /\ items[k].obuf[j] \in OutBlock
               /\ items'[k].obuf[Len(items[k].obuf) + 1] = ol
               /\ \A j \in 1..Len(items'[k].obuf) :
                    j = Len(items[k].obuf) + 1 \/ j \in 1..Len(items[k].obuf)
    <3>1. k \in 1..Len(items)
      BY <1>4
    <3> DEFINE s == items[k].obuf
               a == Append(s, ol)
    <3>2. s \in Seq(OutBlock) /\ items'[k].obuf = a
      BY <3>1, <2>1, <1>t
    <3>3. \A j \in 1..Len(s) : s[j] \in OutBlock
      <4> HIDE DEF s
      <4> QED BY <3>2, ElementOfSeq
    <3>4. /\ Len(s) \in Nat /\ \A j \in 1..Len(s) : a[j] = s[j]
          /\ a[Len(s) + 1] = ol /\ \A j \in 1..Len(a) : j = Len(s) + 1 \/ j \in 1..Len(s)
      <4> HIDE DEF s
      <4> QED BY <3>2, <1>3, AppendedTo
    <3> HIDE DEF a
    <3> QED BY <3>1, <3>2, <3>3, <3>4 DEF a
  <2>3. ASSUME NEW o, Queued(o)' PROVE Queued(o) \/ o = ol
    <3>1. PICK k \in 1..Len(items') : \E j \in 1..Len(items'[k].obuf) : items'[k].obuf[j] = o
      BY <2>3 DEF Queued
    <3>2. CASE k \in K
      BY <3>1, <3>2, <2>2 DEF Queued
    <3>3. CASE k \notin K
      BY <3>1, <3>3, <2>1 DEF Queued
    <3> QED BY <3>2, <3>3
  <2>4. \A o : Gone(o)' <=> Gone(o)
    BY <1>9, <1>11 DEF Gone
  <2>5. ASSUME NEW k \in 1..Len(items')
        PROVE  /\ \A j \in 1..Len(items'[k].obuf) : items'[k].obuf[j].id = items'[k].id
               /\ \A i, j \in 1..Len(items'[k].obuf) :
                    i < j => items'[k].obuf[i].n < items'[k].obuf[j].n
    <3>1. CASE k \notin K
      BY <3>1, <2>1, <1>i
    <3>2. CASE k \in K
      <4>1. \A j \in 1..Len(items'[k].obuf) : items'[k].obuf[j].id = items'[k].id
        BY <3>2, <2>1, <2>2, <1>3, <1>4, <1>i, ZenonT(60)
      <4>2. \A i \in 1..Len(items[k].obuf) : items[k].obuf[i].n < ol.n
        <5> SUFFICES ASSUME NEW i \in 1..Len(items[k].obuf)
                     PROVE  items[k].obuf[i].n < ol.n
          OBVIOUS
        <5> DEFINE o == items[k].obuf[i]
        <5>1. o \in OutBlock /\ Queued(o) /\ o.id = id
          BY <3>2, <2>2, <1>4, <1>i DEF Queued
        <5> HIDE DEF o
        <5>2. o.n <= written[id] /\ o.n \in Nat /\ written[id] \in Nat
          BY <5>1, <1>6, <1>i, <1>t
        <5>3. o.n < ol.n
          BY <5>2, <1>3
        <5> QED BY <5>3 DEF o
      <4>3. ASSUME NEW i \in 1..Len(items'[k].obuf), NEW j \in 1..Len(items'[k].obuf), i < j
            PROVE  items'[k].obuf[i].n < items'[k].obuf[j].n
        <5>1. i \in 1..Len(items[k].obuf)
          BY <4>3, <3>2, <2>2
        <5>2. CASE j = Len(items[k].obuf) + 1
          BY <5>1, <5>2, <4>2, <3>2, <2>2
        <5>3. CASE j \in 1..Len(items[k].obuf)
          BY <5>1, <5>3, <4>3, <3>2, <2>2, <1>i
        <5> QED BY <5>2, <5>3, <3>2, <2>2
      <4> QED BY <4>1, <4>3
    <3> QED BY <3>1, <3>2
  <2>6. \A o \in OutBlock : Queued(o)' \/ Gone(o)' => o.n <= written'[o.id]
    BY <2>3, <2>4, <1>7, <1>8, <1>i
  <2>7. \A o \in OutBlock : ~(Queued(o)' /\ Gone(o)')
    BY <2>3, <2>4, <1>5, <1>i
  <2> QED BY <2>5, <2>6, <2>7, <1>9, <1>i DEF BlockInv
<1> QED BY <1>2, <1>10, <1>11

\* A message that was taken is away no more.
LEMMA AwayTaken ==
  ASSUME TInv, NextMessage, NEW b, Away(b)'
  PROVE  Away(b) \/ b \in sending'
<1>1. uq \in Seq(UserMessage) /\ uq # <<>> /\ uq' = Tail(uq) /\ UNCHANGED <<port, held>>
  BY DEF TInv, QueueTypes, NextMessage
<1>2. \A j \in 1..Len(uq') : j + 1 \in 1..Len(uq) /\ uq'[j] = uq[j + 1]
  BY <1>1, TailOf
<1>3. CASE \E j \in 1..Len(uq') : uq'[j].op = "IO" /\ uq'[j].flags = b
  BY <1>2, <1>3 DEF Away
<1> QED BY <1>1, <1>3 DEF Away

\* An item that ends takes its blocks along.
LEMMA ItemGone ==
  ASSUME TInv, ~Quit, NEW k \in 1..Len(items), hp_iocp_item_on_error(k),
         UNCHANGED <<pds, ioid>>
  PROVE  \A m \in 1..Len(items') : \E j \in 1..Len(items) :
           j # k /\ items'[m].id = items[j].id /\ items'[m].obuf = items[j].obuf
BY ItemEnds

\* HP_IOCP_WM_FD: the first block of obuf goes to the system or is deleted.
LEMMA FdBlocks ==
  ASSUME TInv, BlockInv, HandleFd
  PROVE  BlockInv'
<1>1. NextMessage
  BY DEF HandleFd
<1>2. UNCHANGED <<ioid, pds>> /\ ~Quit
  BY <1>1, MessageTaken
<1>3. UNCHANGED written
  BY <1>1 DEF NextMessage
<1>4. \A b : Away(b)' => Away(b) \/ b \in sending'
  BY <1>1, AwayTaken
<1>5. CASE Dropped /\ UNCHANGED <<sending, sent, released>>
  <2>1. \A b \in Block : Away(b)' => Away(b)
    BY <1>4, <1>5 DEF Away
  <2>2. UNCHANGED <<items, written, released>>
    BY <1>3, <1>5 DEF Dropped
  <2> QED BY <2>1, <2>2, ItemsStay
<1>6. ASSUME NEW k \in 1..Len(items), hp_iocp_item_on_error(k), UNCHANGED <<sending, sent, released>>
      PROVE  BlockInv'
  <2>1. \A m \in 1..Len(items') : \E j \in 1..Len(items) :
          j # k /\ items'[m].id = items[j].id /\ items'[m].obuf = items[j].obuf
    BY <1>2, <1>6, ItemGone
  <2>2. \A b \in Block : Away(b)' => Away(b)
    BY <1>4, <1>6 DEF Away
  <2>3. \A ol \in released' : Gone(ol)
    BY <1>6 DEF Gone
  <2> QED BY <2>1, <2>2, <2>3, <1>3, BlocksMove
<1>7. ASSUME NEW k \in 1..Len(items), items[k].obuf # <<>>, hp_iocp_do_write(k)
      PROVE  BlockInv'
  <2>1. /\ items' = [items EXCEPT ![k].obuf = Tail(@)]
        /\ sending' = sending \cup {Head(items[k].obuf)} /\ UNCHANGED released
    BY <1>7 DEF hp_iocp_do_write
  <2>2. \A m \in 1..Len(items') : \E j \in 1..Len(items) :
          /\ items'[m].id = items[j].id
          /\ items'[m].obuf = IF j = k THEN Tail(items[j].obuf) ELSE items[j].obuf
    <3> DEFINE e == [items[k] EXCEPT !.obuf = Tail(@)]
    <3>1. items \in Seq(Item) /\ items[k] \in Item /\ items[k].obuf \in Seq(OutBlock)
      BY TableElements DEF TInv, TableTypes
    <3>2. Tail(items[k].obuf) \in Seq(OutBlock)
      BY <3>1, <1>7, TailOf
    <3>3. e \in Item /\ e.id = items[k].id /\ e.obuf = Tail(items[k].obuf)
      BY <3>1, <3>2 DEF Item
    <3>4. items' = [items EXCEPT ![k] = e]
      BY <2>1
    <3> HIDE DEF e
    <3>5. Len(items') = Len(items) /\ \A j \in 1..Len(items) : items'[j] = IF j = k THEN e ELSE items[j]
      BY <3>1, <3>3, <3>4, ExceptSeq
    <3>6. ASSUME NEW m \in 1..Len(items)
          PROVE  /\ items'[m].id = items[m].id
                 /\ items'[m].obuf = IF m = k THEN Tail(items[m].obuf) ELSE items[m].obuf
      BY <3>3, <3>5
    <3> QED BY <3>5, <3>6
  <2>3. \A b \in Block : Away(b)' => Away(b) \/ b = Head(items[k].obuf)
    BY <1>4, <2>1 DEF Away
  <2>4. \A ol \in released' : ol \in released \/ ol = Head(items[k].obuf)
    BY <2>1
  <2> HIDE <2>1
  <2> QED BY <2>2, <2>3, <2>4, <1>3, <1>7, HeadTaken
<1>8. ASSUME NEW k \in 1..Len(items), items[k].obuf # <<>>, WSASendFails(k)
      PROVE  BlockInv'
  <2>1. /\ hp_iocp_item_on_error(k) /\ UNCHANGED sending
        /\ released' = released \cup {Head(items[k].obuf)}
    BY <1>8 DEF WSASendFails
  <2>2. \A m \in 1..Len(items') : \E j \in 1..Len(items) :
          /\ items'[m].id = items[j].id
          /\ items'[m].obuf = IF j = k THEN Tail(items[j].obuf) ELSE items[j].obuf
    BY <2>1, <1>2, ItemGone
  <2>3. \A b \in Block : Away(b)' => Away(b) \/ b = Head(items[k].obuf)
    BY <1>4, <2>1 DEF Away
  <2>4. \A ol \in released' : ol \in released \/ ol = Head(items[k].obuf)
    BY <2>1
  <2> QED BY <2>2, <2>3, <2>4, <1>3, <1>8, HeadTaken
<1>9. \A k \in Entry(items, Head(uq).id) : k \in 1..Len(items)
  BY DEF Entry
<1> QED BY <1>5, <1>6, <1>7, <1>8, <1>9 DEF HandleFd

\* HP_IOCP_WM_IO: the block that is deleted has left its obuf before.
LEMMA IoBlocks ==
  ASSUME TInv, BlockInv, HandleIo
  PROVE  BlockInv'
<1> DEFINE ol == Head(uq).flags
<1>1. NextMessage /\ Head(uq).op = "IO" /\ UNCHANGED sending
  BY DEF HandleIo
<1>2. UNCHANGED <<ioid, pds>> /\ ~Quit /\ uq # <<>> /\ uq \in Seq(UserMessage)
      /\ Head(uq) \in UserMessage
  BY <1>1, MessageTaken
<1>3. UNCHANGED written
  BY <1>1 DEF NextMessage
<1>4. \A b \in Block : Away(b)' => Away(b)
  BY <1>1, AwayTaken DEF Away
<1>5. released' = IF ol.kind = "w" THEN released \cup {hp_iocp_ol(ol.id, "w", ol.n)}
                  ELSE released
  BY DEF HandleIo
<1>6. \/ Entry(items, ol.id) = {} /\ Dropped /\ UNCHANGED got
      \/ \E k \in Entry(items, ol.id) :
           \/ ReadDone(k, ol)
           \/ WriteDone(k, ol)
           \/ ol.nbuf = 0 /\ hp_iocp_item_on_error(k) /\ UNCHANGED got
  BY DEF HandleIo
<1>7. ol \in Block /\ Away(ol)
  <2>1. 1 \in 1..Len(uq) /\ uq[1] = Head(uq)
    BY <1>2, TailOf
  <2> QED BY <2>1, <1>1, <1>2 DEF UserMessage, Away
<1> HIDE DEF ol
<1>8. ol.nbuf # -1
  BY <1>7 DEF BlockInv
<1>9. \A o \in released' : Gone(o)
  BY <1>5, <1>7, AwayIsGone DEF Gone
<1>t. /\ items \in Seq(Item) /\ \A k \in 1..Len(items) : items[k] \in Item
  BY TableElements DEF TInv, TableTypes
<1>10. ASSUME \A m \in 1..Len(items') : \E j \in 1..Len(items) :
                items'[m].id = items[j].id /\ items'[m].obuf = items[j].obuf
       PROVE  BlockInv'
  BY <1>3, <1>4, <1>9, <1>10, BlocksMove
<1>11. ASSUME UNCHANGED items PROVE BlockInv'
  BY <1>10, <1>11
<1>12. ASSUME NEW k \in 1..Len(items), hp_iocp_item_on_error(k) PROVE BlockInv'
  <2>1. \A m \in 1..Len(items') : \E j \in 1..Len(items) :
          j # k /\ items'[m].id = items[j].id /\ items'[m].obuf = items[j].obuf
    BY <1>2, <1>12, ItemGone
  <2> QED BY <2>1, <1>10
<1>13. ASSUME NEW k \in 1..Len(items), NEW s \in Seq(Nat),
              items' = [items EXCEPT ![k].ibuf = s]
       PROVE  BlockInv'
  <2> DEFINE e == [items[k] EXCEPT !.ibuf = s]
  <2>1. e \in Item /\ e.id = items[k].id /\ e.obuf = items[k].obuf
    BY <1>t DEF Item
  <2>2. items' = [items EXCEPT ![k] = e]
    BY <1>13
  <2> HIDE DEF e
  <2>3. Len(items') = Len(items) /\ \A j \in 1..Len(items) : items'[j] = IF j = k THEN e ELSE items[j]
    BY <2>1, <2>2, <1>t, ExceptSeq
  <2>4. \A m \in 1..Len(items) : items'[m].id = items[m].id /\ items'[m].obuf = items[m].obuf
    BY <2>1, <2>3
  <2> QED BY <2>3, <2>4, <1>10
<1>14. ASSUME NEW k \in Entry(items, ol.id), ReadDone(k, ol)
       PROVE  BlockInv'
  <2>0. k \in 1..Len(items) /\ items[k].ibuf \in Seq(Nat) /\ ol.n \in Nat
    BY <1>7, TableElements DEF TInv, Entry, Block
  <2>1. Buffered(k, ol) \in Seq(Nat) /\ <<>> \in Seq(Nat)
    BY <2>0, AppendedTo, EmptySeq DEF Buffered
  <2>2. \/ items' = [items EXCEPT ![k].ibuf = <<>>]
        \/ items' = [items EXCEPT ![k].ibuf = Buffered(k, ol)]
        \/ hp_iocp_item_on_error(k)
    BY <1>14 DEF ReadDone
  <2> QED BY <2>0, <2>1, <2>2, <1>12, <1>13
<1>15. ASSUME NEW k \in Entry(items, ol.id), WriteDone(k, ol)
       PROVE  BlockInv'
  BY <1>8, <1>11, <1>15 DEF WriteDone
<1>16. \A k \in Entry(items, ol.id) : k \in 1..Len(items)
  BY DEF Entry
<1> QED BY <1>6, <1>11, <1>12, <1>14, <1>15, <1>16 DEF Dropped

\* on_loop: an item that ends takes its queue with it.
LEMMA LoopBlocks ==
  ASSUME TInv, BlockInv, MessagesEnd \/ ItemsStep
  PROVE  BlockInv'
<1>1. /\ UNCHANGED <<uq, port, held, sending>> /\ UNCHANGED <<pds, ioid>>
      /\ UNCHANGED written /\ UNCHANGED released
      /\ ipc \in {"msgs", "items"}
      /\ \/ UNCHANGED items
         \/ ~(ii > Len(items)) /\ hp_iocp_item_on_error(ii)
  BY DEF MessagesEnd, ItemsStep, table, pollThread
<1>2. \A b \in Block : Away(b)' => Away(b)
  BY <1>1, AwaySame
<1>3. CASE UNCHANGED items
  BY <1>1, <1>2, <1>3, ItemsStay
<1>4. CASE ~(ii > Len(items)) /\ hp_iocp_item_on_error(ii)
  <2>1. ii \in 1..Len(items) /\ ~Quit
    BY <1>1, <1>4, TableElements DEF TInv, TableTypes
  <2>2. \A m \in 1..Len(items') : \E j \in 1..Len(items) :
          j # ii /\ items'[m].id = items[j].id /\ items'[m].obuf = items[j].obuf
    BY <2>1, <1>1, <1>4, ItemGone
  <2>3. \A ol \in released' : Gone(ol)
    BY <1>1 DEF Gone
  <2> QED BY <2>2, <2>3, <1>1, <1>2, BlocksMove
<1> QED BY <1>1, <1>3, <1>4

\* hp_iocp_add: the obuf of a new item is empty.
LEMMA AddBlocks ==
  ASSUME TInv, BlockInv, hp_iocp_add
  PROVE  BlockInv'
<1> DEFINE e == [id |-> ioid, obuf |-> <<>>, ibuf |-> <<>>, rm |-> FALSE]
<1>1. /\ items' = Append(items, e) /\ UNCHANGED <<uq, port, held, sending>>
      /\ UNCHANGED written /\ UNCHANGED released /\ ioid < MaxAdds /\ ipc = "msgs"
  BY DEF hp_iocp_add, UserCalls
<1>2. e \in Item /\ e.obuf = <<>>
  <2>1. <<>> \in Seq(OutBlock) /\ <<>> \in Seq(Nat)
    BY EmptySeq
  <2>2. ioid \in Ids
    BY <1>1, TableElements DEF TInv, TableTypes, Quit
  <2> QED BY <2>1, <2>2 DEF Item
<1> HIDE DEF e
<1>3. items \in Seq(Item)
  BY DEF TInv, TableTypes
<1>4. \A m \in 1..Len(items') : items'[m] = e \/ (m \in 1..Len(items) /\ items'[m] = items[m])
  BY <1>1, <1>2, <1>3, AppendedTo
<1>5. \A m \in 1..Len(items') :
        \/ items'[m].obuf = <<>>
        \/ \E j \in 1..Len(items) :
             items'[m].id = items[j].id /\ items'[m].obuf = items[j].obuf
  BY <1>2, <1>4
<1>6. \A b \in Block : Away(b)' => Away(b)
  BY <1>1, AwaySame
<1>7. \A ol \in released' : Gone(ol)
  BY <1>1 DEF Gone
<1> QED BY <1>1, <1>5, <1>6, <1>7, BlocksMove

\* hp_iocp_rm: the obufs stay.
LEMMA RmBlocks ==
  ASSUME TInv, BlockInv, NEW id \in Ids, hp_iocp_rm(id)
  PROVE  BlockInv'
<1>1. UNCHANGED <<uq, port, held, sending>> /\ UNCHANGED written /\ UNCHANGED released
  BY DEF hp_iocp_rm
<1>2. PICK k \in Entry(items, id) : items' = [items EXCEPT ![k].rm = TRUE]
  BY DEF hp_iocp_rm
<1> DEFINE e == [items[k] EXCEPT !.rm = TRUE]
<1>t. k \in 1..Len(items) /\ items[k] \in Item /\ items \in Seq(Item)
  BY TableElements DEF TInv, TableTypes, Entry
<1>3. e \in Item /\ e.id = items[k].id /\ e.obuf = items[k].obuf
  BY <1>t DEF Item
<1>4. items' = [items EXCEPT ![k] = e]
  BY <1>2
<1> HIDE DEF e
<1>5. Len(items') = Len(items) /\ \A j \in 1..Len(items) : items'[j] = IF j = k THEN e ELSE items[j]
  BY <1>3, <1>4, <1>t, ExceptSeq
<1>6. \A m \in 1..Len(items) : items'[m].id = items[m].id /\ items'[m].obuf = items[m].obuf
  BY <1>3, <1>5
<1>7. \A b \in Block : Away(b)' => Away(b)
  BY <1>1, AwaySame
<1>8. \A ol \in released' : Gone(ol)
  BY <1>1 DEF Gone
<1> QED BY <1>1, <1>5, <1>6, <1>7, <1>8, BlocksMove

\* The poll thread starts reads, and tells the user's thread of its sockets.
LEMMA PollThreadBlocks ==
  ASSUME TInv, BlockInv, PollThreadStep
  PROVE  BlockInv'
<1>1. UNCHANGED <<items, written, released>> /\ UNCHANGED <<held, sending>>
  BY DEF PollThreadStep, Drain, Select, Scan, ScanEnds, PollThreadQuits, table
<1>2. CASE UNCHANGED <<uq, port>>
  <2>1. \A b \in Block : Away(b)' => Away(b)
    BY <1>1, <1>2, AwaySame
  <2> QED BY <2>1, <1>1, ItemsStay
<1>3. CASE Scan
  <2>1. uq \in Seq(UserMessage) /\ port \in Seq(Block \cup {QuitPacket})
    BY DEF TInv, QueueTypes
  <2>2. ASSUME NEW j \in 1..Len(uq'), uq'[j].op = "IO"
        PROVE  j \in 1..Len(uq) /\ uq'[j] = uq[j]
    <3>1. CASE UNCHANGED uq
      BY <3>1
    <3>2. CASE ~UNCHANGED uq
      <4> DEFINE id == pds[tk].id
                 flags == IF id \in rfds /\ id \in closed THEN {"ERR"}
                          ELSE IF id \in wfds THEN {"OUT"} ELSE {}
                 m == [op |-> "FD", id |-> id, flags |-> flags]
      <4>1. uq' = Append(uq, m)
        BY <1>3, <3>2 DEF Scan, Post
      <4>2. m \in UserMessage /\ m.op = "FD"
        <5>1. tk \in 1..Len(pds)
          BY <1>3, TableElements DEF TInv, TableTypes, Scan
        <5>2. id \in Ids
          BY <5>1, TableElements DEF TInv
        <5> HIDE DEF id
        <5> QED BY <5>2 DEF UserMessage
      <4> HIDE DEF m
      <4> QED BY <4>1, <4>2, <2>1, <2>2, AppendedTo
    <3> QED BY <3>1, <3>2
  <2>3. ASSUME NEW b \in Block, NEW j \in 1..Len(port'), port'[j] = b
        PROVE  Away(b) \/ (b.nbuf # -1 /\ b.kind = "r")
    <3>1. CASE UNCHANGED port
      BY <2>3, <3>1 DEF Away
    <3>2. CASE ~UNCHANGED port
      <4> DEFINE id == pds[tk].id
                 r == IF taken[id] < arrived[id] THEN hp_iocp_ol(id, "r", taken[id] + 1)
                      ELSE Failed(hp_iocp_ol(id, "r", 0))
      <4>1. port' = Append(port, r)
        BY <1>3, <3>2 DEF Scan, hp_iocp_do_read
      <4>2. r.nbuf # -1 /\ r.kind = "r" /\ r \in Block
        <5>1. tk \in 1..Len(pds)
          BY <1>3, TableElements DEF TInv, TableTypes, Scan
        <5>2. id \in Ids
          BY <5>1, TableElements DEF TInv
        <5>3. taken[id] + 1 \in Nat
          BY <5>2 DEF TInv, QueueTypes
        <5> HIDE DEF id
        <5> QED BY <5>2, <5>3 DEF hp_iocp_ol, Failed, Block
      <4> HIDE DEF r
      <4>3. b = r \/ (j \in 1..Len(port) /\ port[j] = b)
        BY <4>1, <4>2, <2>1, <2>3, AppendedTo
      <4> QED BY <4>2, <4>3 DEF Away
    <3> QED BY <3>1, <3>2
  <2>4. ASSUME NEW b \in Block, Away(b)'
        PROVE  Away(b) \/ (b.nbuf # -1 /\ b.kind = "r")
    BY <2>2, <2>3, <2>4, <1>1 DEF Away
  <2>5. \A b \in Block : Away(b)' =>
          Away(b) \/ (b.nbuf # -1 /\ (b.kind = "w" => Gone(hp_iocp_ol(b.id, "w", b.n))))
    BY <2>4
  <2> QED BY <2>5, <1>1, ItemsStay
<1>4. UNCHANGED <<uq, port>> \/ Scan
  BY DEF PollThreadStep, Drain, Select, ScanEnds, PollThreadQuits
<1> QED BY <1>2, <1>3, <1>4

\* Blocks on their way: a send that completes has sent all or nothing.
LEMMA PortBlocks ==
  ASSUME TInv, BlockInv, ~PartialSends,
         PortStep \/ SendCompletes \/ \E id \in Ids : PeerSends(id) \/ PeerCloses(id)
  PROVE  BlockInv'
<1>1. UNCHANGED <<items, written, released>>
  BY DEF PortStep, GetQueuedCompletionStatus, PostCompletion, SendCompletes, PeerSends,
         PeerCloses, table
<1>t. /\ port \in Seq(Block \cup {QuitPacket}) /\ uq \in Seq(UserMessage)
      /\ held \in [PortThreads -> Block \cup {QuitPacket, Idle}]
      /\ sending \subseteq OutBlock
  BY DEF TInv, QueueTypes
<1>i. Idle \notin Block
  <2>1. Block \subseteq [id : Int, kind : {"r", "w", "quit"}, n : Nat, nbuf : {-1, 0, 1}]
    BY TableElements DEF TInv, Block
  <2> QED BY <2>1, IocpAssumption
<1>2. ASSUME NEW t \in PortThreads, GetQueuedCompletionStatus(t)
      PROVE  BlockInv'
  <2>1. /\ port # <<>> /\ port' = Tail(port) /\ held' = [held EXCEPT ![t] = Head(port)]
        /\ UNCHANGED <<uq, sending>>
    BY <1>2 DEF GetQueuedCompletionStatus
  <2>2. /\ \A j \in 1..Len(port') : j + 1 \in 1..Len(port) /\ port'[j] = port[j + 1]
        /\ 1 \in 1..Len(port) /\ port[1] = Head(port)
    BY <2>1, <1>t, TailOf
  <2>3. \A u \in PortThreads : held'[u] = held[u] \/ held'[u] = port[1]
    BY <2>1, <2>2, <1>t
  <2>4. \A b \in Block : Away(b)' => Away(b)
    BY <2>1, <2>2, <2>3 DEF Away
  <2> QED BY <2>4, <1>1, ItemsStay
<1>3. ASSUME NEW t \in PortThreads, PostCompletion(t)
      PROVE  BlockInv'
  <2> DEFINE c == held[t]
             m == [op |-> "IO", id |-> c.id, flags |-> c]
  <2>1. /\ c \notin {Idle, QuitPacket} /\ uq' = Append(uq, m)
        /\ held' = [held EXCEPT ![t] = Idle] /\ UNCHANGED <<port, sending>>
    BY <1>3 DEF PostCompletion, Post
  <2>2. c \in Block /\ Away(c)
    BY <2>1, <1>t DEF Away
  <2> HIDE DEF c
  <2>3. m \in UserMessage /\ m.flags = c
    BY <2>2 DEF UserMessage, Block
  <2> HIDE DEF m
  <2>4. \A j \in 1..Len(uq') : uq'[j] = m \/ (j \in 1..Len(uq) /\ uq'[j] = uq[j])
    BY <2>1, <2>3, <1>t, AppendedTo
  <2>5. \A u \in PortThreads : held'[u] = held[u] \/ held'[u] \notin Block
    BY <2>1, <1>t, <1>i
  <2>6. \A b \in Block : Away(b)' => Away(b)
    <3> SUFFICES ASSUME NEW b \in Block, Away(b)' PROVE Away(b)
      OBVIOUS
    <3>1. CASE \E j \in 1..Len(uq') : uq'[j].op = "IO" /\ uq'[j].flags = b
      BY <3>1, <2>2, <2>3, <2>4 DEF Away
    <3>2. CASE \E u \in PortThreads : held'[u] = b
      BY <3>2, <2>5 DEF Away
    <3> QED BY <3>1, <3>2, <2>1 DEF Away
  <2> QED BY <2>6, <1>1, ItemsStay
<1>4. ASSUME SendCompletes
      PROVE  BlockInv'
  <2>1. PICK ol \in sending :
          sending' = sending \ {ol} /\ \E done \in {Failed(ol), ol} : port' = Append(port, done)
    BY <1>4 DEF SendCompletes
  <2>2. UNCHANGED <<uq, held>>
    BY <1>4 DEF SendCompletes
  <2>3. ol \in OutBlock
    BY <1>t
  <2>4. ol \in Block /\ Failed(ol) \in Block /\ ol.kind = "w" /\ Away(ol)
        /\ Failed(ol).nbuf # -1 /\ Failed(ol).id = ol.id /\ Failed(ol).n = ol.n
    BY <2>3 DEF OutBlock, Block, Failed, Away
  <2>5. PICK done \in Block :
          /\ port' = Append(port, done)
          /\ done = ol \/ (done.nbuf # -1 /\ done.id = ol.id /\ done.n = ol.n)
    BY <2>1, <2>4
  <2>6. \A j \in 1..Len(port') : port'[j] = done \/ (j \in 1..Len(port) /\ port'[j] = port[j])
    BY <2>5, <1>t, AppendedTo
  <2>7. Gone(hp_iocp_ol(ol.id, "w", ol.n))
    BY <2>4, AwayIsGone
  <2>8. \A b \in Block : Away(b)' => Away(b) \/ b = done
    BY <2>1, <2>2, <2>6 DEF Away
  <2>9. \A b \in Block : Away(b)' =>
          Away(b) \/ (b.nbuf # -1 /\ (b.kind = "w" => Gone(hp_iocp_ol(b.id, "w", b.n))))
    BY <2>4, <2>5, <2>7, <2>8
  <2> QED BY <2>9, <1>1, ItemsStay
<1>5. ASSUME NEW id \in Ids, PeerSends(id) \/ PeerCloses(id)
      PROVE  BlockInv'
  <2>1. UNCHANGED <<uq, port, held, sending>>
    BY <1>5 DEF PeerSends, PeerCloses
  <2>2. \A b \in Block : Away(b)' => Away(b)
    BY <2>1, AwaySame
  <2> QED BY <2>2, <1>1, ItemsStay
<1> QED BY <1>2, <1>3, <1>4, <1>5 DEF PortStep

\* hp_iocp_uninit: only blocks that had left obuf are deleted.
LEMMA UninitBlocks ==
  ASSUME TInv, BlockInv, hp_iocp_uninit
  PROVE  BlockInv'
<1>t. /\ port \in Seq(Block \cup {QuitPacket}) /\ uq \in Seq(UserMessage)
      /\ \A k \in 1..Len(uq) : uq[k] \in UserMessage
  BY ElementOfSeq DEF TInv, QueueTypes
<1>1. CASE PostQuit
  <2> DEFINE c == Cardinality(PortThreads)
             q == [k \in 1..c |-> QuitPacket]
  <2>1. /\ port' = port \o q /\ UNCHANGED <<items, written, released>>
        /\ UNCHANGED <<uq, held, sending>>
    BY <1>1 DEF PostQuit, table
  <2>2. c \in Nat
    BY IocpAssumption, FS_CardinalityType
  <2>3. q \in Seq({QuitPacket}) /\ q \in Seq(Block \cup {QuitPacket}) /\ Len(q) = c
        /\ \A k \in 1..c : q[k] = QuitPacket
    <3> HIDE DEF c
    <3>1. /\ q \in [1..c -> {QuitPacket}] /\ q \in [1..c -> Block \cup {QuitPacket}]
          /\ \A k \in 1..c : q[k] = QuitPacket
      OBVIOUS
    <3> HIDE DEF q
    <3> QED BY <3>1, <2>2, FcnIsSeq
  <2>4. QuitPacket \notin Block
    BY DEF QuitPacket, hp_iocp_ol, Block
  <2> HIDE DEF q, c
  <2>5. \A j \in 1..Len(port') :
          (j \in 1..Len(port) /\ port'[j] = port[j]) \/ port'[j] = QuitPacket
    <3>1. /\ Len(port \o q) = Len(port) + Len(q)
          /\ \A j \in 1..Len(port) + Len(q) :
               (port \o q)[j] = IF j <= Len(port) THEN port[j] ELSE q[j - Len(port)]
      BY <2>3, <1>t, ConcatProperties
    <3>2. Len(port) \in Nat /\ Len(q) = c
      BY <2>3, <1>t, LenProperties
    <3>3. \A j \in 1..Len(port) + c : (j <= Len(port) /\ j \in 1..Len(port))
                                    \/ (~(j <= Len(port)) /\ j - Len(port) \in 1..c)
      BY <3>2, <2>2
    <3> QED BY <3>1, <3>2, <3>3, <2>1, <2>3
  <2>6. \A b \in Block : Away(b)' => Away(b)
    BY <2>1, <2>4, <2>5 DEF Away
  <2> QED BY <2>1, <2>6, ItemsStay
<1>2. CASE WaitForThreads
  <2> DEFINE M == {uq[k] : k \in {j \in 1..Len(uq) : uq[j].op = "IO" /\ uq[j].flags.kind = "w"}}
  <2>1. /\ items' = <<>> /\ uq' = <<>> /\ UNCHANGED <<port, held, sending>>
        /\ UNCHANGED written
        /\ released' = released \cup {hp_iocp_ol(m.id, "w", m.flags.n) : m \in M}
    BY <1>2 DEF WaitForThreads
  <2>2. \A m \in M : Gone(hp_iocp_ol(m.id, "w", m.flags.n))
    <3> SUFFICES ASSUME NEW j \in 1..Len(uq), uq[j].op = "IO", uq[j].flags.kind = "w"
                 PROVE  Gone(hp_iocp_ol(uq[j].id, "w", uq[j].flags.n))
      OBVIOUS
    <3>1. uq[j].flags \in Block /\ Away(uq[j].flags)
      BY <1>t DEF UserMessage, Away
    <3>2. uq[j].id = uq[j].flags.id
      BY <1>t DEF UserMessage
    <3> QED BY <3>1, <3>2, AwayIsGone
  <2> HIDE DEF M
  <2>3. \A ol \in released' : Gone(ol)
    BY <2>1, <2>2 DEF Gone
  <2>4. 1..Len(<<>>) = {}
    OBVIOUS
  <2>5. \A b \in Block : Away(b)' => Away(b)
    BY <2>1, <2>4 DEF Away
  <2> QED BY <2>1, <2>3, <2>4, <2>5, BlocksMove
<1>3. CASE WaitForPollThread
  <2>1. UNCHANGED <<items, written, released>> /\ UNCHANGED <<uq, port, held, sending>>
    BY <1>3 DEF WaitForPollThread, table
  <2>2. \A b \in Block : Away(b)' => Away(b)
    BY <2>1, AwaySame
  <2> QED BY <2>1, <2>2, ItemsStay
<1> QED BY <1>1, <1>2, <1>3 DEF hp_iocp_uninit

\* No block exists at first.
LEMMA BlocksStart == IocpInit => BlockInv
<1> SUFFICES ASSUME IocpInit PROVE BlockInv
  OBVIOUS
<1>1. /\ items = <<>> /\ uq = <<>> /\ port = <<>> /\ held = [t \in PortThreads |-> Idle]
      /\ sending = {} /\ released = {}
  BY DEF IocpInit
<1>2. 1..Len(<<>>) = {}
  OBVIOUS
<1>3. Idle \notin Block
  <2>1. MaxAdds \in Nat
    BY IocpAssumption
  <2>2. Block \subseteq [id : Int, kind : {"r", "w", "quit"}, n : Nat, nbuf : {-1, 0, 1}]
    BY <2>1 DEF Block, Ids
  <2> QED BY <2>2, IocpAssumption
<1>4. \A b \in Block : ~Away(b)
  BY <1>1, <1>2, <1>3 DEF Away
<1>5. \A ol : ~Queued(ol) /\ ~Gone(ol)
  BY <1>1, <1>2, <1>4 DEF Queued, Gone
<1> QED BY <1>1, <1>2, <1>4, <1>5 DEF BlockInv

\* Every step keeps the invariant of the blocks, when no send is partial.
LEMMA BlocksKept ==
  ASSUME ~PartialSends
  PROVE  TInv /\ BlockInv /\ [IocpNext]_iocpVars => BlockInv'
<1> SUFFICES ASSUME TInv, BlockInv, [IocpNext]_iocpVars PROVE BlockInv'
  OBVIOUS
<1>1. CASE hp_iocp_add
  BY <1>1, AddBlocks
<1>2. ASSUME NEW id \in Ids, hp_iocp_write(id) \/ hp_iocp_rm(id) PROVE BlockInv'
  BY <1>2, WriteBlocks, RmBlocks
<1>3. CASE UserStep
  BY <1>3, FdBlocks, IoBlocks, LoopBlocks DEF UserStep
<1>4. CASE PollThreadStep
  BY <1>4, PollThreadBlocks
<1>5. CASE PortStep \/ SendCompletes \/ \E id \in Ids : PeerSends(id) \/ PeerCloses(id)
  BY <1>5, PortBlocks
<1>6. CASE hp_iocp_uninit
  BY <1>6, UninitBlocks
<1>7. CASE UNCHANGED iocpVars
  <2>1. UNCHANGED <<items, written, released>> /\ UNCHANGED <<uq, port, held, sending>>
    BY <1>7 DEF iocpVars
  <2>2. \A b \in Block : Away(b)' => Away(b)
    BY <2>1, AwaySame
  <2> QED BY <2>1, <2>2, ItemsStay
<1> QED BY <1>1, <1>2, <1>3, <1>4, <1>5, <1>6, <1>7 DEF IocpNext

\* A block that was deleted is in no obuf, the asserts of the poll thread hold and the
\* two tables agree, when a send that completes has sent all or nothing.  (on_write queues
\* the block of a partial send again, and the handler deletes it.)
THEOREM IocpIsSound ==
  ASSUME ~PartialSends
  PROVE  IocpSpec => []IocpSound
<1>1. TInv /\ BlockInv => NoDeletedBlock
  <2> SUFFICES ASSUME TInv, BlockInv, NEW k \in 1..Len(items), NEW ol \in released,
                      NEW j \in 1..Len(items[k].obuf), items[k].obuf[j] = ol
               PROVE  FALSE
    BY DEF NoDeletedBlock
  <2>1. ol \in OutBlock /\ Queued(ol) /\ Gone(ol)
    BY DEF TInv, QueueTypes, Queued, Gone
  <2> QED BY <2>1 DEF BlockInv
<1>2. TInv /\ BlockInv /\ [IocpNext]_iocpVars => BlockInv'
  BY BlocksKept
<1>3. IocpSpec => [](TInv /\ BlockInv)
  BY <1>2, TablesStart, TablesKept, BlocksStart, PTL DEF IocpSpec
<1>4. (IocpTypeOK /\ PollThreadAsserts /\ TablesAgree) /\ NoDeletedBlock => IocpSound
  BY DEF IocpSound
<1> QED BY <1>1, <1>3, <1>4, TablesAreSound, PTL
-----------------------------------------------------------------------------
(* HpIocp: the order of input, with one port thread *)

Read(b) == b \in Block /\ b.kind = "r" /\ b.nbuf = 1
Precedes(b, c) == Read(b) /\ Read(c) /\ b.id = c.id => b.n < c.n

\* The reads of a connection are in the message queue, with the port thread and in the
\* port in the order in which they were started.
OrderInv ==
  /\ \A i, j \in 1..Len(uq) : i < j /\ uq[i].op = "IO" /\ uq[j].op = "IO" =>
       Precedes(uq[i].flags, uq[j].flags)
  /\ \A i, j \in 1..Len(port) : i < j => Precedes(port[i], port[j])
  /\ \A i \in 1..Len(uq) : uq[i].op = "IO" =>
       /\ \A j \in 1..Len(port) : Precedes(uq[i].flags, port[j])
       /\ \A t \in PortThreads : Precedes(uq[i].flags, held[t])
  /\ \A t \in PortThreads : \A j \in 1..Len(port) : Precedes(held[t], port[j])

\* Chunks of a connection that on_data took or will find in ibuf; the reads of the
\* others are away.
Given(k) == Len(got[items[k].id]) + Len(items[k].ibuf)
ItemInput(k) ==
  /\ \A m \in 1..Len(items[k].ibuf) : items[k].ibuf[m] = Len(got[items[k].id]) + m
  /\ Given(k) <= taken[items[k].id]
  /\ \A b \in Block : Read(b) /\ Away(b) /\ b.id = items[k].id => Given(k) < b.n
  /\ \A n \in Given(k) + 1..taken[items[k].id] : Away(hp_iocp_ol(items[k].id, "r", n))

InputInv ==
  /\ \A id \in Ids : ~Quit /\ id >= ioid => taken[id] = 0 /\ got[id] = <<>>
  /\ \A b \in Block : Read(b) /\ Away(b) => 1 <= b.n /\ b.n <= taken[b.id]
  /\ \A id \in Ids : \A m \in 1..Len(got[id]) : got[id][m] = m
  /\ \A k \in 1..Len(items) : ItemInput(k)

\* The types these proofs use.
LEMMA InputTypes ==
  ASSUME TInv
  PROVE  /\ uq \in Seq(UserMessage) /\ Len(uq) \in Nat
         /\ port \in Seq(Block \cup {QuitPacket}) /\ Len(port) \in Nat
         /\ held \in [PortThreads -> Block \cup {QuitPacket, Idle}]
         /\ got \in [Ids -> Seq(Nat)] /\ taken \in [Ids -> Nat]
         /\ \A id \in Ids : Len(got[id]) \in Nat /\ taken[id] \in Nat /\ id \in Nat
         /\ \A k \in 1..Len(items) :
              /\ items[k] \in Item /\ items[k].id \in Ids /\ items[k].ibuf \in Seq(Nat)
              /\ Len(items[k].ibuf) \in Nat /\ Given(k) \in Nat
         /\ \A b \in Block : b.id \in Ids /\ b.n \in Nat
         /\ \A id \in Ids, n \in Nat :
              /\ Read(hp_iocp_ol(id, "r", n)) /\ hp_iocp_ol(id, "r", n) \in Block
              /\ hp_iocp_ol(id, "r", n).id = id /\ hp_iocp_ol(id, "r", n).n = n
         /\ \A b : Read(b) => b \notin sending /\ b = hp_iocp_ol(b.id, "r", b.n)
         /\ QuitPacket \notin Block /\ Idle \notin Block
<1>1. /\ uq \in Seq(UserMessage) /\ port \in Seq(Block \cup {QuitPacket})
      /\ held \in [PortThreads -> Block \cup {QuitPacket, Idle}]
      /\ got \in [Ids -> Seq(Nat)] /\ taken \in [Ids -> Nat] /\ sending \subseteq OutBlock
  BY DEF TInv, QueueTypes
<1>2. Len(uq) \in Nat /\ Len(port) \in Nat
  BY <1>1, LenProperties
<1>3. Ids = 0..MaxAdds - 1 /\ MaxAdds \in Nat
  BY TableElements DEF TInv
<1>4. \A id \in Ids : Len(got[id]) \in Nat /\ taken[id] \in Nat /\ id \in Nat
  <2>1. \A id \in Ids : got[id] \in Seq(Nat) /\ taken[id] \in Nat /\ id \in Nat
    BY <1>1, <1>3
  <2> QED BY <2>1, LenProperties
<1>5. \A k \in 1..Len(items) :
        /\ items[k] \in Item /\ items[k].id \in Ids /\ items[k].ibuf \in Seq(Nat)
        /\ Len(items[k].ibuf) \in Nat
  BY TableElements, LenProperties DEF TInv
<1>6. ASSUME NEW k \in 1..Len(items) PROVE Given(k) \in Nat
  <2>1. Len(got[items[k].id]) \in Nat /\ Len(items[k].ibuf) \in Nat
    BY <1>4, <1>5
  <2>2. \A x, y \in Nat : x + y \in Nat
    OBVIOUS
  <2>3. Given(k) = Len(got[items[k].id]) + Len(items[k].ibuf)
    BY Zenon DEF Given
  <2> QED BY <2>1, <2>2, <2>3
<1>7. \A b \in Block : b.id \in Ids /\ b.n \in Nat
  BY DEF Block
<1>8. \A id \in Ids, n \in Nat :
        /\ Read(hp_iocp_ol(id, "r", n)) /\ hp_iocp_ol(id, "r", n) \in Block
        /\ hp_iocp_ol(id, "r", n).id = id /\ hp_iocp_ol(id, "r", n).n = n
  BY DEF Read, hp_iocp_ol, Block
<1>9. ASSUME NEW b, Read(b) PROVE b \notin sending /\ b = hp_iocp_ol(b.id, "r", b.n)
  <2>1. b \in Block /\ b.kind = "r" /\ b.nbuf = 1
    BY <1>9 DEF Read
  <2>2. b \notin OutBlock
    BY <2>1 DEF OutBlock
  <2>3. b = hp_iocp_ol(b.id, "r", b.n)
    BY <2>1 DEF Block, hp_iocp_ol
  <2> QED BY <2>2, <2>3, <1>1
<1>10. QuitPacket \notin Block
  BY DEF QuitPacket, hp_iocp_ol, Block
<1>11. Idle \notin Block
  <2>1. Block \subseteq [id : Int, kind : {"r", "w", "quit"}, n : Nat, nbuf : {-1, 0, 1}]
    BY <1>3 DEF Block
  <2> QED BY <2>1, IocpAssumption
<1> QED BY <1>1, <1>2, <1>4, <1>5, <1>6, <1>7, <1>8, <1>9, <1>10, <1>11

\* Steps that start no read and give on_data nothing.
LEMMA InputStays ==
  ASSUME TInv, InputInv, UNCHANGED <<taken, got>>,
         \A id \in Ids : ~Quit' /\ id >= ioid' => ~Quit /\ id >= ioid,
         \A m \in 1..Len(items') :
           \/ /\ items'[m].id \in Ids /\ items'[m].ibuf = <<>>
              /\ ~Quit /\ items'[m].id >= ioid
           \/ \E j \in 1..Len(items) :
                items'[m].id = items[j].id /\ items'[m].ibuf = items[j].ibuf,
         \A b \in Block : Read(b) /\ Away(b)' => Away(b),
         \A m \in 1..Len(items'), b \in Block :
           Read(b) /\ b.id = items'[m].id /\ Away(b) => Away(b)'
  PROVE  InputInv'
<1>1. \A id \in Ids : ~Quit' /\ id >= ioid' => taken'[id] = 0 /\ got'[id] = <<>>
  BY DEF InputInv
<1>2. \A b \in Block : Read(b) /\ Away(b)' => 1 <= b.n /\ b.n <= taken'[b.id]
  BY DEF InputInv
<1>3. \A id \in Ids : \A m \in 1..Len(got'[id]) : got'[id][m] = m
  BY DEF InputInv
<1>4. ASSUME NEW k \in 1..Len(items'), items'[k].id \in Ids, items'[k].ibuf = <<>>,
             ~Quit, items'[k].id >= ioid
      PROVE  ItemInput(k)'
  <2>1. taken[items'[k].id] = 0 /\ got[items'[k].id] = <<>>
    BY <1>4 DEF InputInv
  <2>2. Len(<<>>) = 0 /\ 1..0 = {}
    OBVIOUS
  <2>3. Given(k)' = 0
    BY <2>1, <2>2, <1>4 DEF Given
  <2>4. \A b \in Block : ~(Read(b) /\ Away(b)' /\ b.id = items'[k].id)
    <3> SUFFICES ASSUME NEW b \in Block, Read(b), Away(b)', b.id = items'[k].id
                 PROVE  FALSE
      OBVIOUS
    <3>1. 1 <= b.n /\ b.n <= 0 /\ b.n \in Nat
      BY <2>1, InputTypes DEF InputInv
    <3> QED BY <3>1
  <2>5. taken'[items'[k].id] = 0 /\ Len(got'[items'[k].id]) = 0 /\ Len(items'[k].ibuf) = 0
    BY <2>1, <2>2, <1>4
  <2>6. 0 + 1..0 = {}
    OBVIOUS
  <2> QED BY <2>2, <2>3, <2>4, <2>5, <2>6 DEF ItemInput, Read
<1>5. ASSUME NEW k \in 1..Len(items'), NEW j \in 1..Len(items),
             items'[k].id = items[j].id, items'[k].ibuf = items[j].ibuf
      PROVE  ItemInput(k)'
  <2>1. items'[k].id = items[j].id /\ items'[k].ibuf = items[j].ibuf
    BY <1>5
  <2>2. ItemInput(j) /\ Given(k)' = Given(j)
    BY <2>1 DEF InputInv, Given
  <2>p. PICK g \in Nat, T \in Nat : g = Given(j) /\ T = taken[items[j].id]
    BY InputTypes
  <2>3. /\ \A m \in 1..Len(items'[k].ibuf) : items'[k].ibuf[m] = Len(got'[items'[k].id]) + m
        /\ Given(j) <= taken'[items'[k].id] /\ taken'[items'[k].id] = T
    BY <2>1, <2>2, <2>p DEF ItemInput
  <2>4. \A b \in Block : Read(b) /\ Away(b)' /\ b.id = items'[k].id => Given(j) < b.n
    BY <2>1, <2>2 DEF ItemInput
  <2>5. ASSUME NEW n \in g + 1..T
        PROVE  Away(hp_iocp_ol(items[k].id, "r", n))'
    <3>1. n \in Nat /\ items[j].id \in Ids
      BY InputTypes
    <3>2. PICK b \in Block : b = hp_iocp_ol(items[j].id, "r", n)
      BY <3>1, InputTypes
    <3>a. Away(b)
      BY <3>2, <2>2, <2>p DEF ItemInput
    <3>3. Away(b) /\ Read(b) /\ b.id = items[j].id
      BY <3>1, <3>2, <3>a, InputTypes
    <3>4. Away(b)'
      BY <3>3, <2>1
    <3>5. b = hp_iocp_ol(items[k].id, "r", n)'
      BY <3>2, <2>1 DEF hp_iocp_ol
    <3> QED BY <3>4, <3>5 DEF Away
  <2> QED BY <2>p, <2>2, <2>3, <2>4, <2>5 DEF ItemInput, Read
<1>6. \A k \in 1..Len(items') : ItemInput(k)'
  BY <1>4, <1>5
<1> QED BY <1>1, <1>2, <1>3, <1>6 DEF InputInv, Read

\* Steps that add at most one read to the port, later than the others of its connection.
LEMMA OrderStays ==
  ASSUME TInv, OrderInv, UNCHANGED held,
         \A j \in 1..Len(uq') : uq'[j].op = "IO" => j \in 1..Len(uq) /\ uq'[j] = uq[j],
         \A j \in 1..Len(port') :
           \/ j \in 1..Len(port) /\ port'[j] = port[j]
           \/ ~Read(port'[j])
           \/ /\ j = Len(port) + 1
              /\ \A b \in Block : Read(b) /\ Away(b) /\ b.id = port'[j].id => b.n < port'[j].n
  PROVE  OrderInv'
<1>t. Len(port) \in Nat
  BY InputTypes
<1>1. \A i, j \in 1..Len(uq') : i < j /\ uq'[i].op = "IO" /\ uq'[j].op = "IO" =>
        Precedes(uq'[i].flags, uq'[j].flags)
  BY DEF OrderInv
<1>2. ASSUME NEW b, NEW j \in 1..Len(port'),
             \/ \E i \in 1..Len(uq) : uq[i].op = "IO" /\ uq[i].flags = b
             \/ \E t \in PortThreads : held[t] = b
      PROVE  Precedes(b, port'[j])
  <2>1. CASE j \in 1..Len(port) /\ port'[j] = port[j]
    BY <2>1, <1>2 DEF OrderInv
  <2>2. CASE ~Read(port'[j])
    BY <2>2 DEF Precedes
  <2>3. CASE \A c \in Block : Read(c) /\ Away(c) /\ c.id = port'[j].id => c.n < port'[j].n
    BY <2>3, <1>2 DEF Precedes, Read, Away
  <2> QED BY <2>1, <2>2, <2>3
<1>3. ASSUME NEW i \in 1..Len(port'), NEW j \in 1..Len(port'), i < j
      PROVE  Precedes(port'[i], port'[j])
  <2>1. CASE ~Read(port'[j]) \/ ~Read(port'[i])
    BY <2>1 DEF Precedes
  <2>2. CASE i \in 1..Len(port) /\ j \in 1..Len(port)
    <3>1. port'[i] = port[i] \/ ~Read(port'[i])
      BY <2>2, <1>t
    <3>2. port'[j] = port[j] \/ ~Read(port'[j])
      BY <2>2, <1>t
    <3> QED BY <3>1, <3>2, <2>1, <2>2, <1>3 DEF OrderInv
  <2>3. CASE i \in 1..Len(port) /\ j = Len(port) + 1 /\ Read(port'[j])
    <3>1. \A b \in Block : Read(b) /\ Away(b) /\ b.id = port'[j].id => b.n < port'[j].n
      BY <2>3, <1>t
    <3>2. port'[i] = port[i] \/ ~Read(port'[i])
      BY <2>3, <1>t
    <3>3. Away(port[i])
      BY <2>3 DEF Away
    <3> QED BY <3>1, <3>2, <3>3, <2>1 DEF Precedes, Read
  <2> QED BY <2>1, <2>2, <2>3, <1>3, <1>t
<1>4. \A i \in 1..Len(uq') : uq'[i].op = "IO" =>
        /\ \A j \in 1..Len(port') : Precedes(uq'[i].flags, port'[j])
        /\ \A t \in PortThreads : Precedes(uq'[i].flags, held'[t])
  BY <1>2 DEF OrderInv
<1>5. \A t \in PortThreads : \A j \in 1..Len(port') : Precedes(held'[t], port'[j])
  BY <1>2
<1> QED BY <1>1, <1>3, <1>4, <1>5 DEF OrderInv, Precedes, Read

\* Steps that leave the queues alone leave their order.
LEMMA OrderSame ==
  ASSUME TInv, OrderInv, UNCHANGED <<uq, port, held>>
  PROVE  OrderInv'
<1>1. UNCHANGED held /\ UNCHANGED uq /\ UNCHANGED port
  OBVIOUS
<1> QED BY <1>1, OrderStays

\* The first message of the user's thread is taken: the others keep their order.
LEMMA OrderTaken ==
  ASSUME TInv, OrderInv, NextMessage
  PROVE  OrderInv'
<1>1. uq' = Tail(uq) /\ uq # <<>> /\ UNCHANGED <<port, held>>
  BY DEF NextMessage
<1>2. \A j \in 1..Len(uq') : j + 1 \in 1..Len(uq) /\ uq'[j] = uq[j + 1] /\ j \in Nat
  BY <1>1, InputTypes, TailOf
<1>3. \A i, j \in 1..Len(uq') : i < j => i + 1 < j + 1
  BY <1>2
<1> QED BY <1>1, <1>2, <1>3 DEF OrderInv, Precedes, Read

\* The only port thread takes a completion when it holds none, so what it posts comes
\* before what is in the port.
LEMMA OrderInPort ==
  ASSUME TInv, OrderInv, \A t, u \in PortThreads : t = u, NEW t \in PortThreads,
         GetQueuedCompletionStatus(t) \/ PostCompletion(t)
  PROVE  OrderInv'
<1>t. /\ \A u \in PortThreads : u = t
      /\ held \in [PortThreads -> Block \cup {QuitPacket, Idle}]
      /\ port \in Seq(Block \cup {QuitPacket}) /\ uq \in Seq(UserMessage)
      /\ Len(port) \in Nat /\ Len(uq) \in Nat
      /\ Idle \notin Block
  BY InputTypes
<1>1. CASE GetQueuedCompletionStatus(t)
  <2>1. /\ port # <<>> /\ port' = Tail(port) /\ held' = [held EXCEPT ![t] = Head(port)]
        /\ UNCHANGED uq
    BY <1>1 DEF GetQueuedCompletionStatus
  <2>2. /\ \A j \in 1..Len(port') : j + 1 \in 1..Len(port) /\ port'[j] = port[j + 1] /\ j \in Nat
        /\ 1 \in 1..Len(port) /\ port[1] = Head(port)
    BY <2>1, <1>t, TailOf
  <2>3. \A u \in PortThreads : held'[u] = port[1]
    BY <2>1, <2>2, <1>t
  <2>4. \A i, j \in 1..Len(port') : i < j => i + 1 < j + 1
    BY <2>2
  <2>5. \A j \in 1..Len(port') : 1 < j + 1
    BY <2>2
  <2>6. \A i, j \in 1..Len(port') : i < j => Precedes(port'[i], port'[j])
    BY <2>2, <2>4 DEF OrderInv
  <2>7. \A u \in PortThreads : \A j \in 1..Len(port') : Precedes(held'[u], port'[j])
    BY <2>2, <2>3, <2>5 DEF OrderInv
  <2>8. \A i \in 1..Len(uq) : uq[i].op = "IO" =>
          /\ \A j \in 1..Len(port') : Precedes(uq[i].flags, port'[j])
          /\ \A u \in PortThreads : Precedes(uq[i].flags, held'[u])
    BY <2>2, <2>3 DEF OrderInv
  <2> QED BY <2>1, <2>6, <2>7, <2>8, ZenonT(60) DEF OrderInv, Precedes, Read
<1>2. CASE PostCompletion(t)
  <2> DEFINE m == [op |-> "IO", id |-> held[t].id, flags |-> held[t]]
  <2>1. /\ held[t] \notin {Idle, QuitPacket} /\ uq' = Append(uq, m)
        /\ held' = [held EXCEPT ![t] = Idle] /\ UNCHANGED port
    BY <1>2 DEF PostCompletion, Post
  <2>2. m \in UserMessage /\ m.op = "IO" /\ m.flags = held[t]
    <3>1. held[t] \in Block
      BY <2>1, <1>t
    <3> QED BY <3>1 DEF UserMessage
  <2> HIDE DEF m
  <2>3. /\ \A j \in 1..Len(uq) : j \in 1..Len(uq') /\ uq'[j] = uq[j]
        /\ uq'[Len(uq) + 1] = m
        /\ \A j \in 1..Len(uq') : j \in Nat /\ (j = Len(uq) + 1 \/ j \in 1..Len(uq))
    BY <2>1, <2>2, <1>t, AppendedTo
  <2>4. \A u \in PortThreads : ~Read(held'[u])
    BY <2>1, <1>t DEF Read
  <2>5. ASSUME NEW i \in 1..Len(uq'), NEW j \in 1..Len(uq'), i < j,
               uq'[i].op = "IO", uq'[j].op = "IO"
        PROVE  Precedes(uq'[i].flags, uq'[j].flags)
    <3>1. i \in 1..Len(uq) /\ uq'[i] = uq[i]
      BY <2>3, <2>5, <1>t
    <3>2. CASE j \in 1..Len(uq)
      BY <3>1, <3>2, <2>3, <2>5 DEF OrderInv
    <3>3. CASE j = Len(uq) + 1
      BY <3>1, <3>3, <2>2, <2>3, <2>5 DEF OrderInv
    <3> QED BY <3>2, <3>3, <2>3
  <2>6. ASSUME NEW i \in 1..Len(uq'), uq'[i].op = "IO"
        PROVE  /\ \A j \in 1..Len(port) : Precedes(uq'[i].flags, port[j])
               /\ \A u \in PortThreads : Precedes(uq'[i].flags, held'[u])
    <3>1. \A j \in 1..Len(port) : Precedes(uq'[i].flags, port[j])
      BY <2>2, <2>3, <2>6 DEF OrderInv
    <3>2. \A u \in PortThreads : Precedes(uq'[i].flags, held'[u])
      BY <2>4 DEF Precedes
    <3> QED BY <3>1, <3>2
  <2>7. \A u \in PortThreads : \A j \in 1..Len(port) : Precedes(held'[u], port[j])
    BY <2>4 DEF Precedes
  <2>8. \A i, j \in 1..Len(port) : i < j => Precedes(port[i], port[j])
    BY DEF OrderInv
  <2> QED BY <2>1, <2>5, <2>6, <2>7, <2>8 DEF OrderInv, Precedes, Read
<1> QED BY <1>1, <1>2

\* A read is no block of an obuf, nor a send of the system.
LEMMA ReadNotOut == \A b : Read(b) => b \notin OutBlock
BY DEF Read, OutBlock

\* A message that was taken: other reads are where they were.
LEMMA ReadsTaken ==
  ASSUME TInv, TInv', NextMessage, NEW b, Read(b)
  PROVE  /\ Away(b)' => Away(b)
         /\ Away(b) /\ ~(Head(uq).op = "IO" /\ Head(uq).flags = b) => Away(b)'
<1>1. uq' = Tail(uq) /\ uq # <<>> /\ UNCHANGED <<port, held>>
  BY DEF NextMessage
<1>2. /\ \A j \in 1..Len(uq') : j + 1 \in 1..Len(uq) /\ uq'[j] = uq[j + 1]
      /\ uq[1] = Head(uq)
      /\ \A j \in 1..Len(uq) : j = 1 \/ (j - 1 \in 1..Len(uq') /\ uq'[j - 1] = uq[j])
  BY <1>1, InputTypes, TailOf
<1>3. b \notin sending /\ b \notin sending'
  BY ReadNotOut DEF TInv, QueueTypes
<1>4. ASSUME Away(b)' PROVE Away(b)
  <2>1. CASE \E j \in 1..Len(uq') : uq'[j].op = "IO" /\ uq'[j].flags = b
    BY <1>2, <2>1, ZenonT(60) DEF Away
  <2> QED BY <1>1, <1>3, <1>4, <2>1 DEF Away
<1>5. ASSUME Away(b), ~(Head(uq).op = "IO" /\ Head(uq).flags = b) PROVE Away(b)'
  <2>1. CASE \E j \in 1..Len(uq) : uq[j].op = "IO" /\ uq[j].flags = b
    <3>1. PICK j \in 1..Len(uq) : uq[j].op = "IO" /\ uq[j].flags = b
      BY <2>1
    <3>2. j # 1
      BY <3>1, <1>2, <1>5
    <3>3. j - 1 \in 1..Len(uq') /\ uq'[j - 1] = uq[j]
      BY <3>2, <1>2
    <3> QED BY <3>1, <3>3 DEF Away
  <2> QED BY <1>1, <1>3, <1>5, <2>1 DEF Away
<1> QED BY <1>4, <1>5

\* A read that is handled comes before every other read of its connection.
LEMMA FirstRead ==
  ASSUME TInv, TInv', OrderInv, NextMessage, Head(uq).op = "IO", Read(Head(uq).flags),
         NEW b, Read(b), Away(b)', b.id = Head(uq).flags.id
  PROVE  Head(uq).flags.n < b.n
<1>1. uq' = Tail(uq) /\ uq # <<>> /\ UNCHANGED <<port, held>>
  BY DEF NextMessage
<1>2. /\ \A j \in 1..Len(uq') : /\ j + 1 \in 1..Len(uq) /\ uq'[j] = uq[j + 1]
                                /\ 1 < j + 1
      /\ uq[1] = Head(uq) /\ 1 \in 1..Len(uq)
  <2>1. /\ \A j \in 1..Len(uq') : /\ j + 1 \in 1..Len(uq) /\ uq'[j] = uq[j + 1] /\ j \in Nat
        /\ uq[1] = Head(uq) /\ 1 \in 1..Len(uq)
    BY <1>1, InputTypes, TailOf
  <2>2. \A j \in 1..Len(uq') : 1 < j + 1
    BY <2>1
  <2> QED BY <2>1, <2>2
<1>3. b \notin sending'
  BY ReadNotOut DEF TInv, QueueTypes
<1>4. Precedes(Head(uq).flags, b)
  <2>1. CASE \E j \in 1..Len(uq') : uq'[j].op = "IO" /\ uq'[j].flags = b
    BY <2>1, <1>2 DEF OrderInv
  <2>2. CASE \E j \in 1..Len(port) : port[j] = b
    BY <2>2, <1>2 DEF OrderInv
  <2>3. CASE \E t \in PortThreads : held[t] = b
    BY <2>3, <1>2 DEF OrderInv
  <2> QED BY <1>1, <1>3, <2>1, <2>2, <2>3 DEF Away
<1> QED BY <1>4 DEF Precedes

\* One item changes in place: ids and the other ibufs.
LEMMA ItemFields ==
  ASSUME TInv, NEW k \in 1..Len(items), NEW e \in Item, items' = [items EXCEPT ![k] = e],
         e.id = items[k].id
  PROVE  /\ Len(items') = Len(items)
         /\ \A m \in 1..Len(items) :
              /\ items'[m].id = items[m].id
              /\ m # k => items'[m].ibuf = items[m].ibuf
         /\ items'[k].ibuf = e.ibuf
<1>1. items \in Seq(Item)
  BY DEF TInv, TableTypes
<1>2. Len(items') = Len(items) /\ \A j \in 1..Len(items) : items'[j] = IF j = k THEN e ELSE items[j]
  BY <1>1, ExceptSeq
<1> QED BY <1>2

\* on_data gets the next chunk: it takes it or leaves it in ibuf.
Delivered(k, ol) ==
  /\ Len(items') = Len(items)
  /\ \A m \in 1..Len(items) : /\ items'[m].id = items[m].id
                              /\ m # k => items'[m].ibuf = items[m].ibuf
  /\ \A x \in Ids : x # items[k].id => got'[x] = got[x]
  /\ \/ /\ got'[items[k].id] = got[items[k].id] \o Buffered(k, ol)
        /\ items'[k].ibuf = <<>>
     \/ /\ got'[items[k].id] = got[items[k].id]
        /\ items'[k].ibuf = Buffered(k, ol)

\* on_data gets the chunk after those it had: reads are handled in order, none is lost.
LEMMA DeliverInput ==
  ASSUME TInv, TInv', OrderInv, InputInv, NextMessage, Head(uq).op = "IO",
         NEW k \in 1..Len(items), NEW ol, ol = Head(uq).flags, Read(ol), ol.id = items[k].id,
         Delivered(k, ol)
  PROVE  InputInv'
<1>p. /\ items[k].id \in Ids /\ items[k].ibuf \in Seq(Nat) /\ got[items[k].id] \in Seq(Nat)
      /\ Given(k) \in Nat /\ Len(got[items[k].id]) \in Nat /\ Len(items[k].ibuf) \in Nat
      /\ taken[items[k].id] \in Nat /\ ol \in Block /\ ol.n \in Nat
  BY InputTypes DEF Read
<1>q. PICK id \in Ids, s \in Seq(Nat), g \in Seq(Nat) :
        id = items[k].id /\ s = items[k].ibuf /\ g = got[items[k].id]
  BY <1>p
<1>r. PICK L \in Nat, G \in Nat, I \in Nat, T \in Nat :
        L = Given(k) /\ G = Len(g) /\ I = Len(s) /\ T = taken[id]
  BY <1>p, <1>q
<1>s. ol.n \in Nat /\ L \in Nat /\ T \in Nat
  BY <1>p, <1>r
<1>t. L = G + I /\ got[id] = g
  BY <1>q, <1>r DEF Given
<1>u. UNCHANGED <<ioid, taken>>
  BY DEF NextMessage
<1>i. /\ \A m \in 1..I : s[m] = G + m
      /\ L <= T
      /\ \A b \in Block : Read(b) /\ Away(b) /\ b.id = id => L < b.n
      /\ \A n \in L + 1..T : Away(hp_iocp_ol(id, "r", n))
  <2>1. ItemInput(k)
    BY DEF InputInv
  <2> QED BY <2>1, <1>q, <1>r DEF ItemInput
<1>v. UNCHANGED ioid /\ UNCHANGED taken
  BY <1>u
<1>w. /\ Len(items') = Len(items) /\ items'[k].id = id
      /\ \A m \in 1..Len(items) : /\ items'[m].id = items[m].id
                                  /\ m # k => items'[m].ibuf = items[m].ibuf
      /\ \A x \in Ids : x # id => got'[x] = got[x]
      /\ \/ got'[id] = g \o Buffered(k, ol) /\ items'[k].ibuf = <<>>
         \/ got'[id] = g /\ items'[k].ibuf = Buffered(k, ol)
  BY <1>q DEF Delivered
<1>1. Away(ol)
  <2>1. 1 \in 1..Len(uq) /\ uq[1] = Head(uq)
    <3>1. uq # <<>>
      BY DEF NextMessage
    <3> QED BY <3>1, InputTypes, TailOf
  <2> QED BY <2>1 DEF Away
<1>2. L < ol.n /\ ol.n <= T /\ ol.id = id
  BY <1>1, <1>i, <1>p, <1>q, <1>r DEF InputInv
<1>3. ol.n = L + 1
  <2> SUFFICES ASSUME ol.n # L + 1 PROVE FALSE
    OBVIOUS
  <2>1. L + 1 \in L + 1..T /\ L + 1 < ol.n /\ L + 1 \in Nat
    BY <1>2, <1>s
  <2>2. PICK b \in Block : b = hp_iocp_ol(id, "r", L + 1)
    BY <2>1, InputTypes
  <2>3. Read(b) /\ b.id = id /\ b.n = L + 1
    BY <2>1, <2>2, InputTypes
  <2>a. Away(b)
    BY <2>1, <2>2, <1>i
  <2>4. b # ol
    BY <2>1, <2>3
  <2>5. Away(b)'
    BY <2>3, <2>4, <2>a, ReadsTaken
  <2>6. ol.n < b.n
    BY <2>3, <2>5, <1>2, FirstRead
  <2> QED BY <2>1, <2>3, <2>6, <1>s
<1>4. \A b \in Block : Read(b) /\ Away(b)' /\ b.id = id => L + 1 < b.n
  BY <1>2, <1>3, FirstRead
<1>5. \A b \in Block : Read(b) /\ Away(b)' => Away(b)
  BY ReadsTaken
<1>6. \A b \in Block : Read(b) /\ Away(b) /\ b # ol => Away(b)'
  BY ReadsTaken
<1>7. /\ Buffered(k, ol) \in Seq(Nat) /\ Len(Buffered(k, ol)) = I + 1
      /\ \A m \in 1..I + 1 : Buffered(k, ol)[m] = G + m
  <2> DEFINE a == Append(s, ol.n)
  <2>1. /\ a \in Seq(Nat) /\ Len(a) = I + 1
        /\ \A m \in 1..I : a[m] = s[m]
        /\ a[I + 1] = ol.n
        /\ \A m \in 1..Len(a) : m = I + 1 \/ m \in 1..I
    <3>1. s \in Seq(Nat) /\ ol.n \in Nat /\ Len(s) = I
      BY <1>p, <1>q, <1>r
    <3> QED BY <3>1, AppendedTo
  <2>2. ol.n = G + (I + 1)
    BY <1>3, <1>t
  <2>3. Buffered(k, ol) = a
    BY <1>q DEF Buffered
  <2> HIDE DEF a
  <2> QED BY <2>1, <2>2, <2>3, <1>i
\* what the connection was given, and what is left in ibuf
<1>8. /\ \A m \in 1..Len(got'[id]) : got'[id][m] = m
      /\ \A m \in 1..Len(items'[k].ibuf) : items'[k].ibuf[m] = Len(got'[id]) + m
      /\ Len(got'[id]) + Len(items'[k].ibuf) = L + 1
  <2> DEFINE B == Buffered(k, ol)
             c == g \o B
  <2>0. \A m \in 1..G : g[m] = m
    BY <1>r, <1>t DEF InputInv
  <2>b. /\ B \in Seq(Nat) /\ Len(B) = I + 1 /\ \A m \in 1..I + 1 : B[m] = G + m
        /\ \/ got'[id] = c /\ items'[k].ibuf = <<>>
           \/ got'[id] = g /\ items'[k].ibuf = B
    BY <1>7, <1>w
  <2> HIDE DEF B
  <2>1. CASE got'[id] = g /\ items'[k].ibuf = B
    <3>1. G + (I + 1) = L + 1
      BY <1>t
    <3> QED BY <3>1, <2>0, <2>1, <2>b, <1>r
  <2>2. CASE got'[id] = c /\ items'[k].ibuf = <<>>
    <3>2. Len(<<>>) = 0 /\ 1..0 = {}
      OBVIOUS
    <3>3. Len(c) = L + 1 /\ \A m \in 1..L + 1 : c[m] = IF m <= G THEN g[m] ELSE B[m - G]
      <4>1. /\ Len(c) = Len(g) + Len(B)
            /\ \A m \in 1..Len(g) + Len(B) : c[m] = IF m <= Len(g) THEN g[m] ELSE B[m - Len(g)]
        BY <2>b, ConcatProperties
      <4>2. Len(g) + Len(B) = L + 1 /\ Len(g) = G
        BY <2>b, <1>r, <1>t
      <4> QED BY <4>1, <4>2
    <3> HIDE DEF c
    <3>5. ASSUME NEW m \in 1..L + 1 PROVE c[m] = m
      <4>1. CASE m <= G
        <5>1. m \in 1..G
          BY <4>1
        <5> QED BY <5>1, <4>1, <3>3, <2>0
      <4>2. CASE ~(m <= G)
        <5>1. m - G \in 1..I + 1 /\ G + (m - G) = m
          BY <4>2, <1>t
        <5> QED BY <5>1, <4>2, <3>3, <2>b
      <4> QED BY <4>1, <4>2
    <3>6. L + 1 + 0 = L + 1
      OBVIOUS
    <3> QED BY <3>2, <3>3, <3>5, <3>6, <2>2
  <2> QED BY <2>1, <2>2, <2>b
<1>d. \A m \in 1..Len(items) : m # k => items[m].id # id
  BY <1>q, IdsDiffer
<1>9. ASSUME NEW m \in 1..Len(items') PROVE ItemInput(m)'
  <2>1. CASE m = k
    <3>1. Given(k)' = L + 1 /\ items'[k].id = id
      BY <1>8, <1>w DEF Given
    <3>2. L + 1 <= T /\ taken'[id] = T
      BY <1>2, <1>3, <1>r, <1>v
    <3>3. ASSUME NEW n \in L + 1 + 1..T
          PROVE  Away(hp_iocp_ol(items[k].id, "r", n))'
      <4>1. n \in L + 1..T /\ n \in Nat /\ n # L + 1
        BY <3>3
      <4>2. PICK b \in Block : b = hp_iocp_ol(id, "r", n)
        BY <4>1, InputTypes
      <4>a. Away(b)
        BY <4>1, <4>2, <1>i
      <4>3. Read(b) /\ b # ol
        BY <4>1, <4>2, <1>3, InputTypes
      <4>4. Away(b)'
        BY <4>3, <4>a, <1>6
      <4>5. b = hp_iocp_ol(items[k].id, "r", n)'
        BY <4>2, <3>1 DEF hp_iocp_ol
      <4> QED BY <4>4, <4>5 DEF Away
    <3>4. \A n \in Given(k)' + 1..taken'[items'[k].id] : Away(hp_iocp_ol(items[k].id, "r", n))'
      BY <3>1, <3>2, <3>3
    <3>5. \A b \in Block : Read(b) /\ Away(b)' /\ b.id = items'[k].id => Given(k)' < b.n
      BY <3>1, <1>4
    <3> QED BY <2>1, <3>1, <3>2, <3>4, <3>5, <1>8 DEF ItemInput, Read
  <2>2. CASE m # k
    <3>0. /\ m \in 1..Len(items) /\ items'[m].id = items[m].id /\ items'[m].ibuf = items[m].ibuf
          /\ items[m].id # id /\ items[m].id \in Ids
      BY <2>2, <1>d, <1>w, InputTypes
    <3>1. got'[items[m].id] = got[items[m].id]
      BY <3>0, <1>w
    <3>2. ItemInput(m) /\ Given(m)' = Given(m)
      BY <3>0, <3>1 DEF InputInv, Given
    <3>p. PICK M \in Nat, N \in Nat : M = Given(m) /\ N = taken[items[m].id]
      BY <3>0, InputTypes
    <3>3. ASSUME NEW n \in M + 1..N
          PROVE  Away(hp_iocp_ol(items[m].id, "r", n))'
      <4>1. n \in Nat
        OBVIOUS
      <4>2. PICK b \in Block : b = hp_iocp_ol(items[m].id, "r", n)
        BY <4>1, <3>0, InputTypes
      <4>a. Away(b)
        BY <4>2, <3>2, <3>p DEF ItemInput
      <4>b. Read(b) /\ b.id = items[m].id
        BY <4>1, <4>2, <3>0, InputTypes
      <4>3. Read(b) /\ b # ol
        BY <4>b, <3>0, <1>2
      <4>4. Away(b)'
        BY <4>3, <4>a, <1>6
      <4>5. b = hp_iocp_ol(items[m].id, "r", n)'
        BY <4>2, <3>0 DEF hp_iocp_ol
      <4> QED BY <4>4, <4>5 DEF Away
    <3>4. /\ \A i \in 1..Len(items'[m].ibuf) : items'[m].ibuf[i] = Len(got'[items'[m].id]) + i
          /\ Given(m) <= taken'[items'[m].id] /\ taken'[items'[m].id] = N
      BY <3>p, <3>0, <3>1, <3>2, <1>v DEF ItemInput
    <3>5. \A b \in Block : Read(b) /\ Away(b)' /\ b.id = items'[m].id => Given(m) < b.n
      BY <3>0, <3>2, <1>5 DEF ItemInput
    <3> QED BY <3>p, <3>2, <3>3, <3>4, <3>5 DEF ItemInput, Read
  <2> QED BY <2>1, <2>2
<1>10. ASSUME NEW x \in Ids, ~Quit', x >= ioid' PROVE taken'[x] = 0 /\ got'[x] = <<>>
  <2>1. ~Quit /\ x >= ioid /\ taken[x] = 0 /\ got[x] = <<>>
    BY <1>10, <1>v DEF InputInv, Quit
  <2>2. x # id
    <3>1. CASE x = id
      <4>1. T = 0
        BY <3>1, <2>1, <1>r
      <4> QED BY <4>1, <1>2, <1>p
    <3> QED BY <3>1
  <2> QED BY <2>1, <2>2, <1>w, <1>v
<1>11. \A b \in Block : Read(b) /\ Away(b)' => 1 <= b.n /\ b.n <= taken'[b.id]
  BY <1>5, <1>v DEF InputInv
<1>12. \A x \in Ids : \A m \in 1..Len(got'[x]) : got'[x][m] = m
  BY <1>8, <1>w DEF InputInv
<1> QED BY <1>9, <1>10, <1>11, <1>12 DEF InputInv, Read

\* hp_iocp_add: nothing was read from a connection with a new id.
LEMMA AddInput ==
  ASSUME TInv, OrderInv, InputInv, hp_iocp_add
  PROVE  OrderInv' /\ InputInv'
<1> DEFINE e == [id |-> ioid, obuf |-> <<>>, ibuf |-> <<>>, rm |-> FALSE]
<1>1. /\ items' = Append(items, e) /\ UNCHANGED <<uq, port, held, sending>>
      /\ UNCHANGED <<taken, got>> /\ ioid < MaxAdds /\ ipc = "msgs" /\ ioid' = ioid + 1
  BY DEF hp_iocp_add, UserCalls
<1>2. /\ e \in Item /\ e.ibuf = <<>> /\ e.id = ioid /\ ~Quit /\ ioid \in Ids
      /\ ioid \in Nat
  <2>1. <<>> \in Seq(OutBlock) /\ <<>> \in Seq(Nat)
    BY EmptySeq
  <2>2. ioid \in Ids /\ ~Quit /\ ioid \in Nat
    BY <1>1, TableElements DEF TInv, TableTypes, Quit
  <2> QED BY <2>1, <2>2 DEF Item
<1> HIDE DEF e
<1>3. items \in Seq(Item)
  BY DEF TInv, TableTypes
<1>4. \A m \in 1..Len(items') : items'[m] = e \/ (m \in 1..Len(items) /\ items'[m] = items[m])
  BY <1>1, <1>2, <1>3, AppendedTo
<1>5. \A m \in 1..Len(items') :
        \/ /\ items'[m].id \in Ids /\ items'[m].ibuf = <<>>
           /\ ~Quit /\ items'[m].id >= ioid
        \/ \E j \in 1..Len(items) :
             items'[m].id = items[j].id /\ items'[m].ibuf = items[j].ibuf
  BY <1>2, <1>4
<1>6. \A b : Away(b)' <=> Away(b)
  BY <1>1, AwaySame
<1>7. \A x \in Ids : ~Quit' /\ x >= ioid' => ~Quit /\ x >= ioid
  <2>1. \A x \in Ids : x \in Nat
    BY InputTypes
  <2> QED BY <2>1, <1>1, <1>2
<1>8. UNCHANGED <<uq, port, held>>
  BY <1>1
<1> QED BY <1>1, <1>5, <1>6, <1>7, <1>8, InputStays, OrderSame

\* Steps that take no message and leave reads and ibufs alone.
LEMMA InputSame ==
  ASSUME TInv, OrderInv, InputInv, UNCHANGED <<uq, port, held>>, UNCHANGED <<taken, got>>,
         UNCHANGED ioid \/ Quit', sending' \subseteq OutBlock,
         \A m \in 1..Len(items') : \E j \in 1..Len(items) :
           items'[m].id = items[j].id /\ items'[m].ibuf = items[j].ibuf
  PROVE  OrderInv' /\ InputInv'
<1>1. \A b : Read(b) => (Away(b)' <=> Away(b))
  <2>1. \A b : Read(b) => b \notin sending /\ b \notin sending'
    BY InputTypes, ReadNotOut
  <2> QED BY <2>1 DEF Away
<1>2. \A x \in Ids : ~Quit' /\ x >= ioid' => ~Quit /\ x >= ioid
  BY DEF Quit
<1>3. OrderInv'
  BY OrderSame
<1>4. InputInv'
  BY <1>1, <1>2, InputStays
<1> QED BY <1>3, <1>4

\* hp_iocp_write: ibufs and reads stay.
LEMMA WriteInput ==
  ASSUME TInv, TInv', OrderInv, InputInv, NEW id \in Ids, hp_iocp_write(id)
  PROVE  OrderInv' /\ InputInv'
<1> DEFINE ol == hp_iocp_ol(id, "w", written[id] + 1)
           K == {k \in Entry(items, id) : ~items[k].rm}
           new(k) == IF k \in K THEN [items[k] EXCEPT !.obuf = Append(@, ol)] ELSE items[k]
           f == [k \in 1..Len(items) |-> new(k)]
<1>t. /\ items \in Seq(Item) /\ Len(items) \in Nat /\ DOMAIN items = 1..Len(items)
      /\ \A k \in 1..Len(items) : items[k] \in Item
  BY TableElements, LenProperties DEF TInv, TableTypes
<1>1. /\ UNCHANGED <<uq, port, held>> /\ UNCHANGED <<taken, got>> /\ UNCHANGED ioid
      /\ items' = f \/ UNCHANGED items
  BY <1>t DEF hp_iocp_write
<1>2. \A k \in 1..Len(items) : new(k).id = items[k].id /\ new(k).ibuf = items[k].ibuf
  BY <1>t DEF Item
<1>3. \A k \in 1..Len(items) : f[k] = new(k)
  OBVIOUS
<1>4. Len(f) = Len(items)
  <2>1. f \in [1..Len(items) -> {new(k) : k \in 1..Len(items)}]
    <3> HIDE DEF new
    <3> QED OBVIOUS
  <2> HIDE DEF f, new
  <2> QED BY <2>1, <1>t, FcnIsSeq
<1> HIDE DEF f, new, K, ol
<1>5. ASSUME NEW m \in 1..Len(items')
      PROVE  \E j \in 1..Len(items) :
               items'[m].id = items[j].id /\ items'[m].ibuf = items[j].ibuf
  BY <1>1, <1>2, <1>3, <1>4
<1>6. sending' \subseteq OutBlock
  BY DEF TInv, QueueTypes
<1> QED BY <1>1, <1>5, <1>6, InputSame

\* hp_iocp_rm: ibufs and reads stay.
LEMMA RmInput ==
  ASSUME TInv, TInv', OrderInv, InputInv, NEW id \in Ids, hp_iocp_rm(id)
  PROVE  OrderInv' /\ InputInv'
<1>1. UNCHANGED <<uq, port, held>> /\ UNCHANGED <<taken, got>> /\ UNCHANGED ioid
  BY DEF hp_iocp_rm
<1>2. PICK k \in Entry(items, id) : items' = [items EXCEPT ![k].rm = TRUE]
  BY DEF hp_iocp_rm
<1> DEFINE e == [items[k] EXCEPT !.rm = TRUE]
<1>t. k \in 1..Len(items) /\ items[k] \in Item
  BY TableElements DEF TInv, TableTypes, Entry
<1>3. e \in Item /\ e.id = items[k].id /\ e.ibuf = items[k].ibuf
  BY <1>t DEF Item
<1>4. items' = [items EXCEPT ![k] = e]
  BY <1>2
<1> HIDE DEF e
<1>5. /\ Len(items') = Len(items)
      /\ \A m \in 1..Len(items) :
           items'[m].id = items[m].id /\ items'[m].ibuf = items[m].ibuf
  BY <1>3, <1>4, <1>t, ItemFields
<1>6. sending' \subseteq OutBlock
  BY DEF TInv, QueueTypes
<1>7. \A m \in 1..Len(items') : \E j \in 1..Len(items) :
        items'[m].id = items[j].id /\ items'[m].ibuf = items[j].ibuf
  BY <1>5
<1> HIDE <1>2, <1>4
<1> QED BY <1>1, <1>6, <1>7, InputSame

\* on_loop: the items that stay keep their ibufs.
LEMMA LoopInput ==
  ASSUME TInv, TInv', OrderInv, InputInv, MessagesEnd \/ ItemsStep
  PROVE  OrderInv' /\ InputInv'
<1>1. /\ UNCHANGED <<uq, port, held>> /\ UNCHANGED <<taken, got>> /\ UNCHANGED ioid
      /\ UNCHANGED <<pds, ioid>> /\ ipc \in {"msgs", "items"}
      /\ \/ UNCHANGED items
         \/ ~(ii > Len(items)) /\ hp_iocp_item_on_error(ii)
  BY DEF MessagesEnd, ItemsStep, table, pollThread
<1>2. \A m \in 1..Len(items') : \E j \in 1..Len(items) :
        items'[m].id = items[j].id /\ items'[m].ibuf = items[j].ibuf
  <2>1. CASE ~(ii > Len(items)) /\ hp_iocp_item_on_error(ii)
    <3>1. ii \in 1..Len(items) /\ ~Quit
      BY <1>1, <2>1, TableElements DEF TInv, TableTypes
    <3>2. \A m \in 1..Len(items') :
            Kept(m, ii) \in 1..Len(items) /\ items'[m] = items[Kept(m, ii)]
      BY <3>1, <2>1, <1>1, ItemEnds
    <3> QED BY <3>2
  <2> QED BY <2>1, <1>1
<1>3. sending' \subseteq OutBlock
  BY DEF TInv, QueueTypes
<1> QED BY <1>1, <1>2, <1>3, InputSame

\* Messages that bring no input.
LEMMA FdInput ==
  ASSUME TInv, TInv', OrderInv, InputInv, HandleFd
  PROVE  OrderInv' /\ InputInv'
<1>1. NextMessage /\ UNCHANGED got /\ Head(uq).op = "FD"
  BY DEF HandleFd
<1>2. UNCHANGED <<ioid, pds>> /\ ~Quit
  BY <1>1, MessageTaken
<1>3. UNCHANGED <<taken, got>> /\ UNCHANGED ioid
  BY <1>1, <1>2 DEF NextMessage
<1>4. \A m \in 1..Len(items') : \E j \in 1..Len(items) :
        items'[m].id = items[j].id /\ items'[m].ibuf = items[j].ibuf
  <2>1. CASE UNCHANGED items
    BY <2>1
  <2>2. ASSUME NEW k \in 1..Len(items), hp_iocp_item_on_error(k)
        PROVE  \A m \in 1..Len(items') : \E j \in 1..Len(items) :
                 items'[m].id = items[j].id /\ items'[m].ibuf = items[j].ibuf
    <3>1. \A m \in 1..Len(items') :
            Kept(m, k) \in 1..Len(items) /\ items'[m] = items[Kept(m, k)]
      BY <2>2, <1>2, ItemEnds
    <3> QED BY <3>1
  <2>3. ASSUME NEW k \in 1..Len(items), items[k].obuf # <<>>,
               items' = [items EXCEPT ![k].obuf = Tail(@)]
        PROVE  \A m \in 1..Len(items') : \E j \in 1..Len(items) :
                 items'[m].id = items[j].id /\ items'[m].ibuf = items[j].ibuf
    <3> DEFINE e == [items[k] EXCEPT !.obuf = Tail(@)]
    <3>1. items[k] \in Item /\ items[k].obuf \in Seq(OutBlock)
      BY TableElements DEF TInv
    <3>2. Tail(items[k].obuf) \in Seq(OutBlock)
      BY <3>1, <2>3, TailOf
    <3>3. e \in Item /\ e.id = items[k].id /\ e.ibuf = items[k].ibuf
      BY <3>1, <3>2 DEF Item
    <3>4. items' = [items EXCEPT ![k] = e]
      BY <2>3
    <3> HIDE DEF e
    <3>5. /\ Len(items') = Len(items)
          /\ \A m \in 1..Len(items) :
               items'[m].id = items[m].id /\ items'[m].ibuf = items[m].ibuf
      BY <3>3, <3>4, ItemFields
    <3> QED BY <3>5
  <2>4. \A k \in Entry(items, Head(uq).id) : k \in 1..Len(items)
    BY DEF Entry
  <2>5. \/ UNCHANGED items
        \/ \E k \in 1..Len(items) : hp_iocp_item_on_error(k)
        \/ \E k \in 1..Len(items) :
             items[k].obuf # <<>> /\ items' = [items EXCEPT ![k].obuf = Tail(@)]
    BY <2>4 DEF HandleFd, Dropped, WSASendFails, hp_iocp_do_write
  <2> QED BY <2>1, <2>2, <2>3, <2>5
<1>5. \A b : Read(b) => (Away(b)' <=> Away(b))
  BY <1>1, ReadsTaken
<1>6. \A x \in Ids : ~Quit' /\ x >= ioid' => ~Quit /\ x >= ioid
  BY <1>3 DEF Quit
<1>7. InputInv'
  BY <1>3, <1>4, <1>5, <1>6, InputStays
<1> QED BY <1>1, <1>7, OrderTaken

\* A completion: a read is delivered, or its connection is gone or ends here.
LEMMA IoInput ==
  ASSUME TInv, TInv', OrderInv, InputInv, HandleIo
  PROVE  OrderInv' /\ InputInv'
<1>1. NextMessage /\ Head(uq).op = "IO" /\ UNCHANGED sending
  BY DEF HandleIo
<1>2. /\ UNCHANGED <<ioid, pds>> /\ ~Quit /\ Head(uq) \in UserMessage
      /\ UNCHANGED taken /\ UNCHANGED ioid
  BY <1>1, MessageTaken DEF NextMessage
<1>p. PICK ol \in Block : ol = Head(uq).flags
  BY <1>1, <1>2 DEF UserMessage
<1>t. /\ \A k \in 1..Len(items) : /\ items[k] \in Item /\ items[k].obuf \in Seq(OutBlock)
                                  /\ items[k].ibuf \in Seq(Nat)
      /\ got \in [Ids -> Seq(Nat)] /\ ol.id \in Ids /\ ol.n \in Nat
  BY TableElements DEF TInv, QueueTypes, Block
<1>3. \/ Entry(items, ol.id) = {} /\ Dropped /\ UNCHANGED got
      \/ \E k \in Entry(items, ol.id) :
           \/ ReadDone(k, ol)
           \/ WriteDone(k, ol)
           \/ ol.nbuf = 0 /\ hp_iocp_item_on_error(k) /\ UNCHANGED got
  BY <1>p DEF HandleIo
<1>4. \A k : k \in Entry(items, ol.id) <=> k \in 1..Len(items) /\ items[k].id = ol.id
  BY DEF Entry
<1>5. /\ \A b : Read(b) /\ Away(b)' => Away(b)
      /\ \A b : Read(b) /\ Away(b) /\ b # ol => Away(b)'
  BY <1>1, <1>p, ReadsTaken
<1>6. \A x \in Ids : ~Quit' /\ x >= ioid' => ~Quit /\ x >= ioid
  BY <1>2 DEF Quit
\* no connection waits for the read, so nothing is delivered
<1>7. ASSUME UNCHANGED got,
             \A m \in 1..Len(items') : \E j \in 1..Len(items) :
               items'[m].id = items[j].id /\ items'[m].ibuf = items[j].ibuf,
             ~Read(ol) \/ \A m \in 1..Len(items') : items'[m].id # ol.id
      PROVE  InputInv'
  <2>1. UNCHANGED <<taken, got>>
    BY <1>2, <1>7
  <2>2. \A m \in 1..Len(items'), b \in Block :
          Read(b) /\ b.id = items'[m].id /\ Away(b) => Away(b)'
    BY <1>5, <1>7
  <2>3. \A b \in Block : Read(b) /\ Away(b)' => Away(b)
    BY <1>5
  <2> QED BY <2>1, <2>2, <2>3, <1>6, <1>7, InputStays
<1>8. ASSUME NEW k \in 1..Len(items), items[k].id = ol.id, hp_iocp_item_on_error(k), UNCHANGED got
      PROVE  InputInv'
  <2>1. \A m \in 1..Len(items') : /\ Kept(m, k) \in 1..Len(items)
                                  /\ items'[m] = items[Kept(m, k)]
                                  /\ items'[m].id # items[k].id
    BY <1>2, <1>8, ItemEnds
  <2> QED BY <2>1, <1>7, <1>8
<1>9. ASSUME Entry(items, ol.id) = {}, Dropped, UNCHANGED got
      PROVE  InputInv'
  <2>1. UNCHANGED items /\ UNCHANGED got
    BY <1>9 DEF Dropped
  <2>2. \A m \in 1..Len(items) : items[m].id # ol.id
    BY <1>4, <1>9
  <2>3. \A m \in 1..Len(items') : \E j \in 1..Len(items) :
          items'[m].id = items[j].id /\ items'[m].ibuf = items[j].ibuf
    BY <2>1
  <2>4. \A m \in 1..Len(items') : items'[m].id # ol.id
    BY <2>1, <2>2
  <2> QED BY <2>1, <2>3, <2>4, <1>7
<1>10. ASSUME NEW k \in 1..Len(items), items[k].id = ol.id, WriteDone(k, ol)
       PROVE  InputInv'
  <2>1. ~Read(ol) /\ UNCHANGED got
    BY <1>10 DEF WriteDone, Read
  <2>2. CASE UNCHANGED items
    BY <2>1, <2>2, <1>7
  <2>3. CASE ol.nbuf = -1
    <3> DEFINE b == Append(items[k].obuf, hp_iocp_ol(ol.id, "w", ol.n))
               e == [items[k] EXCEPT !.obuf = b]
    <3>1. b \in Seq(OutBlock)
      <4>1. hp_iocp_ol(ol.id, "w", ol.n) \in OutBlock
        BY AwayIsGone
      <4> QED BY <4>1, <1>t, AppendedTo
    <3>2. items' = [items EXCEPT ![k] = e]
      BY <2>3, <1>10 DEF WriteDone
    <3> HIDE DEF b
    <3>3. e \in Item /\ e.id = items[k].id /\ e.ibuf = items[k].ibuf
      BY <3>1, <1>t DEF Item
    <3> HIDE DEF e
    <3>4. /\ Len(items') = Len(items)
          /\ \A m \in 1..Len(items) :
               items'[m].id = items[m].id /\ items'[m].ibuf = items[m].ibuf
      BY <3>2, <3>3, ItemFields
    <3> QED BY <3>4, <2>1, <1>7
  <2> QED BY <2>2, <2>3, <1>10 DEF WriteDone
<1>11. ASSUME NEW k \in 1..Len(items), items[k].id = ol.id, Read(ol),
              NEW s \in Seq(Nat), items' = [items EXCEPT ![k].ibuf = s],
              \/ s = <<>> /\ got' = [got EXCEPT ![ol.id] = @ \o Buffered(k, ol)]
              \/ s = Buffered(k, ol) /\ UNCHANGED got
       PROVE  InputInv'
  <2> DEFINE e == [items[k] EXCEPT !.ibuf = s]
  <2>1. e \in Item /\ e.id = items[k].id /\ e.ibuf = s
    BY <1>t DEF Item
  <2>2. items' = [items EXCEPT ![k] = e]
    BY <1>11
  <2> HIDE DEF e
  <2>3. /\ Len(items') = Len(items)
        /\ \A m \in 1..Len(items) : /\ items'[m].id = items[m].id
                                    /\ m # k => items'[m].ibuf = items[m].ibuf
        /\ items'[k].ibuf = s
    BY <2>1, <2>2, ItemFields
  <2>4. CASE s = <<>> /\ got' = [got EXCEPT ![ol.id] = @ \o Buffered(k, ol)]
    <3>1. /\ \A x \in Ids : x # ol.id => got'[x] = got[x]
          /\ got'[ol.id] = got[ol.id] \o Buffered(k, ol)
      BY <2>4, <1>t
    <3>2. Delivered(k, ol)
      BY <3>1, <2>3, <2>4, <1>11 DEF Delivered
    <3> QED BY <3>2, <1>1, <1>p, <1>11, DeliverInput
  <2>5. CASE s = Buffered(k, ol) /\ UNCHANGED got
    <3>1. Delivered(k, ol)
      BY <2>3, <2>5, <1>11 DEF Delivered
    <3> QED BY <3>1, <1>1, <1>p, <1>11, DeliverInput
  <2> QED BY <2>4, <2>5, <1>11
<1>12. ASSUME NEW k \in 1..Len(items), items[k].id = ol.id, ReadDone(k, ol)
       PROVE  InputInv'
  <2>1. Read(ol)
    BY <1>12 DEF ReadDone, Read
  <2>2. Buffered(k, ol) \in Seq(Nat) /\ <<>> \in Seq(Nat)
    BY <1>t, AppendedTo, EmptySeq DEF Buffered
  <2>3. CASE /\ got' = [got EXCEPT ![ol.id] = @ \o Buffered(k, ol)]
             /\ items' = [items EXCEPT ![k].ibuf = <<>>]
    BY <2>1, <2>2, <2>3, <1>11, <1>12
  <2>4. CASE items' = [items EXCEPT ![k].ibuf = Buffered(k, ol)] /\ UNCHANGED got
    BY <2>1, <2>2, <2>4, <1>11, <1>12
  <2>5. CASE hp_iocp_item_on_error(k) /\ UNCHANGED got
    BY <2>5, <1>8, <1>12
  <2> QED BY <2>3, <2>4, <2>5, <1>12 DEF ReadDone
<1>13. InputInv'
  BY <1>3, <1>4, <1>8, <1>9, <1>10, <1>12
<1> QED BY <1>1, <1>13, OrderTaken

\* The poll thread reads its messages, selects or ends.
LEMMA PollThreadInput ==
  ASSUME TInv, TInv', OrderInv, InputInv, Drain \/ Select \/ ScanEnds \/ PollThreadQuits
  PROVE  OrderInv' /\ InputInv'
<1>1. /\ UNCHANGED <<uq, port, held>> /\ UNCHANGED <<taken, got>> /\ UNCHANGED ioid
      /\ UNCHANGED items
  BY DEF Drain, Select, ScanEnds, PollThreadQuits, table
<1>2. sending' \subseteq OutBlock
  BY DEF TInv, QueueTypes
<1> QED BY <1>1, <1>2, InputSame

\* One entry of pds: the read that is started is the latest of its connection.
LEMMA ScanInput ==
  ASSUME TInv, TInv', OrderInv, InputInv, Scan
  PROVE  OrderInv' /\ InputInv'
<1>1. /\ UNCHANGED held /\ UNCHANGED got /\ UNCHANGED items /\ UNCHANGED ioid
      /\ UNCHANGED <<held, sending>>
      /\ tpc = "scan" /\ tk <= Len(pds)
  BY DEF Scan, table
<1>p. PICK id \in Ids : id = pds[tk].id /\ tk \in 1..Len(pds)
  <2>1. tk \in 1..Len(pds)
    BY <1>1, TableElements DEF TInv, TableTypes
  <2> QED BY <2>1, TableElements DEF TInv
<1>t. /\ uq \in Seq(UserMessage) /\ port \in Seq(Block \cup {QuitPacket}) /\ Len(port) \in Nat
      /\ taken \in [Ids -> Nat] /\ taken[id] \in Nat
  BY InputTypes
<1>2. UNCHANGED uq \/ \E flags \in {{}, {"OUT"}, {"ERR"}} : uq' = Post(uq, "FD", id, flags)
  BY <1>p DEF Scan
<1>3. ASSUME NEW j \in 1..Len(uq'), uq'[j].op = "IO"
      PROVE  j \in 1..Len(uq) /\ uq'[j] = uq[j]
  <2>1. CASE UNCHANGED uq
    BY <2>1
  <2>2. ASSUME NEW flags \in {{}, {"OUT"}, {"ERR"}}, uq' = Post(uq, "FD", id, flags)
        PROVE  j \in 1..Len(uq) /\ uq'[j] = uq[j]
    <3> DEFINE m == [op |-> "FD", id |-> id, flags |-> flags]
    <3>1. m \in UserMessage /\ m.op = "FD" /\ uq' = Append(uq, m)
      BY <2>2 DEF UserMessage, Post
    <3> HIDE DEF m
    <3> QED BY <3>1, <1>3, <1>t, AppendedTo
  <2> QED BY <1>2, <2>1, <2>2
<1>4. \A j \in 1..Len(uq) : j \in 1..Len(uq') /\ uq'[j] = uq[j]
  <2>1. CASE UNCHANGED uq
    BY <2>1
  <2>2. ASSUME NEW flags \in {{}, {"OUT"}, {"ERR"}}, uq' = Post(uq, "FD", id, flags)
        PROVE  \A j \in 1..Len(uq) : j \in 1..Len(uq') /\ uq'[j] = uq[j]
    <3> DEFINE m == [op |-> "FD", id |-> id, flags |-> flags]
    <3>1. m \in UserMessage /\ uq' = Append(uq, m)
      BY <2>2 DEF UserMessage, Post
    <3> HIDE DEF m
    <3> QED BY <3>1, <1>t, AppendedTo
  <2> QED BY <1>2, <2>1, <2>2
<1>5. \/ UNCHANGED port /\ UNCHANGED taken
      \/ /\ taken[id] < arrived[id] /\ taken' = [taken EXCEPT ![id] = @ + 1]
         /\ port' = Append(port, hp_iocp_ol(id, "r", taken[id] + 1))
      \/ UNCHANGED taken /\ port' = Append(port, Failed(hp_iocp_ol(id, "r", 0)))
  BY <1>p DEF Scan, hp_iocp_do_read
<1>6. \A x \in Ids : ~Quit' /\ x >= ioid' => ~Quit /\ x >= ioid
  BY <1>1 DEF Quit
\* no read starts, or one that fails
<1>7. ASSUME UNCHANGED taken,
             \A j \in 1..Len(port') :
               (j \in 1..Len(port) /\ port'[j] = port[j]) \/ ~Read(port'[j]),
             \A j \in 1..Len(port) : j \in 1..Len(port') /\ port'[j] = port[j]
      PROVE  OrderInv' /\ InputInv'
  <2>1. OrderInv'
    BY <1>1, <1>3, <1>7, OrderStays
  <2>2. \A b : Read(b) => (Away(b)' <=> Away(b))
    BY <1>1, <1>3, <1>4, <1>7 DEF Away
  <2>3. UNCHANGED <<taken, got>>
    BY <1>1, <1>7
  <2>4. \A m \in 1..Len(items') : \E j \in 1..Len(items) :
          items'[m].id = items[j].id /\ items'[m].ibuf = items[j].ibuf
    BY <1>1
  <2> QED BY <2>1, <2>2, <2>3, <2>4, <1>6, InputStays
<1>8. CASE UNCHANGED port /\ UNCHANGED taken
  BY <1>7, <1>8
<1>9. CASE UNCHANGED taken /\ port' = Append(port, Failed(hp_iocp_ol(id, "r", 0)))
  <2> DEFINE r == Failed(hp_iocp_ol(id, "r", 0))
  <2>1. r \in Block /\ ~Read(r)
    BY DEF Failed, hp_iocp_ol, Block, Read
  <2>2. port' = Append(port, r)
    BY <1>9
  <2> HIDE DEF r
  <2>3. /\ \A j \in 1..Len(port) : j \in 1..Len(port') /\ port'[j] = port[j]
        /\ \A j \in 1..Len(port') : (j \in 1..Len(port) /\ port'[j] = port[j]) \/ port'[j] = r
    BY <2>1, <2>2, <1>t, AppendedTo
  <2> QED BY <2>1, <2>3, <1>7, <1>9
<1>10. CASE /\ taken' = [taken EXCEPT ![id] = @ + 1]
            /\ port' = Append(port, hp_iocp_ol(id, "r", taken[id] + 1))
  <2>p. PICK T \in Nat, N \in Nat : T = taken[id] /\ N = T + 1
    <3>1. \A x \in Nat : x + 1 \in Nat
      OBVIOUS
    <3> QED BY <3>1, <1>t
  <2>q. PICK r \in Block : r = hp_iocp_ol(id, "r", N)
    BY <2>p, InputTypes
  <2>r. Read(r) /\ r.id = id /\ r.n = N
    BY <2>q, InputTypes
  <2>1. port' = Append(port, r)
    BY <2>p, <2>q, <1>10
  <2>2. /\ \A j \in 1..Len(port) : j \in 1..Len(port') /\ port'[j] = port[j]
        /\ \A j \in 1..Len(port') :
             (j \in 1..Len(port) /\ port'[j] = port[j]) \/ (j = Len(port) + 1 /\ port'[j] = r)
        /\ Len(port) + 1 \in 1..Len(port') /\ port'[Len(port) + 1] = r
    BY <2>1, <1>t, AppendedTo
  <2>3. /\ taken'[id] = N /\ \A x \in Ids : x # id => taken'[x] = taken[x]
    BY <2>p, <1>10, <1>t
  <2>4. \A b : Read(b) => (Away(b)' <=> (Away(b) \/ b = r))
    BY <2>2, <1>1, <1>3, <1>4 DEF Away
  <2>5. \A b \in Block : Read(b) /\ Away(b) /\ b.id = id => 1 <= b.n /\ b.n <= T
    BY <2>p DEF InputInv
  <2>6. \A b \in Block : Read(b) /\ Away(b) /\ b.id = id => b.n < N
    <3>1. \A x \in Nat : x <= T => x < N
      BY <2>p
    <3> QED BY <2>5, <3>1, InputTypes
  <2>7. OrderInv'
    <3>1. \A j \in 1..Len(port') :
            \/ j \in 1..Len(port) /\ port'[j] = port[j]
            \/ ~Read(port'[j])
            \/ /\ j = Len(port) + 1
               /\ \A b \in Block : Read(b) /\ Away(b) /\ b.id = port'[j].id => b.n < port'[j].n
      BY <2>2, <2>6, <2>r
    <3> QED BY <3>1, <1>1, <1>3, OrderStays
  <2>8. \A x \in Ids : x # id => taken'[x] = taken[x]
    BY <2>3
  <2>9. ASSUME NEW x \in Ids, ~Quit', x >= ioid' PROVE taken'[x] = 0 /\ got'[x] = <<>>
    <3>1. ~Quit /\ x >= ioid /\ taken[x] = 0 /\ got[x] = <<>>
      BY <2>9, <1>6, <1>1 DEF InputInv
    <3>2. x # id
      <4>1. id \in PdIds
        BY <1>p DEF PdIds
      <4>2. id < ioid
        BY <4>1, <3>1 DEF TInv, TableInv, ItemsAreKnown, Known
      <4>3. ioid \in Int /\ id \in Int
        BY InputTypes, IocpAssumption DEF TInv, TableTypes
      <4> QED BY <3>1, <4>2, <4>3
    <3> QED BY <3>1, <3>2, <2>8, <1>1
  <2>10. ASSUME NEW b \in Block, Read(b), Away(b)' PROVE 1 <= b.n /\ b.n <= taken'[b.id]
    <3>1. CASE b = r
      <4>1. 1 <= N /\ N <= N
        BY <2>p
      <4> QED BY <4>1, <3>1, <2>3, <2>r
    <3>2. CASE Away(b) /\ b.id = id
      <4>1. 1 <= b.n /\ b.n < N /\ b.n \in Nat
        BY <3>2, <2>5, <2>6, <2>10, InputTypes
      <4> QED BY <4>1, <3>2, <2>3
    <3>3. CASE Away(b) /\ b.id # id
      <4>1. 1 <= b.n /\ b.n <= taken[b.id] /\ b.id \in Ids
        BY <3>3, <2>10, InputTypes DEF InputInv
      <4> QED BY <4>1, <3>3, <2>8
    <3> QED BY <3>1, <3>2, <3>3, <2>4, <2>10
  <2>11. ASSUME NEW k \in 1..Len(items') PROVE ItemInput(k)'
    <3>p. PICK i \in Ids, g \in Nat, M \in Nat : i = items[k].id /\ g = Given(k) /\ M = taken[i]
      BY <1>1, InputTypes
    <3>1. /\ k \in 1..Len(items) /\ items'[k] = items[k] /\ UNCHANGED got
          /\ Given(k)' = Given(k)
      BY <1>1 DEF Given
    <3>2. /\ \A m \in 1..Len(items[k].ibuf) : items[k].ibuf[m] = Len(got[i]) + m
          /\ g <= M
          /\ \A b \in Block : Read(b) /\ Away(b) /\ b.id = i => g < b.n
          /\ \A n \in g + 1..M : Away(hp_iocp_ol(i, "r", n))
      BY <3>1, <3>p DEF InputInv, ItemInput
    <3>p2. PICK Q \in Nat : Q = taken'[i] /\ (i = id => Q = N /\ M = T) /\ (i # id => Q = M)
      BY <2>3, <2>8, <2>p, <3>p
    <3>3. g <= Q /\ (i = id => g < N)
      <4>1. CASE i = id
        BY <4>1, <3>p2, <3>2, <2>p
      <4>2. CASE i # id
        BY <4>2, <3>p2, <3>2
      <4> QED BY <4>1, <4>2
    <3>4. \A b \in Block : Read(b) /\ Away(b)' /\ b.id = i => g < b.n
      BY <2>4, <2>r, <3>2, <3>3
    <3>5. ASSUME NEW n \in g + 1..Q
          PROVE  Away(hp_iocp_ol(items[k].id, "r", n))'
      <4>1. n \in Nat /\ (n \in g + 1..M \/ (i = id /\ n = N))
        <5>1. n \in Nat
          OBVIOUS
        <5>2. CASE i = id
          BY <5>1, <5>2, <3>p2, <2>p
        <5>3. CASE i # id
          BY <5>1, <5>3, <3>p2
        <5> QED BY <5>1, <5>2, <5>3
      <4>2. PICK b \in Block : b = hp_iocp_ol(i, "r", n)
        BY <4>1, InputTypes
      <4>3. Read(b)
        BY <4>1, <4>2, InputTypes
      <4>4. Away(b) \/ b = r
        BY <4>1, <4>2, <3>2, <2>q
      <4>5. Away(b)'
        BY <4>3, <4>4, <2>4
      <4>6. b = hp_iocp_ol(items[k].id, "r", n)'
        BY <4>2, <3>1, <3>p DEF hp_iocp_ol
      <4> QED BY <4>5, <4>6 DEF Away
    <3>6. /\ \A m \in 1..Len(items'[k].ibuf) : items'[k].ibuf[m] = Len(got'[items'[k].id]) + m
          /\ Given(k)' = g /\ items'[k].id = i /\ taken'[items'[k].id] = Q
      BY <3>1, <3>2, <3>p, <3>p2
    <3> QED BY <3>3, <3>4, <3>5, <3>6 DEF ItemInput, Read
  <2>12. \A x \in Ids : \A m \in 1..Len(got'[x]) : got'[x][m] = m
    BY <1>1 DEF InputInv
  <2> QED BY <2>7, <2>9, <2>10, <2>11, <2>12 DEF InputInv, Read
<1> QED BY <1>5, <1>8, <1>9, <1>10

\* Completions on their way; the peers send and close.
LEMMA PortInput ==
  ASSUME TInv, TInv', OrderInv, InputInv, \A t, u \in PortThreads : t = u,
         PortStep \/ SendCompletes \/ \E id \in Ids : PeerSends(id) \/ PeerCloses(id)
  PROVE  OrderInv' /\ InputInv'
<1>1. UNCHANGED <<taken, got>> /\ UNCHANGED items /\ UNCHANGED ioid
  BY DEF PortStep, GetQueuedCompletionStatus, PostCompletion, SendCompletes, PeerSends,
         PeerCloses, table
<1>2. /\ \A m \in 1..Len(items') : \E j \in 1..Len(items) :
           items'[m].id = items[j].id /\ items'[m].ibuf = items[j].ibuf
      /\ \A x \in Ids : ~Quit' /\ x >= ioid' => ~Quit /\ x >= ioid
  BY <1>1 DEF Quit
<1>t. /\ port \in Seq(Block \cup {QuitPacket}) /\ uq \in Seq(UserMessage)
      /\ held \in [PortThreads -> Block \cup {QuitPacket, Idle}]
      /\ Idle \notin Block /\ QuitPacket \notin Block
      /\ sending \subseteq OutBlock /\ sending' \subseteq OutBlock
  BY InputTypes DEF TInv, QueueTypes
<1>3. ASSUME \A b : Read(b) => (Away(b)' <=> Away(b))
      PROVE  InputInv'
  BY <1>1, <1>2, <1>3, InputStays
<1>4. ASSUME NEW t \in PortThreads, GetQueuedCompletionStatus(t)
      PROVE  OrderInv' /\ InputInv'
  <2>1. /\ port # <<>> /\ port' = Tail(port) /\ held' = [held EXCEPT ![t] = Head(port)]
        /\ UNCHANGED <<uq, sending>> /\ held[t] = Idle
    BY <1>4 DEF GetQueuedCompletionStatus
  <2>2. /\ \A j \in 1..Len(port') : j + 1 \in 1..Len(port) /\ port'[j] = port[j + 1]
        /\ 1 \in 1..Len(port) /\ port[1] = Head(port)
        /\ \A j \in 1..Len(port) : j = 1 \/ (j - 1 \in 1..Len(port') /\ port'[j - 1] = port[j])
    BY <2>1, <1>t, TailOf
  <2>3. /\ held'[t] = port[1]
        /\ \A u \in PortThreads : u # t => held'[u] = held[u]
    BY <2>1, <2>2, <1>t
  <2>4. \A b \in Block : Away(b)' => Away(b)
    BY <2>1, <2>2, <2>3 DEF Away
  <2>5. \A b \in Block : Away(b) => Away(b)'
    <3> SUFFICES ASSUME NEW b \in Block, Away(b) PROVE Away(b)'
      OBVIOUS
    <3>1. CASE \E j \in 1..Len(port) : port[j] = b
      BY <3>1, <2>2, <2>3 DEF Away
    <3>2. CASE \E u \in PortThreads : held[u] = b
      BY <3>2, <2>1, <2>3, <1>t DEF Away
    <3> QED BY <3>1, <3>2, <2>1 DEF Away
  <2>6. InputInv'
    BY <2>4, <2>5, <1>3 DEF Read
  <2>7. OrderInv'
    BY <1>4, OrderInPort
  <2> QED BY <2>6, <2>7
<1>5. ASSUME NEW t \in PortThreads, PostCompletion(t)
      PROVE  OrderInv' /\ InputInv'
  <2> DEFINE c == held[t]
             m == [op |-> "IO", id |-> c.id, flags |-> c]
  <2>1. /\ c \notin {Idle, QuitPacket} /\ uq' = Append(uq, m)
        /\ held' = [held EXCEPT ![t] = Idle] /\ UNCHANGED <<port, sending>>
    BY <1>5 DEF PostCompletion, Post
  <2>2. c \in Block /\ Away(c)
    BY <2>1, <1>t DEF Away
  <2>3. m \in UserMessage /\ m.flags = c /\ m.op = "IO"
    <3> HIDE DEF c
    <3> QED BY <2>2 DEF UserMessage, Block
  <2> HIDE DEF m
  <2>4. /\ \A j \in 1..Len(uq') : uq'[j] = m \/ (j \in 1..Len(uq) /\ uq'[j] = uq[j])
        /\ \A j \in 1..Len(uq) : j \in 1..Len(uq') /\ uq'[j] = uq[j]
        /\ Len(uq) + 1 \in 1..Len(uq') /\ uq'[Len(uq) + 1] = m
    BY <2>1, <2>3, <1>t, AppendedTo
  <2>5. /\ held'[t] = Idle
        /\ \A u \in PortThreads : u # t => held'[u] = held[u]
    BY <2>1, <1>t
  <2>6. \A b \in Block : Away(b)' => Away(b)
    <3> SUFFICES ASSUME NEW b \in Block, Away(b)' PROVE Away(b)
      OBVIOUS
    <3>1. CASE \E j \in 1..Len(uq') : uq'[j].op = "IO" /\ uq'[j].flags = b
      BY <3>1, <2>2, <2>3, <2>4 DEF Away
    <3>2. CASE \E u \in PortThreads : held'[u] = b
      BY <3>2, <2>5, <1>t DEF Away
    <3> QED BY <3>1, <3>2, <2>1 DEF Away
  <2>7. \A b \in Block : Away(b) => Away(b)'
    <3> SUFFICES ASSUME NEW b \in Block, Away(b) PROVE Away(b)'
      OBVIOUS
    <3>1. CASE \E j \in 1..Len(uq) : uq[j].op = "IO" /\ uq[j].flags = b
      BY <3>1, <2>4 DEF Away
    <3>2. CASE \E u \in PortThreads : u # t /\ held[u] = b
      BY <3>2, <2>5 DEF Away
    <3>3. CASE b = held[t]
      BY <3>3, <2>3, <2>4 DEF Away
    <3> QED BY <3>1, <3>2, <3>3, <2>1 DEF Away
  <2>8. InputInv'
    BY <2>6, <2>7, <1>3 DEF Read
  <2>9. OrderInv'
    BY <1>5, OrderInPort
  <2> QED BY <2>8, <2>9
<1>6. ASSUME SendCompletes
      PROVE  OrderInv' /\ InputInv'
  <2>1. PICK ol \in sending :
          \E done \in {Failed(ol), ol, Short(ol)} : port' = Append(port, done)
    BY <1>6 DEF SendCompletes
  <2>2. UNCHANGED uq /\ UNCHANGED held
    BY <1>6 DEF SendCompletes
  <2>3. {Failed(ol), ol, Short(ol)} \subseteq Block
         /\ \A b \in {Failed(ol), ol, Short(ol)} : ~Read(b)
    <3>1. ol \in OutBlock
      BY <1>t
    <3> QED BY <3>1 DEF OutBlock, Block, Failed, Short, Read
  <2>4. PICK done \in Block : port' = Append(port, done) /\ ~Read(done)
    BY <2>1, <2>3
  <2>5. /\ \A j \in 1..Len(port') : port'[j] = done \/ (j \in 1..Len(port) /\ port'[j] = port[j])
        /\ \A j \in 1..Len(port) : j \in 1..Len(port') /\ port'[j] = port[j]
    BY <2>4, <1>t, AppendedTo
  <2>6. \A b : Read(b) => b \notin sending /\ b \notin sending'
    BY <1>t, ReadNotOut
  <2>7. \A b : Read(b) => (Away(b)' <=> Away(b))
    BY <2>2, <2>4, <2>5, <2>6 DEF Away
  <2>8. OrderInv'
    BY <2>2, <2>4, <2>5, OrderStays
  <2> QED BY <2>7, <2>8, <1>3
<1>7. ASSUME NEW id \in Ids, PeerSends(id) \/ PeerCloses(id)
      PROVE  OrderInv' /\ InputInv'
  <2>1. UNCHANGED <<uq, port, held>>
    BY <1>7 DEF PeerSends, PeerCloses
  <2> QED BY <2>1, <1>1, <1>2, <1>t, InputSame
<1> QED BY <1>4, <1>5, <1>6, <1>7 DEF PortStep

\* hp_iocp_uninit: what was under way is dropped, with the items.
LEMMA UninitInput ==
  ASSUME TInv, TInv', OrderInv, InputInv, hp_iocp_uninit
  PROVE  OrderInv' /\ InputInv'
<1>t. port \in Seq(Block \cup {QuitPacket}) /\ QuitPacket \notin Block
  BY InputTypes
<1>1. CASE PostQuit
  <2> DEFINE c == Cardinality(PortThreads)
             q == [k \in 1..c |-> QuitPacket]
  <2>1. /\ port' = port \o q /\ UNCHANGED items /\ UNCHANGED ioid /\ UNCHANGED <<taken, got>>
        /\ UNCHANGED uq /\ UNCHANGED held /\ UNCHANGED sending
    BY <1>1 DEF PostQuit, table
  <2>2. c \in Nat
    BY IocpAssumption, FS_CardinalityType
  <2>3. q \in Seq(Block \cup {QuitPacket}) /\ Len(q) = c /\ \A k \in 1..c : q[k] = QuitPacket
    <3> HIDE DEF c
    <3>1. q \in [1..c -> Block \cup {QuitPacket}] /\ \A k \in 1..c : q[k] = QuitPacket
      OBVIOUS
    <3> HIDE DEF q
    <3> QED BY <3>1, <2>2, FcnIsSeq
  <2> HIDE DEF q, c
  <2>4. /\ Len(port \o q) = Len(port) + c
        /\ \A j \in 1..Len(port) + c :
             (port \o q)[j] = IF j <= Len(port) THEN port[j] ELSE q[j - Len(port)]
    BY <2>3, <1>t, ConcatProperties
  <2>5. Len(port) \in Nat
    BY <1>t, LenProperties
  <2>6. /\ \A j \in 1..Len(port) + c : (j <= Len(port) /\ j \in 1..Len(port))
                                    \/ (~(j <= Len(port)) /\ j - Len(port) \in 1..c)
        /\ \A j \in 1..Len(port) : j \in 1..Len(port) + c /\ j <= Len(port)
    BY <2>2, <2>5
  <2>7. \A j \in 1..Len(port') :
          (j \in 1..Len(port) /\ port'[j] = port[j]) \/ port'[j] = QuitPacket
    BY <2>1, <2>3, <2>4, <2>6
  <2>8. \A j \in 1..Len(port) : j \in 1..Len(port') /\ port'[j] = port[j]
    BY <2>1, <2>4, <2>6
  <2>9. ~Read(QuitPacket)
    BY <1>t DEF Read
  <2>10. \A b : Read(b) => (Away(b)' <=> Away(b))
    BY <2>1, <2>7, <2>8, <2>9 DEF Away
  <2>11. OrderInv'
    BY <2>1, <2>7, <2>9, OrderStays
  <2>12. /\ \A m \in 1..Len(items') : \E j \in 1..Len(items) :
              items'[m].id = items[j].id /\ items'[m].ibuf = items[j].ibuf
         /\ \A x \in Ids : ~Quit' /\ x >= ioid' => ~Quit /\ x >= ioid
    BY <2>1 DEF Quit
  <2> QED BY <2>1, <2>10, <2>11, <2>12, InputStays
<1>2. CASE WaitForThreads
  <2>1. /\ items' = <<>> /\ uq' = <<>> /\ UNCHANGED <<port, held, sending>>
        /\ UNCHANGED held /\ UNCHANGED port /\ UNCHANGED <<taken, got>> /\ ioid' = -1
    BY <1>2 DEF WaitForThreads, pollThread
  <2>2. 1..Len(<<>>) = {}
    OBVIOUS
  <2>3. \A b \in Block : Away(b)' => Away(b)
    BY <2>1, <2>2 DEF Away
  <2>4. OrderInv'
    BY <2>1, <2>2, OrderStays
  <2>5. InputInv'
    BY <2>1, <2>2, <2>3, InputStays DEF Quit
  <2> QED BY <2>4, <2>5
<1>3. CASE WaitForPollThread
  <2>1. /\ UNCHANGED items /\ UNCHANGED ioid /\ UNCHANGED <<uq, port, held>>
        /\ UNCHANGED <<taken, got>>
    BY <1>3 DEF WaitForPollThread, table
  <2>2. sending' \subseteq OutBlock
    BY DEF TInv, QueueTypes
  <2> QED BY <2>1, <2>2, InputSame
<1> QED BY <1>1, <1>2, <1>3 DEF hp_iocp_uninit

\* Nothing was read at first.
LEMMA InputStarts == IocpInit => OrderInv /\ InputInv
<1> SUFFICES ASSUME IocpInit PROVE OrderInv /\ InputInv
  OBVIOUS
<1>1. /\ items = <<>> /\ uq = <<>> /\ port = <<>> /\ held = [t \in PortThreads |-> Idle]
      /\ sending = {} /\ taken = [id \in Ids |-> 0] /\ got = [id \in Ids |-> <<>>]
  BY DEF IocpInit
<1>2. 1..Len(<<>>) = {}
  OBVIOUS
<1>3. Idle \notin Block
  BY TablesStart, InputTypes
<1>4. \A b \in Block : ~Away(b)
  BY <1>1, <1>2, <1>3 DEF Away
<1>5. OrderInv
  BY <1>1, <1>2 DEF OrderInv
<1>6. InputInv
  BY <1>1, <1>2, <1>4 DEF InputInv
<1> QED BY <1>5, <1>6

\* Every step keeps the order of input, with one port thread.
LEMMA InputKept ==
  ASSUME \A t, u \in PortThreads : t = u
  PROVE  TInv /\ OrderInv /\ InputInv /\ [IocpNext]_iocpVars => OrderInv' /\ InputInv'
<1> SUFFICES ASSUME TInv, OrderInv, InputInv, [IocpNext]_iocpVars
             PROVE  OrderInv' /\ InputInv'
  OBVIOUS
<1>t. TInv'
  BY TablesKept
<1>1. CASE hp_iocp_add
  BY <1>1, AddInput
<1>2. ASSUME NEW id \in Ids, hp_iocp_write(id) \/ hp_iocp_rm(id) PROVE OrderInv' /\ InputInv'
  BY <1>t, <1>2, WriteInput, RmInput
<1>3. CASE UserStep
  BY <1>t, <1>3, FdInput, IoInput, LoopInput DEF UserStep
<1>4. CASE PollThreadStep
  BY <1>t, <1>4, ScanInput, PollThreadInput DEF PollThreadStep
<1>5. CASE PortStep \/ SendCompletes \/ \E id \in Ids : PeerSends(id) \/ PeerCloses(id)
  BY <1>t, <1>5, PortInput
<1>6. CASE hp_iocp_uninit
  BY <1>t, <1>6, UninitInput
<1>7. CASE UNCHANGED iocpVars
  <2>1. /\ UNCHANGED items /\ UNCHANGED ioid /\ UNCHANGED <<uq, port, held>>
        /\ UNCHANGED <<taken, got>>
    BY <1>7 DEF iocpVars
  <2>2. sending' \subseteq OutBlock
    BY <1>t DEF TInv, QueueTypes
  <2> QED BY <2>1, <2>2, InputSame
<1> QED BY <1>1, <1>2, <1>3, <1>4, <1>5, <1>6, <1>7 DEF IocpNext

\* on_data gets what the peer sent, in the order in which it was sent and without a gap,
\* when one thread takes completions from the port.  (Several may post them in another
\* order than they took them.)
THEOREM InputArrivesInOrder ==
  ASSUME \A t, u \in PortThreads : t = u
  PROVE  IocpSpec => []InputInOrder
<1>1. TInv /\ InputInv => InputInOrder
  <2> SUFFICES ASSUME TInv, InputInv, NEW id \in Ids
               PROVE  got[id] = [n \in 1..Len(got[id]) |-> n]
    BY DEF InputInOrder
  <2>1. PICK g \in Seq(Nat) : g = got[id]
    BY InputTypes
  <2>2. \A m \in 1..Len(g) : g[m] = m
    BY <2>1 DEF InputInv
  <2>3. g = [n \in DOMAIN g |-> g[n]] /\ DOMAIN g = 1..Len(g)
    BY LenProperties
  <2> QED BY <2>1, <2>2, <2>3
<1>2. TInv /\ OrderInv /\ InputInv /\ [IocpNext]_iocpVars => OrderInv' /\ InputInv'
  BY InputKept
<1> QED BY <1>1, <1>2, TablesStart, TablesKept, InputStarts, PTL DEF IocpSpec
=============================================================================
