--------------------------- MODULE HpEpollProofs ----------------------------
(***************************************************************************)
(* Proofs about the epoll event loop HpEpoll, for any set of descriptors,  *)
(* any heap, any max_ev_len and any number of hp_epoll_add and hp_epoll_rm *)
(* calls.                                                                  *)
(*                                                                         *)
(* The inductive invariant IInv adds three things to the properties: the   *)
(* entry of a descriptor carries the arg in force, a pending event is not  *)
(* for the descriptor whose callback runs, and each position the drive     *)
(* loop left out is paid for by a removal.  Every operation is shown to    *)
(* keep each part; the operations that touch the registry are described    *)
(* once, by the lemmas AddEffect and RmEffect.                             *)
(***************************************************************************)
EXTENDS HpEpoll, SequenceTheorems, FiniteSetTheorems, NaturalsInduction,
        WellFoundedInduction, TLAPS

\* The entries of ed agree with the kernel, are distinct and fit the array.
RegistryInv == KernelAgrees /\ NoDuplicates /\ AssertNotReached /\ Len(ed) <= MaxEv

\* Each entry has the arg of the hp_epoll_add in force.
ArgInv == \A k \in 1..Len(ed) : latest[fdOf[ed[k]]] = argOf[ed[k]]

\* The events still to be dispatched once the one that runs is done.
Pending == {k \in 1..Len(ev) : k > IF pc = "dispatch" THEN i ELSE i + 1}

\* The events of a batch are distinct and fit ev; the pending ones are
\* registered, and none is for the descriptor whose callback runs.
BatchInv ==
  /\ Len(ev) <= MaxEv
  /\ \A k, m \in 1..Len(ev) : ev[k] = ev[m] => k = m
  /\ pc \in {"dispatch", "cb_event"} =>
       \A k \in Pending : \E m \in 1..Len(ed) : ed[m] = ev[k]
  /\ pc = "cb_event" => \A k \in Pending : fdOf[ev[k]] # cur.fd

\* The positions the drive loop has passed, up to j, where it left out an entry:
\* the one that is there now was not driven, or none is left there.
Missed(j) == {k \in 1..j : k > Len(ed) \/ ed[k] \notin driven}

\* Each of them is paid for by a removal in this pass.
DriveInv ==
  /\ pc = "drive" => Cardinality(Missed(i)) <= removed
  /\ pc = "cb_drive" => Cardinality(Missed(i + 1)) <= removed
  /\ DriveMisses

IInv == TypeOK /\ RegistryInv /\ ArgInv /\ BatchInv /\ DriveInv
-----------------------------------------------------------------------------
(* Sequences *)

\* A function on 1..m is a sequence of length m.
LEMMA FcnIsSeq ==
  ASSUME NEW S, NEW m \in Nat, NEW f \in [1..m -> S]
  PROVE  f \in Seq(S) /\ Len(f) = m
<1>1. f \in Seq(S)
  BY SeqDef, Zenon
<1>2. DOMAIN f = 1..m /\ DOMAIN f = 1..Len(f) /\ Len(f) \in Nat
  BY <1>1, LenProperties
<1> QED BY <1>1, <1>2

\* Without closes the gap at k, as the memmove of hp_epoll_rm does.
LEMMA WithoutProperties ==
  ASSUME NEW S, NEW s \in Seq(S), NEW k \in 1..Len(s)
  PROVE  /\ Without(s, k) \in Seq(S)
         /\ Len(Without(s, k)) = Len(s) - 1
         /\ \A m \in 1..Len(s) - 1 :
              Without(s, k)[m] = IF m < k THEN s[m] ELSE s[m + 1]
<1> DEFINE p == SubSeq(s, 1, k - 1)
           q == SubSeq(s, k + 1, Len(s))
<1>t. Len(s) \in Nat /\ k \in Nat /\ \A m \in 1..Len(s) : s[m] \in S
  BY LenProperties, ElementOfSeq
<1>1. /\ p \in Seq(S) /\ Len(p) = k - 1
      /\ \A m \in 1..k - 1 : p[m] = s[m]
  <2>1. \A m \in 1..k - 1 : s[m] \in S
    BY <1>t
  <2>2. /\ p \in Seq(S) /\ Len(p) = IF 1 <= k - 1 THEN k - 1 - 1 + 1 ELSE 0
        /\ \A m \in 1..k - 1 - 1 + 1 : p[m] = s[1 + m - 1]
    BY <2>1, <1>t, SubSeqProperties
  <2> QED BY <2>2, <1>t
<1>2. /\ q \in Seq(S) /\ Len(q) = Len(s) - k
      /\ \A m \in 1..Len(s) - k : q[m] = s[k + m]
  <2>1. \A m \in k + 1..Len(s) : s[m] \in S
    BY <1>t
  <2>2. /\ q \in Seq(S)
        /\ Len(q) = IF k + 1 <= Len(s) THEN Len(s) - (k + 1) + 1 ELSE 0
        /\ \A m \in 1..Len(s) - (k + 1) + 1 : q[m] = s[k + 1 + m - 1]
    BY <2>1, <1>t, SubSeqProperties
  <2> QED BY <2>2, <1>t
<1>3. Without(s, k) = p \o q
  BY DEF Without
<1> HIDE DEF p, q
<1>4. /\ p \o q \in Seq(S) /\ Len(p \o q) = Len(p) + Len(q)
      /\ \A m \in 1..Len(p) + Len(q) :
           (p \o q)[m] = IF m <= Len(p) THEN p[m] ELSE q[m - Len(p)]
  BY <1>1, <1>2, ConcatProperties
<1>5. ASSUME NEW m \in 1..Len(s) - 1
      PROVE  (p \o q)[m] = IF m < k THEN s[m] ELSE s[m + 1]
  <2>1. CASE m < k
    BY <2>1, <1>4, <1>1, <1>2, <1>t
  <2>2. CASE ~(m < k)
    <3>1. m - (k - 1) \in 1..Len(s) - k /\ k + (m - (k - 1)) = m + 1
      BY <2>2, <1>t
    <3>2. (p \o q)[m] = q[m - (k - 1)]
      BY <2>2, <1>4, <1>1, <1>2, <1>t
    <3> QED BY <3>1, <3>2, <1>2, <2>2
  <2> QED BY <2>1, <2>2
<1> QED BY <1>3, <1>4, <1>5, <1>1, <1>2, <1>t

-----------------------------------------------------------------------------
(* What the operations do to the registry *)

\* hp_lfind returns an entry of the descriptor.
LEMMA FoundEntry ==
  ASSUME TypeOK, NoDuplicates, NEW fd \in Fds, Registered(fd)
  PROVE  /\ Found(fd) \in 1..Len(ed)
         /\ fdOf[ed[Found(fd)]] = fd
         /\ ed[Found(fd)] \in Addrs
<1>1. PICK k \in 1..Len(ed) : fdOf[ed[k]] = fd
  BY DEF Registered, IndexOf
<1>2. IndexOf(fd) = {k}
  BY <1>1 DEF IndexOf, NoDuplicates
<1>3. k \in IndexOf(fd) /\ \A m \in IndexOf(fd) : k <= m
  BY <1>2, LenProperties DEF TypeOK
<1>4. Found(fd) \in IndexOf(fd)
  BY <1>3 DEF Found
<1> QED BY <1>4, ElementOfSeq DEF IndexOf, TypeOK

\* An address that is not allocated is no entry of ed.
LEMMA FreshAddr ==
  ASSUME TypeOK, KernelAgrees, NEW a \in Addrs \ Allocated
  PROVE  fdOf[a] = None /\ \A k \in 1..Len(ed) : ed[k] # a
BY NoneAssumption DEF Allocated, KernelAgrees

\* An unregistered descriptor is not watched: EPOLL_CTL_ADD finds no EEXIST.
LEMMA NotWatched ==
  ASSUME TypeOK, KernelAgrees, NEW fd \in Fds, ~Registered(fd)
  PROVE  interest[fd] = None
BY DEF KernelAgrees, Registered, IndexOf

\* The lengths and the values read from the state are of their types.
LEMMA Types ==
  ASSUME TypeOK
  PROVE  /\ Len(ed) \in Nat /\ Len(ev) \in Nat /\ i \in Nat /\ removed \in Nat
         /\ \A k \in 1..Len(ed) : ed[k] \in Addrs
         /\ \A k \in 1..Len(ev) : ev[k] \in Addrs
         /\ DOMAIN ed = 1..Len(ed) /\ DOMAIN ev = 1..Len(ev)
<1>1. ed \in Seq(Addrs) /\ ev \in Seq(Addrs) /\ i \in Nat /\ removed \in Nat
  BY DEF TypeOK
<1> QED BY <1>1, LenProperties, ElementOfSeq

\* The entry of a registered descriptor is unique: what the four cases of
\* hp_epoll_add do to it.
LEMMA AddEffect ==
  ASSUME IInv, NEW fd \in Fds, hp_epoll_add(fd)
  PROVE  /\ pc' = pc /\ UNCHANGED <<loop, history>>
         /\ TypeOK'
         /\ Len(ed') >= Len(ed)
         /\ \A k \in 1..Len(ed) : ed'[k] = ed[k] /\ fdOf'[ed[k]] = fdOf[ed[k]]
         /\ RegistryInv' /\ ArgInv'
<1> USE DEF IInv, RegistryInv
<1>t. /\ Len(ed) \in Nat /\ \A k \in 1..Len(ed) : ed[k] \in Addrs
      /\ MaxEv \in Nat /\ ops + 1 \in Nat /\ ops + 1 # 0
  BY Types, MaxEvAssumption DEF TypeOK
<1>n. None \notin Fds /\ None \notin Addrs
  BY NoneAssumption
<1>0. UNCHANGED <<loop, history>> /\ ops' = ops + 1
  BY DEF hp_epoll_add
<1>1. CASE AddNew(fd)
  <2>0. ~Registered(fd) /\ Len(ed) < MaxEv
    BY <1>1 DEF AddNew
  <2>1. PICK a \in Addrs \ Allocated :
          /\ Allocate(a, fd)
          /\ IF interest[fd] = None
               THEN Watch(a, fd) /\ ed' = Append(ed, a) /\ UNCHANGED pc
               ELSE pc' = "assert" /\ UNCHANGED <<interest, ed, latest>>
    BY <1>1 DEF AddNew
  <2>2. Watch(a, fd) /\ ed' = Append(ed, a) /\ pc' = pc
    BY <2>0, <2>1, NotWatched
  <2>3. fdOf[a] = None /\ \A k \in 1..Len(ed) : ed[k] # a
    BY FreshAddr
  <2>4. /\ ed' \in Seq(Addrs) /\ Len(ed') = Len(ed) + 1
        /\ \A k \in 1..Len(ed) : ed'[k] = ed[k]
        /\ ed'[Len(ed) + 1] = a
    BY <2>2, AppendProperties DEF TypeOK
  <2>5. /\ fdOf' = [fdOf EXCEPT ![a] = fd] /\ argOf' = [argOf EXCEPT ![a] = ops + 1]
        /\ interest' = [interest EXCEPT ![fd] = a]
        /\ latest' = [latest EXCEPT ![fd] = ops + 1]
    BY <2>1, <2>2 DEF Allocate, Watch
  <2>6. TypeOK'
    BY <2>4, <2>5, <2>2, <1>0, <1>t DEF TypeOK, loop, history
  <2>7. /\ fdOf'[a] = fd /\ argOf'[a] = ops + 1 /\ interest'[fd] = a
        /\ latest'[fd] = ops + 1
        /\ \A b \in Addrs : b # a => fdOf'[b] = fdOf[b] /\ argOf'[b] = argOf[b]
        /\ \A f \in Fds : f # fd => interest'[f] = interest[f] /\ latest'[f] = latest[f]
    BY <2>5 DEF TypeOK
  <2>8. \A k \in 1..Len(ed) : fdOf[ed[k]] \in Fds /\ fdOf[ed[k]] # fd
    BY <2>0 DEF Registered, IndexOf, KernelAgrees
  <2>9. \A k \in 1..Len(ed') : k \in 1..Len(ed) \/ k = Len(ed) + 1
    BY <2>4, <1>t
  <2>10. \A k \in 1..Len(ed) : /\ ed'[k] = ed[k] /\ ed[k] # a
                               /\ fdOf'[ed'[k]] = fdOf[ed[k]]
                               /\ argOf'[ed'[k]] = argOf[ed[k]]
    BY <2>3, <2>4, <2>7, <1>t
  <2>11. KernelAgrees'
    <3>1. ASSUME NEW k \in 1..Len(ed')
          PROVE  fdOf'[ed'[k]] \in Fds /\ interest'[fdOf'[ed'[k]]] = ed'[k]
      BY <2>4, <2>7, <2>8, <2>9, <2>10 DEF KernelAgrees
    <3>2. ASSUME NEW f \in Fds, interest'[f] # None
          PROVE  \E k \in 1..Len(ed') : ed'[k] = interest'[f] /\ fdOf'[ed'[k]] = f
      <4>1. CASE f = fd
        <5>1. Len(ed) + 1 \in 1..Len(ed')
          BY <2>4, <1>t
        <5> QED BY <5>1, <4>1, <2>4, <2>7
      <4>2. CASE f # fd
        <5>1. PICK k \in 1..Len(ed) : ed[k] = interest[f] /\ fdOf[ed[k]] = f
          BY <3>2, <4>2, <2>7 DEF KernelAgrees
        <5>2. k \in 1..Len(ed')
          BY <2>4, <1>t
        <5> QED BY <5>1, <5>2, <2>10, <2>7, <4>2
      <4> QED BY <4>1, <4>2
    <3> QED BY <3>1, <3>2 DEF KernelAgrees
  <2>12. NoDuplicates'
    BY <2>4, <2>7, <2>8, <2>9, <2>10 DEF NoDuplicates
  <2>13. ArgInv'
    BY <2>4, <2>7, <2>8, <2>9, <2>10 DEF ArgInv
  <2>14. AssertNotReached' /\ Len(ed') <= MaxEv
    BY <2>2, <2>0, <2>4, <1>t DEF AssertNotReached
  <2> QED BY <1>0, <1>t, <2>2, <2>4, <2>6, <2>10, <2>11, <2>12, <2>13, <2>14
<1>2. CASE AddFails(fd)
  <2>1. PICK a \in Addrs \ Allocated : Allocate(a, fd)
    BY <1>2 DEF AddFails
  <2>2. UNCHANGED <<ed, interest, latest, pc>>
    BY <1>2 DEF AddFails
  <2>3. \A k \in 1..Len(ed) : ed[k] # a
    BY FreshAddr
  <2>4. TypeOK'
    BY <2>1, <2>2, <1>0, <1>t DEF TypeOK, Allocate, loop, history
  <2>5. \A k \in 1..Len(ed) : fdOf'[ed[k]] = fdOf[ed[k]] /\ argOf'[ed[k]] = argOf[ed[k]]
    BY <2>1, <2>3, <1>t DEF Allocate, TypeOK
  <2>6. KernelAgrees' /\ NoDuplicates' /\ AssertNotReached' /\ Len(ed') <= MaxEv
    BY <2>2, <2>5 DEF KernelAgrees, NoDuplicates, AssertNotReached
  <2>7. ArgInv'
    BY <2>2, <2>5 DEF ArgInv
  <2> QED BY <1>0, <1>t, <2>2, <2>4, <2>5, <2>6, <2>7
<1>3. CASE AddExisting(fd)
  <2> DEFINE a == ed[Found(fd)]
  <2>1. Found(fd) \in 1..Len(ed) /\ fdOf[a] = fd /\ a \in Addrs
    BY <1>3, FoundEntry DEF AddExisting
  <2>2. /\ argOf' = [argOf EXCEPT ![a] = ops + 1]
        /\ interest' = [interest EXCEPT ![fd] = a]
        /\ latest' = [latest EXCEPT ![fd] = ops + 1]
        /\ UNCHANGED <<ed, fdOf, pc>>
    BY <1>3 DEF AddExisting, Watch
  <2>i. interest[fd] = a
    BY <2>1 DEF KernelAgrees
  <2>k. \A k \in 1..Len(ed) : ed[k] # a => fdOf[ed[k]] # fd
    BY <2>1 DEF NoDuplicates
  <2> HIDE DEF a
  <2>3. TypeOK'
    BY <2>1, <2>2, <1>0, <1>t DEF TypeOK, loop, history
  <2>4. interest' = interest
    BY <2>2, <2>i DEF TypeOK
  <2>5. KernelAgrees' /\ NoDuplicates' /\ AssertNotReached' /\ Len(ed') <= MaxEv
    BY <2>2, <2>4 DEF KernelAgrees, NoDuplicates, AssertNotReached
  <2>6. ASSUME NEW k \in 1..Len(ed) PROVE latest'[fdOf[ed[k]]] = argOf'[ed[k]]
    <3>0. fdOf[ed[k]] \in Fds /\ ed[k] \in Addrs
      BY <1>t DEF KernelAgrees
    <3>1. CASE ed[k] = a
      BY <3>1, <2>1, <2>2 DEF TypeOK
    <3>2. CASE ed[k] # a
      BY <3>0, <3>2, <2>2, <2>k DEF TypeOK, ArgInv
    <3> QED BY <3>1, <3>2
  <2>7. ArgInv'
    BY <2>2, <2>6 DEF ArgInv
  <2> QED BY <1>0, <1>t, <2>2, <2>3, <2>5, <2>7
<1>4. CASE AddFull(fd)
  <2>1. UNCHANGED <<ed, fdOf, argOf, interest, latest, pc>>
    BY <1>4 DEF AddFull, registry
  <2>2. TypeOK'
    BY <2>1, <1>0, <1>t DEF TypeOK, loop, history
  <2>3. KernelAgrees' /\ NoDuplicates' /\ AssertNotReached' /\ Len(ed') <= MaxEv /\ ArgInv'
    BY <2>1 DEF KernelAgrees, NoDuplicates, AssertNotReached, ArgInv
  <2> QED BY <1>0, <1>t, <2>1, <2>2, <2>3
<1> QED BY <1>1, <1>2, <1>3, <1>4 DEF hp_epoll_add

\* hp_epoll_rm changes nothing for a descriptor that is not registered, and
\* otherwise takes out its one entry p.
LEMMA RmEffect ==
  ASSUME IInv, NEW fd \in Fds, hp_epoll_rm(fd)
  PROVE  /\ UNCHANGED <<pc, mode, i, ev, cur, driven>>
         /\ pc = "cb_event" => fd = cur.fd
         /\ TypeOK' /\ RegistryInv' /\ ArgInv'
         /\ \/ UNCHANGED <<ed, fdOf, removed>>
            \/ \E p \in 1..Len(ed) : /\ ed' = Without(ed, p)
                                     /\ fdOf[ed[p]] = fd
                                     /\ fdOf' = [fdOf EXCEPT ![ed[p]] = None]
                                     /\ removed' = removed + 1
<1> USE DEF IInv, RegistryInv
<1>t. /\ Len(ed) \in Nat /\ \A k \in 1..Len(ed) : ed[k] \in Addrs
      /\ MaxEv \in Nat /\ ops + 1 \in Nat
  BY Types, MaxEvAssumption DEF TypeOK
<1>n. None \notin Fds /\ None \notin Addrs
  BY NoneAssumption
<1>0. /\ UNCHANGED <<pc, mode, i, ev, cur, driven, argOf>>
      /\ pc = "cb_event" => fd = cur.fd
      /\ ops' = ops + 1
      /\ interest' = [interest EXCEPT ![fd] = None]
  BY DEF hp_epoll_rm, loop, Unwatch
<1>1. CASE ~Registered(fd)
  <2>1. UNCHANGED <<fdOf, ed, latest, removed>>
    BY <1>1 DEF hp_epoll_rm
  <2>2. interest' = interest
    BY <1>0, <1>1, NotWatched DEF TypeOK
  <2>3. TypeOK'
    BY <2>1, <2>2, <1>0, <1>t DEF TypeOK
  <2>4. KernelAgrees' /\ NoDuplicates' /\ AssertNotReached' /\ Len(ed') <= MaxEv /\ ArgInv'
    BY <2>1, <2>2, <1>0 DEF KernelAgrees, NoDuplicates, AssertNotReached, ArgInv
  <2> QED BY <1>0, <2>1, <2>3, <2>4
<1>2. CASE Registered(fd)
  <2> DEFINE p == Found(fd)
             a == ed[p]
  <2>1. p \in 1..Len(ed) /\ fdOf[a] = fd /\ a \in Addrs
    BY <1>2, FoundEntry
  <2>2. /\ fdOf' = [fdOf EXCEPT ![a] = None]
        /\ ed' = Without(ed, p)
        /\ latest' = [latest EXCEPT ![fd] = 0]
        /\ removed' = removed + 1
    BY <1>2 DEF hp_epoll_rm, Remove
  <2>k. \A k \in 1..Len(ed) : k # p => ed[k] # a /\ fdOf[ed[k]] # fd
    BY <2>1 DEF NoDuplicates
  <2>p. p \in Nat /\ a = ed[p]
    BY <2>1, <1>t
  <2> HIDE DEF p, a
  <2>3. /\ ed' \in Seq(Addrs) /\ Len(ed') = Len(ed) - 1
        /\ \A m \in 1..Len(ed) - 1 : ed'[m] = IF m < p THEN ed[m] ELSE ed[m + 1]
    BY <2>1, <2>2, WithoutProperties DEF TypeOK
  <2>4. TypeOK'
    BY <2>1, <2>2, <2>3, <1>0, <1>t, SMTT(60) DEF TypeOK
  <2>5. ASSUME NEW m \in 1..Len(ed')
        PROVE  \E k \in 1..Len(ed) : k # p /\ k = (IF m < p THEN m ELSE m + 1) /\ ed'[m] = ed[k]
    BY <2>3, <2>p, <1>t
  <2>6. ASSUME NEW k \in 1..Len(ed), k # p
        PROVE  \E m \in 1..Len(ed') : ed'[m] = ed[k]
    <3>1. CASE k < p
      BY <3>1, <2>1, <2>3, <2>p, <1>t
    <3>2. CASE k > p
      <4>1. k - 1 \in 1..Len(ed) - 1 /\ ~(k - 1 < p) /\ (k - 1) + 1 = k
        BY <3>2, <2>p, <1>t, <2>1
      <4> QED BY <4>1, <2>3
    <3> QED BY <3>1, <3>2, <2>6, <2>p, <1>t
  <2>7. ASSUME NEW k \in 1..Len(ed), k # p
        PROVE  /\ fdOf'[ed[k]] = fdOf[ed[k]] /\ fdOf[ed[k]] \in Fds /\ fdOf[ed[k]] # fd
               /\ interest'[fdOf[ed[k]]] = interest[fdOf[ed[k]]]
               /\ latest'[fdOf[ed[k]]] = latest[fdOf[ed[k]]]
    BY <2>k, <2>2, <1>t, <1>0, <2>7 DEF TypeOK, KernelAgrees
  <2>8. KernelAgrees'
    <3>1. ASSUME NEW m \in 1..Len(ed')
          PROVE  fdOf'[ed'[m]] \in Fds /\ interest'[fdOf'[ed'[m]]] = ed'[m]
      BY <2>5, <2>7 DEF KernelAgrees
    <3>2. ASSUME NEW f \in Fds, interest'[f] # None
          PROVE  \E m \in 1..Len(ed') : ed'[m] = interest'[f] /\ fdOf'[ed'[m]] = f
      <4>1. f # fd /\ interest'[f] = interest[f]
        BY <3>2, <1>0 DEF TypeOK
      <4>2. PICK k \in 1..Len(ed) : ed[k] = interest[f] /\ fdOf[ed[k]] = f
        BY <3>2, <4>1 DEF KernelAgrees
      <4>3. k # p
        BY <4>1, <4>2, <2>1, <2>p
      <4> QED BY <4>1, <4>2, <4>3, <2>6, <2>7
    <3> QED BY <3>1, <3>2 DEF KernelAgrees
  <2>9. NoDuplicates'
    <3> SUFFICES ASSUME NEW m1 \in 1..Len(ed'), NEW m2 \in 1..Len(ed'),
                        fdOf'[ed'[m1]] = fdOf'[ed'[m2]]
                 PROVE  m1 = m2
      BY DEF NoDuplicates
    <3>1. PICK k1 \in 1..Len(ed) :
            k1 # p /\ k1 = (IF m1 < p THEN m1 ELSE m1 + 1) /\ ed'[m1] = ed[k1]
      BY <2>5
    <3>2. PICK k2 \in 1..Len(ed) :
            k2 # p /\ k2 = (IF m2 < p THEN m2 ELSE m2 + 1) /\ ed'[m2] = ed[k2]
      BY <2>5
    <3>3. k1 = k2
      BY <3>1, <3>2, <2>7 DEF NoDuplicates
    <3>4. m1 \in Nat /\ m2 \in Nat
      BY <2>3, <1>t
    <3> QED BY <3>1, <3>2, <3>3, <3>4, <2>p
  <2>10. ArgInv'
    BY <2>5, <2>7, <1>0 DEF ArgInv
  <2>11. AssertNotReached' /\ Len(ed') <= MaxEv
    BY <1>0, <2>3, <1>t DEF AssertNotReached
  <2> QED BY <1>0, <2>1, <2>2, <2>p, <2>4, <2>8, <2>9, <2>10, <2>11
<1> QED BY <1>1, <1>2

-----------------------------------------------------------------------------
(* The batch *)

\* hp_epoll_add keeps every entry, so every pending event keeps its own.
LEMMA AddBatch ==
  ASSUME IInv, NEW fd \in Fds, hp_epoll_add(fd)
  PROVE  BatchInv'
<1>1. /\ pc' = pc /\ UNCHANGED <<i, ev, cur>> /\ Len(ed') >= Len(ed) /\ TypeOK'
      /\ \A k \in 1..Len(ed) : ed'[k] = ed[k] /\ fdOf'[ed[k]] = fdOf[ed[k]]
  BY AddEffect DEF loop
<1>2. BatchInv /\ Pending' = Pending /\ Len(ed) \in Nat /\ Len(ed') \in Nat
  BY <1>1, Types, LenProperties DEF IInv, Pending, TypeOK
<1>3. ASSUME NEW k \in Pending, pc \in {"dispatch", "cb_event"}
      PROVE  /\ \E m \in 1..Len(ed') : ed'[m] = ev[k]
             /\ fdOf'[ev[k]] = fdOf[ev[k]]
  <2>1. PICK m \in 1..Len(ed) : ed[m] = ev[k]
    BY <1>2, <1>3 DEF BatchInv
  <2>2. m \in 1..Len(ed')
    BY <1>1, <1>2
  <2> QED BY <2>1, <2>2, <1>1
<1> QED BY <1>1, <1>2, <1>3 DEF BatchInv

\* hp_epoll_rm, called by a callback of the batch for its own descriptor,
\* leaves the entries of the other events alone.
LEMMA RmBatch ==
  ASSUME IInv, NEW fd \in Fds, hp_epoll_rm(fd)
  PROVE  BatchInv'
<1>1. /\ UNCHANGED <<pc, mode, i, ev, cur, driven>>
      /\ pc = "cb_event" => fd = cur.fd
      /\ \/ UNCHANGED <<ed, fdOf, removed>>
         \/ \E p \in 1..Len(ed) : /\ ed' = Without(ed, p)
                                  /\ fdOf[ed[p]] = fd
                                  /\ fdOf' = [fdOf EXCEPT ![ed[p]] = None]
                                  /\ removed' = removed + 1
  BY RmEffect
<1>2. BatchInv /\ Pending' = Pending /\ Len(ed) \in Nat
  BY <1>1, Types DEF IInv, Pending
<1>3. pc # "dispatch"
  BY DEF hp_epoll_rm, UserRuns, InCallback
<1>4. CASE UNCHANGED <<ed, fdOf, removed>>
  BY <1>1, <1>2, <1>4 DEF BatchInv
<1>5. ASSUME NEW p \in 1..Len(ed), ed' = Without(ed, p), fdOf[ed[p]] = fd,
             fdOf' = [fdOf EXCEPT ![ed[p]] = None]
      PROVE  BatchInv'
  <2>1. /\ Len(ed') = Len(ed) - 1 /\ p \in Nat
        /\ \A m \in 1..Len(ed) - 1 : ed'[m] = IF m < p THEN ed[m] ELSE ed[m + 1]
    <3>1. ed \in Seq(Addrs) /\ p \in Nat
      BY <1>2 DEF IInv, TypeOK
    <3> QED BY <3>1, <1>5, WithoutProperties
  <2>2. ASSUME NEW k \in Pending, pc = "cb_event"
        PROVE  (\E m \in 1..Len(ed') : ed'[m] = ev[k]) /\ fdOf'[ev[k]] # cur.fd
    <3>1. PICK m \in 1..Len(ed) : ed[m] = ev[k]
      BY <2>2, <1>2 DEF BatchInv
    <3>2. fdOf[ev[k]] # cur.fd /\ fd = cur.fd
      BY <2>2, <1>1, <1>2 DEF BatchInv
    <3>3. m # p /\ ev[k] # ed[p]
      BY <3>1, <3>2, <1>5
    <3>4. \E x \in 1..Len(ed') : ed'[x] = ed[m]
      <4>1. CASE m < p
        BY <4>1, <2>1, <1>2
      <4>2. CASE m > p
        <5>1. m - 1 \in 1..Len(ed) - 1 /\ ~(m - 1 < p) /\ (m - 1) + 1 = m
          BY <4>2, <2>1, <1>2
        <5> QED BY <5>1, <2>1
      <4> QED BY <4>1, <4>2, <3>3, <2>1, <1>2
    <3>5. fdOf'[ev[k]] = fdOf[ev[k]]
      <4>1. ev[k] \in Addrs
        BY <3>1, Types DEF IInv
      <4> QED BY <4>1, <3>3, <1>5 DEF IInv, TypeOK
    <3> QED BY <3>1, <3>2, <3>4, <3>5
  <2> QED BY <1>1, <1>2, <1>3, <2>2 DEF BatchInv
<1> QED BY <1>1, <1>4, <1>5

-----------------------------------------------------------------------------
(* The drive loop *)

\* What the drive loop left out is a finite set of positions.
LEMMA MissedFinite ==
  ASSUME NEW j \in Nat
  PROVE  IsFiniteSet(Missed(j)) /\ Cardinality(Missed(j)) \in Nat
<1>1. IsFiniteSet(1..j)
  BY FS_Interval
<1>2. Missed(j) \in SUBSET (1..j)
  BY DEF Missed
<1> QED BY <1>1, <1>2, FS_Subset, FS_CardinalityType

\* A callback that registers descriptors adds no position to those left out,
\* also when the index is already past the end of ed.
LEMMA AddDrive ==
  ASSUME IInv, NEW fd \in Fds, hp_epoll_add(fd)
  PROVE  DriveInv'
<1>1. /\ pc' = pc /\ UNCHANGED <<i, driven, removed>> /\ Len(ed') >= Len(ed) /\ TypeOK'
      /\ \A k \in 1..Len(ed) : ed'[k] = ed[k]
  BY AddEffect DEF loop, history
<1>2. pc # "drive" /\ pc # "wait"
  BY DEF hp_epoll_add, UserRuns, InCallback
<1>3. ASSUME pc = "cb_drive" PROVE (Cardinality(Missed(i + 1)) <= removed)'
  <2>t. i + 1 \in Nat /\ Len(ed) \in Nat /\ Len(ed') \in Nat /\ removed \in Nat
    BY <1>1, Types, LenProperties DEF IInv, TypeOK
  <2>1. Missed(i + 1)' \in SUBSET Missed(i + 1)
    BY <1>1, <2>t DEF Missed
  <2>2. Cardinality(Missed(i + 1)') <= Cardinality(Missed(i + 1))
        /\ IsFiniteSet(Missed(i + 1)') /\ Cardinality(Missed(i + 1)) \in Nat
    BY <2>1, <2>t, MissedFinite, FS_Subset
  <2>3. Cardinality(Missed(i + 1)') \in Nat
    BY <2>2, FS_CardinalityType
  <2>4. Cardinality(Missed(i + 1)) <= removed
    BY <1>3 DEF IInv, DriveInv
  <2> QED BY <2>2, <2>3, <2>4, <2>t, <1>1
<1> QED BY <1>1, <1>2, <1>3 DEF DriveInv, DriveMisses

\* Closing the gap in ed moves at most one more entry that was not driven
\* below the index.
LEMMA RmMissed ==
  ASSUME IInv, NEW j \in Nat, NEW p \in 1..Len(ed), ed' = Without(ed, p),
         driven' = driven
  PROVE  Cardinality(Missed(j)') <= Cardinality(Missed(j)) + 1
<1> DEFINE S == Missed(j)
           T == {k \in 1..j : k > Len(ed') \/ ed'[k] \notin driven}
           f == [k \in T \ {j} |-> IF k < p THEN k ELSE k + 1]
<1>t. Len(ed) \in Nat /\ p \in Nat /\ ed \in Seq(Addrs) /\ p <= Len(ed)
  <2>1. Len(ed) \in Nat /\ ed \in Seq(Addrs)
    BY Types DEF IInv, TypeOK
  <2> QED BY <2>1
<1>1. /\ Len(ed') = Len(ed) - 1
      /\ \A m \in 1..Len(ed) - 1 : ed'[m] = IF m < p THEN ed[m] ELSE ed[m + 1]
  BY <1>t, WithoutProperties
<1>2. Missed(j)' = T
  BY DEF Missed
<1>3. IsFiniteSet(S) /\ Cardinality(S) \in Nat
  BY MissedFinite
<1>4. IsFiniteSet(T)
  <2>1. IsFiniteSet(1..j) /\ T \in SUBSET (1..j)
    BY FS_Interval
  <2> QED BY <2>1, FS_Subset
<1>5. \A k \in T \ {j} : (IF k < p THEN k ELSE k + 1) \in S
  <2> SUFFICES ASSUME NEW k \in T \ {j}
               PROVE  (IF k < p THEN k ELSE k + 1) \in S
    OBVIOUS
  <2>1. k \in 1..j /\ k + 1 \in 1..j /\ k \in Nat
    OBVIOUS
  <2>2. k > Len(ed) - 1 \/ ed'[k] \notin driven
    BY <1>1
  <2>3. CASE k < p
    <3>1. k \in 1..Len(ed) - 1
      BY <2>1, <2>3, <1>t
    <3> QED BY <3>1, <2>1, <2>2, <2>3, <1>1, <1>t DEF Missed
  <2>4. CASE ~(k < p)
    <3>1. CASE k > Len(ed) - 1
      BY <3>1, <2>1, <2>4, <1>t DEF Missed
    <3>2. CASE ~(k > Len(ed) - 1)
      <4>1. k \in 1..Len(ed) - 1
        BY <3>2, <2>1, <1>t
      <4> QED BY <4>1, <2>1, <2>2, <2>4, <1>1, <1>t DEF Missed
    <3> QED BY <3>1, <3>2
  <2> QED BY <2>3, <2>4
<1>6. f \in Injection(T \ {j}, S)
  <2>1. f \in [T \ {j} -> S]
    BY <1>5
  <2>2. \A a, b \in T \ {j} : f[a] = f[b] => a = b
    BY <1>t
  <2> HIDE DEF T, S, f
  <2> QED BY <2>1, <2>2 DEF Injection, IsInjective
<1> HIDE DEF T, S, f
<1>7. Cardinality(T \ {j}) <= Cardinality(S)
  BY <1>3, <1>6, FS_Injection
<1>8. /\ Cardinality(T \ {j}) = IF j \in T THEN Cardinality(T) - 1 ELSE Cardinality(T)
      /\ Cardinality(T) \in Nat
  BY <1>4, FS_RemoveElement, FS_CardinalityType
<1> QED BY <1>2, <1>3, <1>7, <1>8 DEF S

\* hp_epoll_rm pays for what it makes the drive loop leave out.
LEMMA RmDrive ==
  ASSUME IInv, NEW fd \in Fds, hp_epoll_rm(fd)
  PROVE  DriveInv'
<1>1. /\ UNCHANGED <<pc, i, driven>> /\ TypeOK'
      /\ \/ UNCHANGED <<ed, fdOf, removed>>
         \/ \E p \in 1..Len(ed) : /\ ed' = Without(ed, p)
                                  /\ fdOf[ed[p]] = fd
                                  /\ fdOf' = [fdOf EXCEPT ![ed[p]] = None]
                                  /\ removed' = removed + 1
  BY RmEffect
<1>2. pc # "drive" /\ pc # "wait"
  BY DEF hp_epoll_rm, UserRuns, InCallback
<1>3. ASSUME pc = "cb_drive" PROVE (Cardinality(Missed(i + 1)) <= removed)'
  <2>t. i + 1 \in Nat /\ removed \in Nat /\ IsFiniteSet(1..i + 1)
    BY FS_Interval DEF IInv, TypeOK
  <2>1. Cardinality(Missed(i + 1)) <= removed /\ Cardinality(Missed(i + 1)) \in Nat
    BY <1>3, <2>t, MissedFinite DEF IInv, DriveInv
  <2>2. CASE UNCHANGED <<ed, fdOf, removed>>
    <3>1. Missed(i + 1)' = Missed(i + 1)
      BY <1>1, <2>2 DEF Missed
    <3> QED BY <3>1, <2>1, <2>2
  <2>3. ASSUME NEW p \in 1..Len(ed), ed' = Without(ed, p), removed' = removed + 1
        PROVE  (Cardinality(Missed(i + 1)) <= removed)'
    <3> DEFINE j == i + 1
    <3>1. Cardinality(Missed(j)') <= Cardinality(Missed(j)) + 1
      BY <2>3, <2>t, <1>1, RmMissed
    <3>2. Missed(i + 1)' = Missed(j)'
      BY <1>1 DEF Missed
    <3>3. Missed(i + 1)' \in SUBSET (1..i + 1)
      BY <1>1 DEF Missed
    <3>4. Cardinality(Missed(i + 1)') \in Nat
      BY <3>3, <2>t, FS_Subset, FS_CardinalityType
    <3> QED BY <3>1, <3>2, <3>4, <2>1, <2>3, <2>t
  <2> QED BY <1>1, <2>2, <2>3
<1> QED BY <1>1, <1>2, <1>3 DEF DriveInv, DriveMisses

-----------------------------------------------------------------------------
(* hp_epoll_run *)

\* A step of hp_epoll_run leaves the registry alone.
LEMMA RegistryKept ==
  ASSUME IInv, UNCHANGED registry, pc' # "assert"
  PROVE  RegistryInv' /\ ArgInv'
BY DEF IInv, RegistryInv, ArgInv, registry, KernelAgrees, NoDuplicates,
       AssertNotReached

\* Entering the drive loop: nothing is left out yet.
LEMMA EnterDriveKeeps ==
  ASSUME EnterDrive
  PROVE  DriveInv'
<1>1. pc' = "drive" /\ i' = 0 /\ removed' = 0
  BY DEF EnterDrive
<1>2. Missed(i)' = {}
  BY <1>1 DEF Missed
<1> QED BY <1>1, <1>2, FS_EmptySet DEF DriveInv, DriveMisses

\* A batch survives a step outside of the dispatch loop.
LEMMA BatchKept ==
  ASSUME IInv, ev' = ev, pc' \notin {"dispatch", "cb_event"}
  PROVE  BatchInv'
BY DEF IInv, BatchInv

\* The drive loop stays as it is outside of it.
LEMMA DriveKept ==
  ASSUME IInv, pc' \notin {"drive", "cb_drive", "wait"}
  PROVE  DriveInv'
BY DEF DriveInv, DriveMisses

\* The calls of the loops: cur is the entry with its descriptor and arg.
LEMMA CallType ==
  ASSUME TypeOK, NEW a \in Addrs, Call(a)
  PROVE  /\ cur' \in [addr : Addrs \cup {None}, fd : Fds \cup {None}, arg : Nat]
         /\ cur'.addr = a /\ cur'.fd = fdOf[a] /\ cur'.arg = argOf[a]
BY DEF TypeOK, Call

\* epoll_wait reports distinct entries of ed, so no more than ed has: the
\* extra slot of ev_len + 1 is never used.
LEMMA WaitBatch ==
  ASSUME IInv, EpollWait
  PROVE  ev' \in Seq(Addrs) /\ BatchInv'
<1>t. /\ Len(ed) \in Nat /\ \A k \in 1..Len(ed) : ed[k] \in Addrs
      /\ MaxEv \in Nat
  BY Types, MaxEvAssumption DEF IInv
<1>0. /\ UNCHANGED <<ed, fdOf, interest>> /\ pc' = "dispatch" /\ i' = 0
      /\ ev' \in Reports
  BY DEF EpollWait, registry
<1>1. PICK n \in 0..Len(ed) + 1 : ev' \in [1..n -> Addrs]
  BY <1>0 DEF Reports
<1>2. ev' \in Seq(Addrs) /\ Len(ev') = n
  <2>1. n \in Nat
    BY <1>t
  <2> QED BY <2>1, <1>1, FcnIsSeq
<1>3. /\ \A k \in 1..Len(ev') : \E fd \in Fds : interest[fd] = ev'[k]
      /\ \A k, m \in 1..Len(ev') : ev'[k] = ev'[m] => k = m
  BY <1>0 DEF Reports
<1>4. \A k \in 1..Len(ev') : \E m \in 1..Len(ed) : ed[m] = ev'[k]
  <2> SUFFICES ASSUME NEW k \in 1..Len(ev') PROVE \E m \in 1..Len(ed) : ed[m] = ev'[k]
    OBVIOUS
  <2>1. PICK fd \in Fds : interest[fd] = ev'[k]
    BY <1>3
  <2>2. ev'[k] # None
    BY <1>1, <1>2, NoneAssumption
  <2> QED BY <2>1, <2>2 DEF IInv, RegistryInv, KernelAgrees
<1>5. n <= Len(ed)
  <2> DEFINE f == [k \in 1..n |-> CHOOSE m \in 1..Len(ed) : ed[m] = ev'[k]]
  <2>1. \A k \in 1..n : f[k] \in 1..Len(ed) /\ ed[f[k]] = ev'[k]
    BY <1>2, <1>4
  <2>2. f \in [1..n -> 1..Len(ed)]
    BY <2>1
  <2> HIDE DEF f
  <2>3. f \in Injection(1..n, 1..Len(ed))
    BY <2>1, <2>2, <1>2, <1>3 DEF Injection, IsInjective
  <2>4. IsFiniteSet(1..Len(ed)) /\ Cardinality(1..Len(ed)) = Len(ed)
        /\ Cardinality(1..n) = n
    <3>1. 1 \in Int /\ Len(ed) \in Int /\ n \in Int
      BY <1>t
    <3>2. /\ IsFiniteSet(1..Len(ed))
          /\ Cardinality(1..Len(ed)) = IF 1 > Len(ed) THEN 0 ELSE Len(ed) - 1 + 1
          /\ Cardinality(1..n) = IF 1 > n THEN 0 ELSE n - 1 + 1
      BY <3>1, FS_Interval
    <3> QED BY <3>2, <1>t
  <2>5. Cardinality(1..n) <= Cardinality(1..Len(ed))
    BY <2>3, <2>4, FS_Injection
  <2> QED BY <2>4, <2>5
<1>6. Len(ed) <= MaxEv
  BY DEF IInv, RegistryInv
<1>7. Len(ev') <= MaxEv
  BY <1>2, <1>5, <1>6, <1>t
<1>8. \A k \in Pending' : \E m \in 1..Len(ed') : ed'[m] = ev'[k]
  BY <1>4, <1>0 DEF Pending
<1> QED BY <1>0, <1>2, <1>3, <1>7, <1>8 DEF BatchInv

\* Every step of hp_epoll_run and hp_epoll_uninit keeps the invariant.
LEMMA RunKeeps ==
  ASSUME IInv, StartRun \/ RunStep \/ CallbackEnds \/ hp_epoll_uninit
  PROVE  IInv'
<1>t. /\ TypeOK /\ Len(ed) \in Nat /\ Len(ev) \in Nat /\ i \in Nat /\ removed \in Nat
      /\ \A k \in 1..Len(ed) : ed[k] \in Addrs
      /\ \A k \in 1..Len(ev) : ev[k] \in Addrs
  BY Types DEF IInv
<1>1. ASSUME NEW m \in {0, 1}, hp_epoll_run(m) PROVE IInv'
  <2>1. UNCHANGED registry /\ ev' = ev /\ ops' = ops /\ pc' \in {"drive", "cb_before"}
    BY <1>1 DEF hp_epoll_run, EnterDrive
  <2>2. TypeOK'
    BY <1>1, <1>t DEF TypeOK, hp_epoll_run, EnterDrive, registry, history, InCallback
  <2>3. DriveInv'
    BY <1>1, <2>1, EnterDriveKeeps, DriveKept DEF hp_epoll_run
  <2> QED BY <2>1, <2>2, <2>3, RegistryKept, BatchKept DEF IInv
<1>2. ASSUME NEW rc \in {0, 1}, BeforeWaitReturns(rc) PROVE IInv'
  <2>1. UNCHANGED registry /\ ev' = ev /\ ops' = ops /\ pc' \in {"drive", "out"}
    BY <1>2 DEF BeforeWaitReturns, EnterDrive
  <2>2. TypeOK'
    BY <1>2, <1>t DEF TypeOK, BeforeWaitReturns, EnterDrive, registry, history
  <2>3. DriveInv'
    BY <1>2, <2>1, EnterDriveKeeps, DriveKept DEF BeforeWaitReturns
  <2> QED BY <2>1, <2>2, <2>3, RegistryKept, BatchKept DEF IInv
<1>3. CASE DriveCall
  <2>1. /\ UNCHANGED registry /\ UNCHANGED <<mode, i, ev, ops, removed>>
        /\ pc = "drive" /\ pc' = "cb_drive" /\ i < Len(ed)
        /\ driven' = driven \cup {ed[i + 1]} /\ Call(ed[i + 1])
    BY <1>3 DEF DriveCall
  <2>2. i + 1 \in 1..Len(ed) /\ ed[i + 1] \in Addrs
    BY <2>1, <1>t
  <2>3. TypeOK'
    BY <2>1, <2>2, <1>t, CallType DEF TypeOK, registry, InCallback
  <2>4. Missed(i + 1)' \in SUBSET Missed(i)
    BY <2>1, <2>2, <1>t DEF Missed, registry
  <2>5. Cardinality(Missed(i)) <= removed
    BY <2>1 DEF IInv, DriveInv
  <2>6. /\ IsFiniteSet(Missed(i)) /\ Cardinality(Missed(i)) \in Nat
        /\ IsFiniteSet(Missed(i + 1)')
        /\ Cardinality(Missed(i + 1)') <= Cardinality(Missed(i))
    BY <2>4, <1>t, MissedFinite, FS_Subset
  <2>7. Cardinality(Missed(i + 1)') \in Nat
    BY <2>6, FS_CardinalityType
  <2>8. Cardinality(Missed(i + 1)') <= removed'
    BY <2>1, <2>5, <2>6, <2>7, <1>t
  <2>9. DriveInv'
    BY <2>1, <2>8 DEF DriveInv, DriveMisses
  <2> QED BY <2>1, <2>3, <2>9, RegistryKept, BatchKept DEF IInv
<1>4. CASE DriveEnds
  <2>1. /\ UNCHANGED <<registry, loop, ops, history>> /\ pc = "drive" /\ pc' = "wait"
        /\ i >= Len(ed)
    BY <1>4 DEF DriveEnds
  <2>2. TypeOK'
    BY <2>1, <1>t DEF TypeOK, registry, loop, history
  <2>3. {k \in 1..Len(ed) : ed[k] \notin driven} \in SUBSET Missed(i)
    BY <2>1, <1>t DEF Missed
  <2>4. Cardinality(Missed(i)) <= removed
    BY <2>1 DEF IInv, DriveInv
  <2> DEFINE D == {k \in 1..Len(ed) : ed[k] \notin driven}
  <2>5. Cardinality(D) <= removed
    <3> HIDE DEF D
    <3>1. D \in SUBSET Missed(i)
      BY <2>3 DEF D
    <3>2. /\ IsFiniteSet(D) /\ Cardinality(D) <= Cardinality(Missed(i))
          /\ Cardinality(Missed(i)) \in Nat
      BY <3>1, <1>t, MissedFinite, FS_Subset
    <3>3. Cardinality(D) \in Nat
      BY <3>2, FS_CardinalityType
    <3> QED BY <3>2, <3>3, <2>4, <1>t
  <2>6. DriveInv'
    BY <2>1, <2>5 DEF DriveInv, DriveMisses, registry, history
  <2>7. ev' = ev
    BY <2>1 DEF loop
  <2> QED BY <2>1, <2>2, <2>6, <2>7, RegistryKept, BatchKept DEF IInv
<1>5. CASE EpollWait
  <2>1. UNCHANGED registry /\ UNCHANGED <<mode, cur, ops, history>> /\ i' = 0 /\ pc' = "dispatch"
    BY <1>5 DEF EpollWait
  <2>2. TypeOK'
    BY <1>5, <2>1, <1>t, WaitBatch DEF TypeOK, registry, history
  <2> QED BY <1>5, <2>1, <2>2, WaitBatch, RegistryKept, DriveKept DEF IInv
<1>6. CASE EpollWaitInterrupted \/ OnLoopEnds
  <2>1. UNCHANGED registry /\ UNCHANGED <<mode, ev, cur, ops>> /\ pc' \in {"drive", "out"}
    BY <1>6 DEF EpollWaitInterrupted, OnLoopEnds, EnterDrive
  <2>2. TypeOK'
    BY <1>6, <1>t DEF TypeOK, EpollWaitInterrupted, OnLoopEnds, EnterDrive, registry, history
  <2>3. DriveInv'
    BY <1>6, <2>1, EnterDriveKeeps, DriveKept DEF EpollWaitInterrupted, OnLoopEnds
  <2> QED BY <2>1, <2>2, <2>3, RegistryKept, BatchKept DEF IInv
<1>7. CASE EpollWaitFails \/ hp_epoll_uninit
  <2>1. UNCHANGED registry /\ UNCHANGED <<loop, ops, history>> /\ pc' \in {"out", "uninit"}
    BY <1>7 DEF EpollWaitFails, hp_epoll_uninit
  <2>2. TypeOK' /\ ev' = ev
    BY <2>1, <1>t DEF TypeOK, registry, loop, history
  <2> QED BY <2>1, <2>2, RegistryKept, BatchKept, DriveKept DEF IInv
<1>8. CASE EventCall
  <2>1. /\ UNCHANGED registry /\ UNCHANGED <<mode, i, ev, ops, history>>
        /\ pc = "dispatch" /\ pc' = "cb_event" /\ i < Len(ev) /\ Call(ev[i + 1])
    BY <1>8 DEF EventCall
  <2>2. i + 1 \in 1..Len(ev) /\ i + 1 \in Pending /\ ev[i + 1] \in Addrs
    BY <2>1, <1>t DEF Pending
  <2>3. cur'.fd = fdOf[ev[i + 1]] /\ TypeOK'
    BY <2>1, <2>2, <1>t, CallType DEF TypeOK, registry, history, InCallback
  <2>4. Pending' = Pending \ {i + 1}
    BY <2>1, <2>2, <1>t DEF Pending
  <2>5. PICK m1 \in 1..Len(ed) : ed[m1] = ev[i + 1]
    BY <2>1, <2>2 DEF IInv, BatchInv
  <2>6. ASSUME NEW k \in Pending'
        PROVE  (\E m \in 1..Len(ed) : ed[m] = ev[k]) /\ fdOf[ev[k]] # cur'.fd
    <3>1. PICK m2 \in 1..Len(ed) : ed[m2] = ev[k]
      BY <2>1, <2>4, <2>6 DEF IInv, BatchInv
    <3>2. k \in 1..Len(ev) /\ k # i + 1 /\ ev[k] # ev[i + 1]
      BY <2>1, <2>2, <2>4, <2>6 DEF IInv, BatchInv, Pending
    <3> QED BY <3>1, <3>2, <2>3, <2>5 DEF IInv, RegistryInv, NoDuplicates
  <2>7. BatchInv'
    BY <2>1, <2>6 DEF IInv, BatchInv, registry
  <2> QED BY <2>1, <2>3, <2>7, RegistryKept, DriveKept DEF IInv
<1>9. CASE DispatchEnds
  <2>1. /\ UNCHANGED registry /\ UNCHANGED <<mode, cur, ops, history>>
        /\ i' = 0 /\ ev' = <<>> /\ pc' = "on_loop"
    BY <1>9 DEF DispatchEnds
  <2>2. TypeOK'
    BY <2>1, <1>t DEF TypeOK, registry, history
  <2>3. BatchInv'
    BY <2>1, MaxEvAssumption DEF BatchInv
  <2> QED BY <2>1, <2>2, <2>3, RegistryKept, DriveKept DEF IInv
<1>10. CASE OnLoopCall
  <2>1. /\ UNCHANGED registry /\ UNCHANGED <<mode, i, ev, ops, history>>
        /\ pc' = "cb_loop" /\ i < Len(ed) /\ Call(ed[i + 1])
    BY <1>10 DEF OnLoopCall
  <2>2. ed[i + 1] \in Addrs
    BY <2>1, <1>t
  <2>3. TypeOK'
    BY <2>1, <2>2, <1>t, CallType DEF TypeOK, registry, history, InCallback
  <2> QED BY <2>1, <2>3, RegistryKept, BatchKept, DriveKept DEF IInv
<1>11. CASE CallbackReturns
  <2>1. /\ UNCHANGED registry /\ UNCHANGED <<mode, ev, ops, history>>
        /\ i' = i + 1 /\ cur' = NoCall
        /\ \/ pc = "cb_drive" /\ pc' = "drive"
           \/ pc = "cb_event" /\ pc' = "dispatch"
           \/ pc = "cb_loop" /\ pc' = "on_loop"
    BY <1>11 DEF CallbackReturns
  <2>2. TypeOK'
    BY <2>1, <1>t DEF TypeOK, registry, history, NoCall
  <2>3. BatchInv'
    <3>1. CASE pc = "cb_event"
      <4>1. Pending' = Pending
        BY <2>1, <3>1 DEF Pending
      <4> QED BY <4>1, <2>1, <3>1 DEF IInv, BatchInv, registry
    <3>2. CASE pc # "cb_event"
      BY <2>1, <3>2, BatchKept
    <3> QED BY <3>1, <3>2
  <2>4. DriveInv'
    <3>1. CASE pc = "cb_drive"
      <4>1. Missed(i)' = Missed(i + 1)
        BY <2>1 DEF Missed, registry, history
      <4> QED BY <4>1, <2>1, <3>1 DEF IInv, DriveInv, DriveMisses, history
    <3>2. CASE pc # "cb_drive"
      BY <2>1, <3>2, DriveKept
    <3> QED BY <3>1, <3>2
  <2> QED BY <2>1, <2>2, <2>3, <2>4, RegistryKept DEF IInv
<1> QED BY <1>1, <1>2, <1>3, <1>4, <1>5, <1>6, <1>7, <1>8, <1>9, <1>10, <1>11
        DEF StartRun, RunStep, CallbackEnds

-----------------------------------------------------------------------------
(* The properties *)

\* The invariant holds initially and every step keeps it.
THEOREM Invariance == Spec => []IInv
<1>1. Init => IInv
  <2> SUFFICES ASSUME Init PROVE IInv
    OBVIOUS
  <2>1. TypeOK
    BY DEF Init, TypeOK, NoCall
  <2>2. RegistryInv /\ ArgInv /\ BatchInv
    BY MaxEvAssumption DEF Init, RegistryInv, KernelAgrees, NoDuplicates,
       AssertNotReached, ArgInv, BatchInv
  <2>3. DriveInv
    BY DEF Init, DriveInv, DriveMisses
  <2> QED BY <2>1, <2>2, <2>3 DEF IInv
<1>2. ASSUME IInv, [Next]_vars PROVE IInv'
  <2>1. ASSUME NEW fd \in Fds, hp_epoll_add(fd) PROVE IInv'
    BY <1>2, <2>1, AddEffect, AddBatch, AddDrive DEF IInv
  <2>2. ASSUME NEW fd \in Fds, hp_epoll_rm(fd) PROVE IInv'
    BY <1>2, <2>2, RmEffect, RmBatch, RmDrive DEF IInv
  <2>3. CASE StartRun \/ RunStep \/ CallbackEnds \/ hp_epoll_uninit
    BY <1>2, <2>3, RunKeeps
  <2>4. CASE UNCHANGED vars
    BY <1>2, <2>4 DEF vars, IInv, TypeOK, RegistryInv, KernelAgrees, NoDuplicates,
       AssertNotReached, ArgInv, BatchInv, Pending, DriveInv, DriveMisses, Missed
  <2> QED BY <1>2, <2>1, <2>2, <2>3, <2>4 DEF Next
<1> QED BY <1>1, <1>2, PTL DEF Spec

\* After any order of hp_epoll_add and hp_epoll_rm, from callbacks too, ed and
\* the kernel hold the same entries, each descriptor once, and the assert(0)
\* after EPOLL_CTL_ADD is not reached.
THEOREM RegistryIsSound == Spec => []RegistrySound
<1>1. IInv => RegistrySound
  BY DEF IInv, RegistryInv, RegistrySound
<1> QED BY <1>1, Invariance, PTL

\* What epoll_wait reports fits the array ev although it is told of one slot
\* more, and every event still to be dispatched points at a registered entry
\* whatever the callbacks before it did.
THEOREM BatchIsSound == Spec => []BatchSound
<1>1. IInv => BatchSound
  BY DEF IInv, RegistryInv, BatchInv, BatchSound, BatchFits, BatchAlive, Pending
<1> QED BY <1>1, Invariance, PTL

\* One pass of the drive loop leaves out at most as many descriptors as the
\* callbacks removed while it ran.
THEOREM DriveMissesFew == Spec => []DriveMisses
<1>1. IInv => DriveMisses
  BY DEF IInv, DriveInv
<1> QED BY <1>1, Invariance, PTL

\* Every callback is handed the arg of the hp_epoll_add in force for its
\* descriptor, never the one of an entry that was replaced or of an address
\* that malloc handed out again.
THEOREM CurrentArg == Spec => CallsCurrentArg
<1>1. ASSUME IInv, [Next]_vars, cur' # cur, NEW a \in Addrs, cur = NoCall, cur'.addr = a
      PROVE  cur'.fd \in Fds /\ latest[cur'.fd] = cur'.arg
  <2>t. /\ TypeOK /\ Len(ed) \in Nat /\ Len(ev) \in Nat /\ i \in Nat
        /\ \A k \in 1..Len(ed) : ed[k] \in Addrs
    BY <1>1, Types DEF IInv
  <2>1. ASSUME NEW k \in 1..Len(ed), Call(ed[k])
        PROVE  cur'.fd \in Fds /\ latest[cur'.fd] = cur'.arg
    <3>1. cur'.fd = fdOf[ed[k]] /\ cur'.arg = argOf[ed[k]]
      BY <2>1, <2>t, CallType
    <3> QED BY <3>1, <1>1 DEF IInv, RegistryInv, KernelAgrees, ArgInv
  <2>2. CASE DriveCall \/ OnLoopCall
    <3>1. i < Len(ed) /\ Call(ed[i + 1])
      BY <2>2 DEF DriveCall, OnLoopCall
    <3>2. i + 1 \in 1..Len(ed)
      BY <3>1, <2>t
    <3> QED BY <3>1, <3>2, <2>1
  <2>3. CASE EventCall
    <3>1. pc = "dispatch" /\ i < Len(ev) /\ Call(ev[i + 1])
      BY <2>3 DEF EventCall
    <3>2. i + 1 \in Pending
      BY <3>1, <2>t DEF Pending
    <3>3. PICK k \in 1..Len(ed) : ed[k] = ev[i + 1]
      BY <3>1, <3>2, <1>1 DEF IInv, BatchInv
    <3>4. Call(ed[k])
      BY <3>1, <3>3
    <3> QED BY <3>4, <2>1
  <2>4. CASE CallbackReturns
    BY <2>4, <1>1, NoneAssumption DEF CallbackReturns
  <2>5. CASE \/ \E fd \in Fds : hp_epoll_add(fd) \/ hp_epoll_rm(fd)
             \/ StartRun \/ DriveEnds \/ EpollWait \/ EpollWaitInterrupted
             \/ EpollWaitFails \/ DispatchEnds \/ OnLoopEnds
             \/ (\E rc \in {0, 1} : BeforeWaitReturns(rc)) \/ hp_epoll_uninit
             \/ UNCHANGED vars
    BY <2>5, <1>1 DEF hp_epoll_add, hp_epoll_rm, StartRun, hp_epoll_run, DriveEnds,
       EpollWait, EpollWaitInterrupted, EpollWaitFails, DispatchEnds, OnLoopEnds,
       BeforeWaitReturns, hp_epoll_uninit, loop, vars
  <2> QED BY <1>1, <2>2, <2>3, <2>4, <2>5 DEF Next, RunStep, CallbackEnds
<1>2. IInv /\ [Next]_vars =>
        [\A a \in Addrs : cur = NoCall /\ cur'.addr = a =>
           /\ cur'.fd \in Fds
           /\ latest[cur'.fd] = cur'.arg]_cur
  BY <1>1
<1> QED BY <1>2, Invariance, PTL DEF Spec, CallsCurrentArg
=============================================================================
