--------------------------- MODULE HpLoopsProofs ----------------------------
(***************************************************************************)
(* Proofs about the poll loop HpPoll, for any descriptors, any max_fd and  *)
(* any number of calls; about what a timer of the loop drives, the object  *)
(* cache HpTimers, for any keys, any timeout_ms that gives the timer an    *)
(* interval, and any number of objects; about the signals of HpSig, for    *)
(* any signals and any number of pieces a handler writes; and about the    *)
(* echo tests of HpEcho on each of the three loops, for any number of      *)
(* pairs and any number of pieces a word comes in.                         *)
(***************************************************************************)
EXTENDS HpPoll, HpTimers, HpSig, HpEcho, FiniteSetTheorems, SequenceTheorems, TLAPS

-----------------------------------------------------------------------------
(* hp_poll: the two arrays of one allocation *)

\* The bookkeeping of the calls: what PollTypeOK leaves out.
PollCalls ==
  /\ parg \in [PollFds -> Nat] /\ pops \in Nat
  /\ ppc = "cb_loop" => pidx <= MaxFd

PollIInv == PollTypeOK /\ PollPairs /\ PollCalls

\* find_by_fd returns the one entry of the descriptor, or 0.
LEMMA FindByFd ==
  ASSUME PollTypeOK, PollPairs, NEW fd \in PollFds
  PROVE  \/ find_by_fd(fd) = 0 /\ \A k \in 1..nfds : pfd[k].fd # fd
         \/ find_by_fd(fd) \in 1..nfds /\ pfd[find_by_fd(fd)].fd = fd
<1> DEFINE K == {k \in 1..nfds : pfd[k].fd = fd}
<1>1. CASE K = {}
  BY <1>1 DEF find_by_fd
<1>2. CASE K # {}
  <2>1. PICK k \in 1..nfds : pfd[k].fd = fd
    BY <1>2
  <2>2. K = {k}
    BY <2>1 DEF PollPairs
  <2>3. k <= k
    BY <2>1
  <2>4. find_by_fd(fd) = CHOOSE m \in K : \A j \in K : m <= j
    BY <1>2 DEF find_by_fd
  <2>5. find_by_fd(fd) \in K
    BY <2>2, <2>3, <2>4
  <2> QED BY <2>5
<1> QED BY <1>1, <1>2

\* An entry stored at k with fd, where k is the entry of fd or the first free one.
LEMMA StoreKeeps ==
  ASSUME PollIInv, NEW fd \in PollFds, NEW k \in 1..nfds', Store(k, fd),
         pops' = pops + 1,
         nfds' \in 0..MaxFd, nfds' = nfds \/ (nfds' = nfds + 1 /\ k = nfds'),
         \A j \in 1..nfds : j # k => pfd[j].fd # fd
  PROVE  /\ pfd' \in [1..MaxFd + 1 -> [fd : PollFds, revents : BOOLEAN]]
         /\ polld' \in [1..MaxFd + 1 -> Nat]
         /\ parg' \in [PollFds -> Nat] /\ pops' \in Nat
         /\ PollPairs'
<1>t. /\ pops + 1 \in Nat /\ pops + 1 # 0 /\ nfds \in Nat /\ MaxFd \in Nat
      /\ nfds' \in Nat /\ k \in 1..MaxFd + 1
  BY PollAssumption DEF PollIInv, PollTypeOK, PollCalls
<1>1. /\ pfd' = [pfd EXCEPT ![k] = [fd |-> fd, revents |-> FALSE]]
      /\ polld' = [polld EXCEPT ![k] = pops + 1]
      /\ parg' = [parg EXCEPT ![fd] = pops + 1]
  BY DEF Store
<1>2. /\ pfd' \in [1..MaxFd + 1 -> [fd : PollFds, revents : BOOLEAN]]
      /\ polld' \in [1..MaxFd + 1 -> Nat]
      /\ parg' \in [PollFds -> Nat] /\ pops' \in Nat
  BY <1>1, <1>t DEF PollIInv, PollTypeOK, PollCalls
<1>3. pfd'[k].fd = fd /\ polld'[k] = pops + 1 /\ parg'[fd] = pops + 1
  BY <1>1, <1>t DEF PollIInv, PollTypeOK, PollCalls
<1>4. ASSUME NEW j \in 1..nfds', j # k
      PROVE  /\ j \in 1..nfds /\ pfd'[j].fd = pfd[j].fd /\ pfd[j].fd # fd
             /\ pfd[j].fd \in PollFds
             /\ polld'[j] = polld[j] /\ parg'[pfd[j].fd] = parg[pfd[j].fd]
  <2>1. j \in 1..nfds /\ j \in 1..MaxFd + 1
    BY <1>4, <1>t
  <2>2. pfd[j].fd # fd /\ pfd[j].fd \in PollFds
    BY <1>4, <2>1 DEF PollIInv, PollTypeOK
  <2> QED BY <2>1, <2>2, <1>1, <1>4 DEF PollIInv, PollTypeOK, PollCalls
<1>5. \A j \in 1..nfds' : polld'[j] = parg'[pfd'[j].fd] /\ polld'[j] # 0
  BY <1>3, <1>4, <1>t DEF PollIInv, PollPairs
<1>6. \A j, m \in 1..nfds' : pfd'[j].fd = pfd'[m].fd => j = m
  BY <1>3, <1>4 DEF PollIInv, PollPairs
<1> QED BY <1>2, <1>5, <1>6 DEF PollPairs

\* hp_poll_add keeps the pairs: an overwritten entry keeps its place, a new one
\* is appended to both arrays.
LEMMA PollAddKeeps ==
  ASSUME PollIInv, NEW fd \in PollFds, hp_poll_add(fd)
  PROVE  PollIInv'
<1>t. nfds \in Nat /\ nfds <= MaxFd /\ MaxFd \in Nat /\ pops + 1 \in Nat
  BY PollAssumption DEF PollIInv, PollTypeOK, PollCalls
<1>0. UNCHANGED <<ppc, pmode, pidx, pn>> /\ pops' = pops + 1
  BY DEF hp_poll_add, prun, PollUserRuns
<1>1. CASE find_by_fd(fd) # 0 /\ Store(find_by_fd(fd), fd) /\ UNCHANGED nfds
  <2>1. PICK k \in 1..nfds : k = find_by_fd(fd) /\ pfd[k].fd = fd
    BY <1>1, FindByFd DEF PollIInv
  <2>2. \A j \in 1..nfds : j # k => pfd[j].fd # fd
    BY <2>1 DEF PollIInv, PollPairs
  <2>3. nfds' = nfds /\ nfds' \in 0..MaxFd /\ k \in 1..nfds'
    BY <1>1, <2>1 DEF PollIInv, PollTypeOK
  <2>4. Store(k, fd)
    BY <1>1, <2>1
  <2>5. /\ pfd' \in [1..MaxFd + 1 -> [fd : PollFds, revents : BOOLEAN]]
        /\ polld' \in [1..MaxFd + 1 -> Nat]
        /\ parg' \in [PollFds -> Nat] /\ pops' \in Nat
        /\ PollPairs'
    BY <1>0, <2>2, <2>3, <2>4, StoreKeeps
  <2> QED BY <1>0, <2>3, <2>5 DEF PollIInv, PollTypeOK, PollCalls
<1>2. CASE AppendEntry(fd)
  <2>1. /\ find_by_fd(fd) = 0 /\ nfds < MaxFd /\ nfds' = nfds + 1
        /\ Store(nfds + 1, fd)
    BY <1>2 DEF AppendEntry
  <2>2. \A j \in 1..nfds : pfd[j].fd # fd
    BY <2>1, FindByFd DEF PollIInv
  <2>3. nfds' \in 0..MaxFd /\ nfds + 1 \in 1..nfds'
    BY <2>1, <1>t
  <2> QED BY <1>0, <2>1, <2>2, <2>3, StoreKeeps DEF PollIInv, PollTypeOK, PollCalls
<1>3. CASE find_by_fd(fd) = 0 /\ nfds >= MaxFd /\ UNCHANGED <<pfd, polld, parg, nfds>>
  BY <1>0, <1>3, <1>t DEF PollIInv, PollTypeOK, PollPairs, PollCalls
<1> QED BY <1>1, <1>2, <1>3 DEF hp_poll_add

\* hp_poll_rm closes the gap in both arrays, whatever callback calls it.
LEMMA PollRmKeeps ==
  ASSUME PollIInv, NEW fd \in PollFds, hp_poll_rm(fd)
  PROVE  PollIInv'
<1>t. nfds \in Nat /\ nfds <= MaxFd /\ MaxFd \in Nat /\ pops + 1 \in Nat
  BY PollAssumption DEF PollIInv, PollTypeOK, PollCalls
<1>0. UNCHANGED <<ppc, pmode, pidx, pn>> /\ pops' = pops + 1
  BY DEF hp_poll_rm, prun, PollUserRuns
<1>1. CASE find_by_fd(fd) = 0
  <2>1. UNCHANGED <<pfd, polld, nfds, parg>>
    BY <1>1 DEF hp_poll_rm
  <2> QED BY <1>0, <2>1, <1>t DEF PollIInv, PollTypeOK, PollPairs, PollCalls
<1>2. CASE find_by_fd(fd) # 0
  <2> DEFINE k == find_by_fd(fd)
  <2>1. k \in 1..nfds /\ pfd[k].fd = fd
    BY <1>2, FindByFd DEF PollIInv
  <2>2. /\ pfd' = [j \in DOMAIN pfd |-> IF j \in k..nfds - 1 THEN pfd[j + 1] ELSE pfd[j]]
        /\ polld' = [j \in DOMAIN polld |->
                       IF j \in k..nfds - 1 THEN polld[j + 1] ELSE polld[j]]
        /\ nfds' = nfds - 1
        /\ parg' = [parg EXCEPT ![fd] = 0]
    BY <1>2 DEF hp_poll_rm, hp_poll_rm_at
  <2>k. k \in Nat /\ DOMAIN pfd = 1..MaxFd + 1 /\ DOMAIN polld = 1..MaxFd + 1
    BY <2>1, <1>t DEF PollIInv, PollTypeOK
  <2> HIDE DEF k
  <2>3. PollTypeOK'
    <3>1. \A j \in 1..MaxFd + 1 : j \in k..nfds - 1 => j + 1 \in 1..MaxFd + 1
      BY <2>k, <1>t
    <3>2. pfd' \in [1..MaxFd + 1 -> [fd : PollFds, revents : BOOLEAN]]
      BY <2>2, <2>k, <3>1 DEF PollIInv, PollTypeOK
    <3>3. polld' \in [1..MaxFd + 1 -> Nat]
      BY <2>2, <2>k, <3>1 DEF PollIInv, PollTypeOK
    <3>4. nfds' \in 0..MaxFd
      BY <2>1, <2>2, <1>t
    <3> QED BY <1>0, <3>2, <3>3, <3>4 DEF PollIInv, PollTypeOK
  <2>4. ASSUME NEW j \in 1..nfds'
        PROVE  \E m \in 1..nfds : /\ m # k /\ m = (IF j < k THEN j ELSE j + 1)
                                  /\ pfd'[j] = pfd[m] /\ polld'[j] = polld[m]
    <3>0. j \in 1..nfds - 1 /\ j \in 1..MaxFd + 1 /\ j \in Nat
      BY <2>2, <1>t
    <3>1. CASE j < k
      <4>1. ~(j \in k..nfds - 1) /\ j \in 1..nfds /\ j # k
        BY <3>0, <3>1, <2>k, <1>t
      <4> QED BY <3>0, <3>1, <4>1, <2>2, <2>k
    <3>2. CASE ~(j < k)
      <4>1. j \in k..nfds - 1 /\ j + 1 \in 1..nfds /\ j + 1 # k
        BY <3>0, <3>2, <2>k, <1>t
      <4> QED BY <3>0, <3>2, <4>1, <2>2, <2>k
    <3> QED BY <3>1, <3>2
  <2>5. ASSUME NEW m \in 1..nfds, m # k
        PROVE  pfd[m].fd # fd /\ parg'[pfd[m].fd] = parg[pfd[m].fd]
    <3>1. pfd[m].fd # fd /\ m \in 1..MaxFd + 1
      BY <2>1, <2>5, <1>t DEF PollIInv, PollPairs
    <3>2. pfd[m].fd \in PollFds
      BY <3>1 DEF PollIInv, PollTypeOK
    <3> QED BY <3>1, <3>2, <2>2 DEF PollIInv, PollCalls
  <2>6. PollPairs'
    <3>1. \A j \in 1..nfds' : polld'[j] = parg'[pfd'[j].fd] /\ polld'[j] # 0
      BY <2>4, <2>5 DEF PollIInv, PollPairs
    <3>2. ASSUME NEW a \in 1..nfds', NEW b \in 1..nfds', pfd'[a].fd = pfd'[b].fd
          PROVE  a = b
      <4>1. PICK m \in 1..nfds : m # k /\ m = (IF a < k THEN a ELSE a + 1) /\ pfd'[a] = pfd[m]
        BY <2>4
      <4>2. PICK n \in 1..nfds : n # k /\ n = (IF b < k THEN b ELSE b + 1) /\ pfd'[b] = pfd[n]
        BY <2>4
      <4>3. m = n
        BY <3>2, <4>1, <4>2 DEF PollIInv, PollPairs
      <4>4. a \in Nat /\ b \in Nat
        BY <2>2, <1>t
      <4> QED BY <4>1, <4>2, <4>3, <4>4, <2>k
    <3> QED BY <3>1, <3>2 DEF PollPairs
  <2>7. PollCalls'
    BY <2>2, <1>0, <1>t DEF PollIInv, PollCalls
  <2> QED BY <2>3, <2>6, <2>7 DEF PollIInv
<1> QED BY <1>1, <1>2

\* poll() and a callback that returns set and clear revents, and nothing else of
\* an entry.
LEMMA ReventsKeep ==
  ASSUME PollIInv, UNCHANGED <<polld, nfds, pops, parg>>,
         pfd' \in [1..MaxFd + 1 -> [fd : PollFds, revents : BOOLEAN]],
         \A k \in 1..MaxFd + 1 : pfd'[k].fd = pfd[k].fd,
         pidx' = pidx, pn' \in {pn, nfds}, ppc' # "cb_loop"
  PROVE  PollIInv'
<1>t. nfds \in 0..MaxFd /\ MaxFd \in Nat
  BY PollAssumption DEF PollIInv, PollTypeOK
<1>1. PollTypeOK' /\ PollCalls'
  BY <1>t DEF PollIInv, PollTypeOK, PollCalls
<1>2. \A k \in 1..nfds' : k \in 1..nfds /\ pfd'[k].fd = pfd[k].fd
  BY <1>t
<1>3. PollPairs'
  BY <1>2 DEF PollIInv, PollPairs
<1> QED BY <1>1, <1>3 DEF PollIInv

\* Every step of the loop and of its users keeps the invariant.
LEMMA PollStepKeeps ==
  ASSUME PollIInv, [PollNext]_pollVars
  PROVE  PollIInv'
<1>t. nfds \in 0..MaxFd /\ MaxFd \in Nat \ {0} /\ pidx \in 0..MaxFd + 1
  BY PollAssumption DEF PollIInv, PollTypeOK
<1>1. ASSUME NEW fd \in PollFds, hp_poll_add(fd) \/ hp_poll_rm(fd) PROVE PollIInv'
  BY <1>1, PollAddKeeps, PollRmKeeps
<1>2. CASE poll
  <2>1. /\ pfd' = [k \in DOMAIN pfd |->
                     IF k \in 1..nfds THEN [pfd[k] EXCEPT !.revents = k \in Polled]
                     ELSE pfd[k]]
        /\ pn' = nfds /\ ppc' = "polled" /\ UNCHANGED <<polld, nfds, pidx, pops, parg>>
    BY <1>2 DEF poll
  <2>2. pfd \in [1..MaxFd + 1 -> [fd : PollFds, revents : BOOLEAN]]
    BY DEF PollIInv, PollTypeOK
  <2>3. ASSUME NEW k \in 1..MaxFd + 1
        PROVE  /\ pfd'[k] \in [fd : PollFds, revents : BOOLEAN]
               /\ pfd'[k].fd = pfd[k].fd
    <3>1. pfd'[k] = IF k \in 1..nfds THEN [pfd[k] EXCEPT !.revents = k \in Polled]
                    ELSE pfd[k]
      BY <2>1, <2>2
    <3>2. pfd[k] \in [fd : PollFds, revents : BOOLEAN]
      BY <2>2
    <3>3. CASE k \in 1..nfds
      <4>1. (k \in Polled) \in BOOLEAN
        OBVIOUS
      <4> DEFINE r == k \in Polled
      <4>2. pfd'[k] = [pfd[k] EXCEPT !.revents = r] /\ r \in BOOLEAN
        BY <3>1, <3>3, <4>1
      <4> HIDE DEF r
      <4> QED BY <4>2, <3>2
    <3>4. CASE ~(k \in 1..nfds)
      BY <3>1, <3>2, <3>4
    <3> QED BY <3>3, <3>4
  <2>4. pfd' \in [1..MaxFd + 1 -> [fd : PollFds, revents : BOOLEAN]]
    <3>1. pfd' = [k \in 1..MaxFd + 1 |-> pfd'[k]]
      BY <2>1, <2>2
    <3> QED BY <3>1, <2>3
  <2> QED BY <2>1, <2>3, <2>4, ReventsKeep
<1>3. CASE PolledReturns
  <2>1. /\ pfd' = [pfd EXCEPT ![pidx].revents = FALSE]
        /\ ppc' = "polled" /\ UNCHANGED <<polld, nfds, pidx, pn, pops, parg>>
    BY <1>3 DEF PolledReturns
  <2>2. /\ pfd' \in [1..MaxFd + 1 -> [fd : PollFds, revents : BOOLEAN]]
        /\ \A k \in 1..MaxFd + 1 : pfd'[k].fd = pfd[k].fd
    BY <2>1 DEF PollIInv, PollTypeOK
  <2> QED BY <2>1, <2>2, ReventsKeep
<1>4. CASE CallPolled
  <2>1. /\ UNCHANGED <<pfd, polld, nfds, parg, pops, pn>> /\ ppc' = "cb_polled"
        /\ pidx' \in 1..nfds
    BY <1>4 DEF CallPolled, registered, get_next_to_run
  <2> QED BY <2>1, <1>t DEF PollIInv, PollTypeOK, PollPairs, PollCalls
<1>5. CASE PolledEnds
  <2>1. UNCHANGED <<pfd, polld, nfds, parg, pops, pn>> /\ ppc' = "on_loop" /\ pidx' = 1
    BY <1>5 DEF PolledEnds, registered
  <2> QED BY <2>1, <1>t DEF PollIInv, PollTypeOK, PollPairs, PollCalls
<1>6. CASE LoopCall
  <2>1. /\ UNCHANGED <<pfd, polld, nfds, parg, pops, pn, pidx>> /\ ppc' = "cb_loop"
        /\ pidx <= nfds
    BY <1>6 DEF LoopCall, registered
  <2> QED BY <2>1, <1>t DEF PollIInv, PollTypeOK, PollPairs, PollCalls
<1>7. CASE LoopReturns
  <2>1. /\ UNCHANGED <<pfd, polld, nfds, parg, pops, pn>> /\ ppc = "cb_loop"
        /\ ppc' = "on_loop" /\ pidx' = pidx + 1
    BY <1>7 DEF LoopReturns, registered
  <2>2. pidx' \in 0..MaxFd + 1
    BY <2>1, <1>t DEF PollIInv, PollCalls
  <2> QED BY <2>1, <2>2 DEF PollIInv, PollTypeOK, PollPairs, PollCalls
<1>8. CASE \/ PollStart \/ (\E rc \in {0, 1} : before_wait(rc))
           \/ PollNothing \/ PollFails \/ LoopEnds \/ KernelEvents \/ UNCHANGED pollVars
  <2>1. /\ UNCHANGED <<pfd, polld, nfds, parg, pops, pn, pidx>>
        /\ ppc' = ppc \/ ppc' \in {"poll", "cb_before", "out"}
    BY <1>8 DEF PollStart, hp_poll_run, before_wait, PollNothing, PollFails, LoopEnds,
       KernelEvents, pollVars, registered, prun, NextPass
  <2> QED BY <2>1 DEF PollIInv, PollTypeOK, PollPairs, PollCalls
<1> QED BY <1>1, <1>2, <1>3, <1>4, <1>5, <1>6, <1>7, <1>8 DEF PollNext, PollStep

\* Whatever is added and removed, from callbacks too, the two arrays stay in
\* their allocation, and each entry has the callbacks of its own descriptor.
THEOREM PollIsSound == PollSpec => []PollSound
<1>1. PollInit => PollIInv
  <2> SUFFICES ASSUME PollInit PROVE PollIInv
    OBVIOUS
  <2>1. (CHOOSE fd \in PollFds : TRUE) \in PollFds
    BY PollAssumption
  <2>2. PollTypeOK
    BY <2>1, PollAssumption DEF PollInit, PollTypeOK
  <2> QED BY <2>2, PollAssumption DEF PollInit, PollIInv, PollPairs, PollCalls
<1>2. PollIInv /\ [PollNext]_pollVars => PollIInv'
  BY PollStepKeeps
<1>3. PollIInv => PollSound
  BY DEF PollIInv, PollSound
<1> QED BY <1>1, <1>2, <1>3, PTL DEF PollSpec

-----------------------------------------------------------------------------
(* hp_expire: the objects of the cache and their timer *)

\* Types, and what the states of the timer mean: a timer that is started counts
\* down, one that has expired is due again after a whole interval, and the loop
\* gets past its read only while the timer is started.
TimerInv ==
  /\ interval \in {0, Ms \div 2} /\ left \in 0..interval
  /\ expired \in BOOLEAN /\ treg \in BOOLEAN /\ early = FALSE
  /\ interval > 0 => left > 0
  /\ expired => interval > 0 /\ left = interval
  /\ treg /\ tpc2 = "wait" => interval > 0

\* The dictionary and the objects made so far.
DictInv ==
  /\ dic \in [Keys -> [in : BOOLEAN, p : Objects \cup {0}, age : Nat]]
  /\ made \in 0..MaxMade
  /\ since \in [Objects -> Nat] /\ freed \in [Objects -> Nat]
  /\ \A k \in Keys : dic[k].p # 0 => dic[k].in /\ dic[k].p <= made
  /\ owner = "none" => \A k \in Keys : dic[k].p = 0

\* An object has one owner: an entry of its own, or nobody once it was freed.
OwnerInv ==
  \A o \in 1..made :
    \/ freed[o] = 1 /\ \A k \in Keys : dic[k].p # o
    \/ freed[o] = 0 /\ \E k \in Keys : \A j \in Keys : dic[j].p = o <=> j = k

\* Objects still to be made.
FreshInv == \A o \in Objects : o > made => freed[o] = 0

\* An entry is as old as its object is unasked for; in a started timer it is
\* young enough to be seen by the next expiration.
AgeInv ==
  \A k \in Keys : dic[k].p # 0 =>
    /\ since[dic[k].p] = dic[k].age
    /\ treg /\ (tpc2 # "drive" \/ interval > 0) => dic[k].age < Ms + (Ms \div 2)
    /\ treg /\ interval > 0 /\ ~expired => dic[k].age + left < Ms + (Ms \div 2)

TimersIInv == TimerInv /\ DictInv /\ OwnerInv /\ FreshInv /\ AgeInv

\* The interval of the timer is a positive number, and so is e->ms.
LEMMA Half ==
  Ms \div 2 \in Nat /\ Ms \div 2 > 0 /\ Ms \in Nat /\ Ms > 0 /\ MaxMade \in Nat
<1>1. Ms \in Nat /\ Ms \div 2 > 0 /\ MaxMade \in Nat
  BY TimersAssumption
<1>2. Ms \div 2 \in Nat /\ Ms > 0
  BY <1>1
<1> QED BY <1>1, <1>2

\* What TimersIInv says of one entry.
LEMMA EntryType ==
  ASSUME TimersIInv, NEW k \in Keys
  PROVE  /\ dic[k] \in [in : BOOLEAN, p : Objects \cup {0}, age : Nat]
         /\ dic[k].age \in Nat /\ dic[k].p \in Objects \cup {0}
         /\ dic[k].p # 0 => /\ dic[k].p \in Objects /\ dic[k].p \in 1..made
                            /\ since[dic[k].p] \in Nat
<1>1. dic[k] \in [in : BOOLEAN, p : Objects \cup {0}, age : Nat]
  BY DEF TimersIInv, DictInv
<1>2. /\ made \in Nat /\ since \in [Objects -> Nat]
      /\ dic[k].p # 0 => dic[k].p <= made
  BY DEF TimersIInv, DictInv
<1>3. ASSUME dic[k].p # 0
      PROVE  dic[k].p \in Objects /\ dic[k].p \in 1..made
  BY <1>1, <1>2, <1>3 DEF Objects
<1> QED BY <1>1, <1>2, <1>3

\* e->free is called once for every entry of S that has an object.
LEMMA FreeEffect ==
  ASSUME TimersIInv, NEW S \in SUBSET Keys, Free(S)
  PROVE  /\ freed' \in [Objects -> Nat]
         /\ \A o \in Objects : (\A k \in S : dic[k].p # o) => freed'[o] = freed[o]
         /\ \A o \in Objects : (\E k \in S : dic[k].p = o) => freed'[o] = 1
<1> DEFINE Of(o) == {k \in S : dic[k].p = o}
<1>0. freed' = [o \in Objects |-> freed[o] + Cardinality(Of(o))]
  BY DEF Free
<1>f. freed \in [Objects -> Nat]
  BY DEF TimersIInv, DictInv
<1>1. ASSUME NEW o \in Objects, \A k \in S : dic[k].p # o
      PROVE  freed'[o] = freed[o] /\ freed'[o] \in Nat
  <2>1. Of(o) = {}
    BY <1>1
  <2> HIDE DEF Of
  <2>2. Cardinality(Of(o)) = 0
    BY <2>1, FS_EmptySet
  <2> QED BY <2>2, <1>0, <1>f
<1>2. ASSUME NEW o \in Objects, NEW k \in S, dic[k].p = o
      PROVE  freed'[o] = 1
  <2>1. o \in 1..made /\ k \in Keys
    BY <1>2, EntryType DEF Objects
  <2>2. freed[o] = 0 /\ \A j \in Keys : dic[j].p = o <=> j = k
    BY <1>2, <2>1 DEF TimersIInv, OwnerInv
  <2>3. Of(o) = {k}
    BY <1>2, <2>2
  <2> HIDE DEF Of
  <2>4. Cardinality(Of(o)) = 1
    BY <2>3, FS_Singleton
  <2> QED BY <2>2, <2>4, <1>0
<1>3. ASSUME NEW o \in Objects PROVE freed'[o] \in Nat
  BY <1>1, <1>2
<1>4. freed' = [o \in Objects |-> freed'[o]]
  BY <1>0
<1> QED BY <1>1, <1>2, <1>3, <1>4

\* hp_timerfd_handle_tfd: the old entries give up their objects, which are
\* freed; what stays is younger than e->ms.
LEMMA ReadKeeps ==
  ASSUME TimersIInv, ReadReturns,
         \/ tpc2 = "drive" /\ tpc2' = "wait"
         \/ tpc2 = "wait" /\ tpc2' = "user"
  PROVE  TimersIInv'
<1> DEFINE S == {k \in Keys : Old(k)}
<1>0. /\ treg /\ expired /\ expired' = FALSE
      /\ UNCHANGED <<interval, left, treg, owner, made, since>>
      /\ Free(S)
      /\ dic' = [k \in Keys |-> IF k \in S THEN [dic[k] EXCEPT !.p = 0] ELSE dic[k]]
      /\ early' = (early \/ \E k \in S : since[dic[k].p] < Ms)
  BY DEF ReadReturns, handle_timer
<1>1. /\ freed' \in [Objects -> Nat]
      /\ \A o \in Objects : (\A k \in S : dic[k].p # o) => freed'[o] = freed[o]
      /\ \A o \in Objects : (\E k \in S : dic[k].p = o) => freed'[o] = 1
  BY <1>0, FreeEffect
<1>2. ASSUME NEW k \in Keys
      PROVE  /\ dic'[k] \in [in : BOOLEAN, p : Objects \cup {0}, age : Nat]
             /\ k \in S => dic'[k].p = 0
             /\ k \notin S => dic'[k] = dic[k]
             /\ dic'[k].p # 0 => k \notin S
  BY <1>0, <1>2, EntryType
<1>3. TimerInv'
  <2>1. ASSUME NEW k \in S PROVE ~(since[dic[k].p] < Ms)
    <3>1. dic[k].p # 0 /\ dic[k].age >= Ms
      BY DEF Old
    <3>2. since[dic[k].p] = dic[k].age /\ dic[k].age \in Nat
      BY <3>1, EntryType DEF TimersIInv, AgeInv
    <3> QED BY <3>1, <3>2, Half
  <2>2. early' = FALSE
    BY <2>1, <1>0 DEF TimersIInv, TimerInv
  <2> QED BY <2>2, <1>0 DEF TimersIInv, TimerInv
<1>4. DictInv'
  <2>1. dic' \in [Keys -> [in : BOOLEAN, p : Objects \cup {0}, age : Nat]]
    <3>1. dic' = [k \in Keys |-> dic'[k]]
      BY <1>0
    <3> QED BY <3>1, <1>2
  <2>2. \A k \in Keys : dic'[k].p # 0 => dic'[k].in /\ dic'[k].p <= made
    BY <1>2 DEF TimersIInv, DictInv
  <2>3. owner' = "none" => \A k \in Keys : dic'[k].p = 0
    BY <1>0, <1>2 DEF TimersIInv, DictInv
  <2> QED BY <2>1, <2>2, <2>3, <1>0, <1>1 DEF TimersIInv, DictInv
<1>5. OwnerInv'
  <2> SUFFICES ASSUME NEW o \in 1..made
               PROVE  \/ freed'[o] = 1 /\ \A k \in Keys : dic'[k].p # o
                      \/ freed'[o] = 0 /\ \E k \in Keys : \A j \in Keys : dic'[j].p = o <=> j = k
    BY <1>0 DEF OwnerInv
  <2>0. o \in Objects /\ o # 0
    BY Half DEF TimersIInv, DictInv, Objects
  <2>1. CASE freed[o] = 1 /\ \A k \in Keys : dic[k].p # o
    BY <2>0, <2>1, <1>1, <1>2
  <2>2. ASSUME freed[o] = 0, NEW k \in Keys, \A j \in Keys : dic[j].p = o <=> j = k
        PROVE  \/ freed'[o] = 1 /\ \A j \in Keys : dic'[j].p # o
               \/ freed'[o] = 0 /\ \A j \in Keys : dic'[j].p = o <=> j = k
    <3>1. CASE k \in S
      BY <2>0, <2>2, <3>1, <1>1, <1>2
    <3>2. CASE k \notin S
      BY <2>0, <2>2, <3>2, <1>1, <1>2
    <3> QED BY <3>1, <3>2
  <2> QED BY <2>1, <2>2 DEF TimersIInv, OwnerInv
<1>6. FreshInv'
  <2> SUFFICES ASSUME NEW o \in Objects, o > made PROVE freed'[o] = 0
    BY <1>0 DEF FreshInv
  <2>1. \A k \in S : dic[k].p # o
    BY EntryType DEF TimersIInv, DictInv, Objects
  <2> QED BY <2>1, <1>1 DEF TimersIInv, FreshInv
<1>7. AgeInv'
  <2> SUFFICES ASSUME NEW k \in Keys, dic'[k].p # 0
               PROVE  /\ since'[dic'[k].p] = dic'[k].age
                      /\ dic'[k].age < Ms + (Ms \div 2)
                      /\ interval' > 0 => dic'[k].age + left' < Ms + (Ms \div 2)
    BY <1>0 DEF AgeInv
  <2>1. dic'[k] = dic[k] /\ k \notin S
    BY <1>2
  <2>2. dic[k].age \in Nat /\ ~(dic[k].age >= Ms)
    BY <2>1, EntryType DEF Old
  <2>3. since[dic[k].p] = dic[k].age
    BY <2>1 DEF TimersIInv, AgeInv
  <2>4. left = interval /\ interval \in {0, Ms \div 2}
    BY <1>0 DEF TimersIInv, TimerInv
  <2> QED BY <2>1, <2>2, <2>3, <2>4, <1>0, Half
<1> QED BY <1>3, <1>4, <1>5, <1>6, <1>7 DEF TimersIInv

\* Steps that leave the cache alone, whatever they do to the timer.
LEMMA CacheKept ==
  ASSUME TimersIInv, UNCHANGED cache,
         owner' = "none" => owner = "none"
  PROVE  DictInv' /\ OwnerInv' /\ FreshInv'
BY DEF TimersIInv, DictInv, OwnerInv, FreshInv, cache

\* The timer is started, stopped or started again: due at once.
LEMMA ResetKeeps ==
  ASSUME TimersIInv, UNCHANGED cache, NEW n \in {0, Ms \div 2}, hp_timerfd_reset(n),
         tpc2 = "user", tpc2' = "user", treg' \in BOOLEAN,
         \/ treg' = treg
         \/ \A k \in Keys : dic[k].p = 0
  PROVE  TimerInv' /\ AgeInv'
<1>1. interval' = n /\ left' = n /\ expired' = (n > 0) /\ n \in Nat
  BY Half DEF hp_timerfd_reset
<1>2. TimerInv'
  <2>1. early' = FALSE
    BY DEF TimersIInv, TimerInv, cache
  <2>2. /\ interval' \in {0, Ms \div 2} /\ left' \in 0..interval'
        /\ interval' > 0 => left' > 0
    BY <1>1
  <2>3. expired' \in BOOLEAN /\ (expired' => interval' > 0 /\ left' = interval')
    <3>1. CASE n > 0
      <4>1. expired' = TRUE
        BY <1>1, <3>1
      <4> QED BY <4>1, <1>1, <3>1
    <3>2. CASE ~(n > 0)
      <4>1. (n > 0) = FALSE
        BY <3>2
      <4>2. expired' = FALSE
        BY <4>1, <1>1, Zenon
      <4> QED BY <4>2
    <3> QED BY <3>1, <3>2
  <2> QED BY <2>1, <2>2, <2>3 DEF TimerInv
<1>3. interval' > 0 => expired'
  BY <1>1
<1>4. AgeInv'
  BY <1>3 DEF TimersIInv, AgeInv, cache
<1> QED BY <1>2, <1>4

\* hp_expire_get hands out an object and makes its entry young again.
LEMMA GetKeeps ==
  ASSUME TimersIInv, NEW k \in Keys, hp_expire_get(k)
  PROVE  TimersIInv'
<1>0. /\ tpc2 = "user" /\ owner # "none"
      /\ UNCHANGED <<interval, left, expired, treg, owner, tpc2, freed, early>>
  BY DEF hp_expire_get, timer
<1>1. PICK o \in {0, made + 1, dic[k].p} :
        /\ o \in Objects \cup {0}
        /\ dic[k].p # 0 => o = dic[k].p
        /\ made' = IF o > made THEN o ELSE made
        /\ dic' = [dic EXCEPT ![k] = [in |-> TRUE, p |-> o, age |-> 0]]
        /\ since' = [q \in Objects |-> IF q = o THEN 0 ELSE since[q]]
  BY DEF hp_expire_get
<1>t. /\ made \in Nat /\ made <= MaxMade /\ MaxMade \in Nat /\ o \in Nat
      /\ dic \in [Keys -> [in : BOOLEAN, p : Objects \cup {0}, age : Nat]]
  BY <1>1, Half DEF TimersIInv, DictInv, Objects
<1>d. /\ dic'[k] = [in |-> TRUE, p |-> o, age |-> 0]
      /\ \A j \in Keys : j # k => dic'[j] = dic[j]
  BY <1>1, <1>t
<1>m. /\ made' \in 0..MaxMade /\ made <= made' /\ o <= made'
      /\ (o = made + 1 /\ made' = made + 1 /\ dic[k].p = 0) \/ (made' = made /\ o <= made)
  <2>1. CASE o = made + 1
    <3>1. dic[k].p = 0
      BY <2>1, <1>1, <1>t, EntryType
    <3> QED BY <2>1, <3>1, <1>1, <1>t DEF Objects
  <2>2. CASE o # made + 1
    <3>1. o <= made
      BY <2>2, <1>1, <1>t, EntryType
    <3> QED BY <3>1, <1>1, <1>t
  <2> QED BY <2>1, <2>2
<1>u. \A j \in Keys : j # k /\ dic[j].p # 0 => dic[j].p # o
  <2> SUFFICES ASSUME NEW j \in Keys, j # k, dic[j].p # 0, dic[j].p = o PROVE FALSE
    OBVIOUS
  <2>1. o \in 1..made
    BY EntryType
  <2>2. dic[k].p = o
    BY <2>1, <1>1, <1>t
  <2> QED BY <2>1, <2>2 DEF TimersIInv, OwnerInv
<1>2. TimerInv'
  BY <1>0 DEF TimersIInv, TimerInv
<1>3. DictInv'
  <2>1. dic' \in [Keys -> [in : BOOLEAN, p : Objects \cup {0}, age : Nat]]
    BY <1>1, <1>t
  <2>2. since' \in [Objects -> Nat]
    BY <1>1 DEF TimersIInv, DictInv
  <2>3. \A j \in Keys : dic'[j].p # 0 => dic'[j].in /\ dic'[j].p <= made'
    <3> SUFFICES ASSUME NEW j \in Keys, dic'[j].p # 0
                 PROVE  dic'[j].in /\ dic'[j].p <= made'
      OBVIOUS
    <3>1. CASE j = k
      BY <3>1, <1>d, <1>m
    <3>2. CASE j # k
      <4>1. dic[j].in /\ dic[j].p <= made /\ dic[j].p \in 1..made
        BY <3>2, <1>d, EntryType DEF TimersIInv, DictInv
      <4> QED BY <3>2, <4>1, <1>d, <1>m, <1>t
    <3> QED BY <3>1, <3>2
  <2> QED BY <2>1, <2>2, <2>3, <1>0, <1>m DEF TimersIInv, DictInv
<1>4. OwnerInv'
  <2> SUFFICES ASSUME NEW q \in 1..made'
               PROVE  \/ freed[q] = 1 /\ \A j \in Keys : dic'[j].p # q
                      \/ freed[q] = 0 /\ \E i \in Keys : \A j \in Keys : dic'[j].p = q <=> j = i
    BY <1>0 DEF OwnerInv
  <2>1. CASE q > made
    <3>1. q = made + 1 /\ o = q /\ q \in Objects
      BY <2>1, <1>m, <1>t DEF Objects
    <3>2. freed[q] = 0
      BY <2>1, <3>1 DEF TimersIInv, FreshInv
    <3>3. \A j \in Keys : dic'[j].p = q <=> j = k
      BY <3>1, <1>d, <1>u, <1>t
    <3> QED BY <3>2, <3>3
  <2>2. CASE ~(q > made)
    <3>1. q \in 1..made /\ q # 0
      BY <2>2, <1>t, <1>m
    <3>2. \A j \in Keys : dic'[j].p = q <=> dic[j].p = q
      <4> SUFFICES dic'[k].p = q <=> dic[k].p = q
        BY <1>d
      <4>1. CASE dic[k].p # 0
        BY <4>1, <1>d, <1>1
      <4>2. CASE dic[k].p = 0
        BY <4>2, <3>1, <1>d, <1>1, <1>t
      <4> QED BY <4>1, <4>2
    <3> QED BY <3>1, <3>2 DEF TimersIInv, OwnerInv
  <2> QED BY <2>1, <2>2
<1>5. FreshInv'
  BY <1>0, <1>m, <1>t DEF TimersIInv, FreshInv, Objects
<1>6. AgeInv'
  <2> SUFFICES ASSUME NEW j \in Keys, dic'[j].p # 0
               PROVE  /\ since'[dic'[j].p] = dic'[j].age
                      /\ treg /\ (tpc2 # "drive" \/ interval > 0) =>
                           dic'[j].age < Ms + (Ms \div 2)
                      /\ treg /\ interval > 0 /\ ~expired =>
                           dic'[j].age + left < Ms + (Ms \div 2)
    BY <1>0 DEF AgeInv
  <2>1. CASE j = k
    <3>1. dic'[j].p = o /\ dic'[j].age = 0 /\ o \in Objects
      BY <2>1, <1>d, <1>1
    <3>2. since'[o] = 0
      BY <3>1, <1>1
    <3>3. left \in 0..interval /\ interval \in {0, Ms \div 2}
      BY DEF TimersIInv, TimerInv
    <3> QED BY <3>1, <3>2, <3>3, Half
  <2>2. CASE j # k
    <3>1. dic'[j] = dic[j] /\ dic[j].p # o /\ dic[j].p \in Objects
      BY <2>2, <1>d, <1>u, EntryType
    <3>2. since'[dic[j].p] = since[dic[j].p]
      BY <3>1, <1>1
    <3> QED BY <3>1, <3>2 DEF TimersIInv, AgeInv
  <2> QED BY <2>1, <2>2
<1> QED BY <1>2, <1>3, <1>4, <1>5, <1>6 DEF TimersIInv

\* A unit of time: every entry and every object get older together, and the
\* timer gets nearer to its expiration.
LEMMA TimeKeeps ==
  ASSUME TimersIInv, TimePasses
  PROVE  TimersIInv'
<1>0. /\ Waiting /\ expired = FALSE
      /\ left' = IF left = 1 THEN interval ELSE IF left > 0 THEN left - 1 ELSE 0
      /\ expired' = (left = 1)
      /\ dic' = [k \in Keys |-> [dic[k] EXCEPT !.age = Older(dic[k].age)]]
      /\ since' = [o \in Objects |-> IF o <= made THEN Older(since[o]) ELSE 0]
      /\ UNCHANGED <<interval, treg, owner, tpc2, made, freed, early>>
  BY DEF TimePasses, TimersIInv, TimerInv
<1>t. /\ interval \in {0, Ms \div 2} /\ interval \in Nat /\ left \in Nat
      /\ left <= interval /\ (interval > 0 => left > 0)
  BY Half DEF TimersIInv, TimerInv
<1>1. \A a \in Nat : Older(a) \in Nat /\ Older(a) <= a + 1
  BY Half DEF Older, MaxAge
<1>2. ASSUME NEW k \in Keys
      PROVE  /\ dic'[k] \in [in : BOOLEAN, p : Objects \cup {0}, age : Nat]
             /\ dic'[k].p = dic[k].p /\ dic'[k].in = dic[k].in
             /\ dic'[k].age = Older(dic[k].age)
  BY <1>0, <1>1, EntryType
<1>3. TimerInv'
  <2>1. CASE left = 1
    <3>1. expired' = TRUE /\ left' = interval
      BY <2>1, <1>0
    <3> QED BY <3>1, <2>1, <1>0, <1>t DEF TimersIInv, TimerInv
  <2>2. CASE left # 1
    <3>1. expired' = FALSE
      BY <2>2, <1>0
    <3>2. left' \in 0..interval /\ (interval > 0 => left' > 0)
      BY <2>2, <1>0, <1>t
    <3> QED BY <3>1, <3>2, <1>0 DEF TimersIInv, TimerInv
  <2> QED BY <2>1, <2>2
<1>4. DictInv'
  <2>1. dic' \in [Keys -> [in : BOOLEAN, p : Objects \cup {0}, age : Nat]]
    <3>1. dic' = [k \in Keys |-> dic'[k]]
      BY <1>0
    <3> QED BY <3>1, <1>2
  <2>2. since' \in [Objects -> Nat]
    BY <1>0, <1>1 DEF TimersIInv, DictInv
  <2> QED BY <2>1, <2>2, <1>0, <1>2, SMTT(20) DEF TimersIInv, DictInv
<1>5. OwnerInv' /\ FreshInv'
  <2>1. \A k \in Keys : dic'[k].p = dic[k].p
    BY <1>2
  <2>2. made' = made /\ freed' = freed
    BY <1>0
  <2> QED BY ONLY <2>1, <2>2, TimersIInv DEF TimersIInv, OwnerInv, FreshInv
<1>6. AgeInv'
  <2> SUFFICES ASSUME NEW k \in Keys, dic'[k].p # 0
               PROVE  /\ since'[dic'[k].p] = dic'[k].age
                      /\ treg /\ (tpc2 # "drive" \/ interval > 0) =>
                           dic'[k].age < Ms + (Ms \div 2)
                      /\ treg /\ interval > 0 /\ expired' = FALSE =>
                           dic'[k].age + left' < Ms + (Ms \div 2)
    BY <1>0 DEF AgeInv
  <2>1. /\ dic[k].p # 0 /\ dic[k].p \in Objects /\ dic[k].p <= made
        /\ dic[k].age \in Nat
    BY <1>2, EntryType
  <2>2. since'[dic'[k].p] = dic'[k].age
    BY <2>1, <1>0, <1>2 DEF TimersIInv, AgeInv
  <2> DEFINE a == dic[k].age  b == dic'[k].age
  <2>3. a \in Nat /\ b \in Nat /\ b <= a + 1
    BY <2>1, <1>1, <1>2
  <2>4. treg /\ interval > 0 => a + left < Ms + (Ms \div 2)
    BY <2>1, <1>0 DEF TimersIInv, AgeInv
  <2>5. treg /\ tpc2 # "drive" => interval > 0
    BY <1>0 DEF Waiting, TimersIInv, TimerInv
  <2> HIDE DEF a, b
  <2>6. ASSUME treg, interval > 0 PROVE b < Ms + (Ms \div 2)
    BY <2>3, <2>4, <2>6, <1>t, Half
  <2>7. ASSUME treg, interval > 0, expired' = FALSE PROVE b + left' < Ms + (Ms \div 2)
    <3>1. left # 1
      BY <2>7, <1>0
    <3>2. left' = left - 1 /\ left > 0
      BY <2>7, <3>1, <1>0, <1>t
    <3> QED BY <3>2, <2>3, <2>4, <2>7, <1>t, Half
  <2> QED BY <2>2, <2>5, <2>6, <2>7 DEF b
<1> QED BY <1>3, <1>4, <1>5, <1>6 DEF TimersIInv

\* The dictionary frees every entry's object.
LEMMA UninitKeeps ==
  ASSUME TimersIInv, hp_expire_uninit
  PROVE  TimersIInv'
<1>0. /\ Free(Keys) /\ dic' = [k \in Keys |-> NoEntry]
      /\ treg' = (treg /\ owner = "init2")
      /\ interval' = 0 /\ left' = 0 /\ expired' = FALSE /\ owner' = "gone"
      /\ tpc2' = "end" /\ UNCHANGED <<made, since, early>>
  BY DEF hp_expire_uninit
<1>1. /\ freed' \in [Objects -> Nat]
      /\ \A o \in Objects : (\A k \in Keys : dic[k].p # o) => freed'[o] = freed[o]
      /\ \A o \in Objects : (\E k \in Keys : dic[k].p = o) => freed'[o] = 1
  BY <1>0, FreeEffect
<1>2. \A k \in Keys : dic'[k] = NoEntry /\ dic'[k].p = 0
  BY <1>0 DEF NoEntry
<1>t. made \in 0..MaxMade /\ MaxMade \in Nat
  BY Half DEF TimersIInv, DictInv
<1>3. TimerInv'
  <2>1. treg' \in BOOLEAN
    BY <1>0 DEF TimersIInv, TimerInv
  <2>2. early' = FALSE
    BY <1>0 DEF TimersIInv, TimerInv
  <2>3. interval' \in {0, Ms \div 2} /\ left' \in 0..interval' /\ ~(interval' > 0)
    BY <1>0
  <2> QED BY <2>1, <2>2, <2>3, <1>0 DEF TimerInv
<1>4. DictInv'
  BY <1>0, <1>1, <1>2 DEF TimersIInv, DictInv, NoEntry, Objects
<1>5. OwnerInv'
  <2> SUFFICES ASSUME NEW o \in 1..made PROVE freed'[o] = 1
    BY <1>0, <1>2 DEF OwnerInv
  <2>1. o \in Objects
    BY <1>t DEF Objects
  <2> QED BY <2>1, <1>1 DEF TimersIInv, OwnerInv
<1>6. FreshInv'
  <2> SUFFICES ASSUME NEW o \in Objects, o > made PROVE freed'[o] = 0
    BY <1>0 DEF FreshInv
  <2>1. \A k \in Keys : dic[k].p # o
    BY <1>t, EntryType DEF Objects
  <2> QED BY <2>1, <1>1 DEF TimersIInv, FreshInv
<1>7. AgeInv'
  BY <1>2 DEF AgeInv
<1> QED BY <1>3, <1>4, <1>5, <1>6, <1>7 DEF TimersIInv

\* Every step of the timer, the loop and the cache keeps the invariant.
LEMMA TimersStepKeeps ==
  ASSUME TimersIInv, [TimersNext]_timersVars
  PROVE  TimersIInv'
<1>1. ASSUME NEW how \in {"init", "init2"}, hp_expire_init(how) PROVE TimersIInv'
  <2>0. /\ tpc2 = "user" /\ owner = "none" /\ owner' = how /\ tpc2' = "user"
        /\ UNCHANGED cache /\ owner' # "none"
    BY <1>1 DEF hp_expire_init
  <2>1. \A k \in Keys : dic[k].p = 0
    BY <2>0 DEF TimersIInv, DictInv
  <2>2. CASE treg' = TRUE /\ hp_timerfd_reset(Ms \div 2)
    <3>1. TimerInv' /\ AgeInv'
      BY <2>0, <2>1, <2>2, ResetKeeps
    <3> QED BY <3>1, <2>0, CacheKept DEF TimersIInv
  <2>3. CASE treg' = FALSE /\ UNCHANGED <<interval, left, expired>>
    <3>1. TimerInv'
      BY <2>0, <2>3 DEF TimersIInv, TimerInv, cache
    <3>2. AgeInv'
      BY <2>0, <2>1 DEF AgeInv, cache
    <3> QED BY <3>1, <3>2, <2>0, CacheKept DEF TimersIInv
  <2> QED BY <1>1, <2>2, <2>3 DEF hp_expire_init
<1>2. ASSUME NEW n \in {0, Ms \div 2}, UserResets(n) PROVE TimersIInv'
  <2>0. /\ tpc2 = "user" /\ tpc2' = "user" /\ owner # "none" /\ owner' = owner
        /\ hp_timerfd_reset(n) /\ UNCHANGED cache /\ treg' = treg
    BY <1>2 DEF UserResets
  <2>1. treg' \in BOOLEAN
    BY <2>0 DEF TimersIInv, TimerInv
  <2>2. TimerInv' /\ AgeInv'
    BY <2>0, <2>1, ResetKeeps
  <2> QED BY <2>0, <2>2, CacheKept DEF TimersIInv
<1>3. ASSUME NEW k \in Keys, hp_expire_get(k) PROVE TimersIInv'
  BY <1>3, GetKeeps
<1>4. CASE DriveTimer
  <2>1. CASE treg
    BY <1>4, <2>1, ReadKeeps DEF DriveTimer
  <2>2. CASE ~treg
    <3>1. /\ UNCHANGED <<interval, left, expired, treg, owner>> /\ UNCHANGED cache
          /\ treg' = FALSE
      BY <1>4, <2>2 DEF DriveTimer, timer, TimersIInv, TimerInv
    <3>2. TimerInv'
      BY <3>1 DEF TimersIInv, TimerInv, cache
    <3>3. AgeInv'
      BY <3>1 DEF TimersIInv, AgeInv, cache
    <3> QED BY <3>1, <3>2, <3>3, CacheKept DEF TimersIInv
  <2> QED BY <2>1, <2>2
<1>5. CASE TimerEvent
  BY <1>5, ReadKeeps DEF TimerEvent
<1>6. CASE NoTimerEvent \/ NextPassStarts
  <2>1. /\ UNCHANGED <<interval, left, expired, treg, owner>> /\ UNCHANGED cache
        /\ tpc2 # "drive" /\ tpc2' # "wait"
    BY <1>6 DEF NoTimerEvent, NextPassStarts, timer
  <2>2. TimerInv'
    BY <2>1 DEF TimersIInv, TimerInv, cache
  <2>3. AgeInv'
    BY <2>1 DEF TimersIInv, AgeInv, cache
  <2> QED BY <2>1, <2>2, <2>3, CacheKept DEF TimersIInv
<1>7. CASE TimePasses
  BY <1>7, TimeKeeps
<1>8. CASE hp_expire_uninit
  BY <1>8, UninitKeeps
<1>9. CASE UNCHANGED timersVars
  BY <1>9 DEF timersVars, TimersIInv, TimerInv, DictInv, OwnerInv, FreshInv, AgeInv
<1> QED BY <1>1, <1>2, <1>3, <1>4, <1>5, <1>6, <1>7, <1>8, <1>9 DEF TimersNext, LoopPass

\* Every object fn made is freed once, by the timer or with the dictionary, not
\* while somebody asked for it during e->ms, and in a started timer within half as
\* long again.
THEOREM ObjectsAreSound == TimersSpec => []ObjectsSound
<1>1. TimersInit => TimersIInv
  <2> SUFFICES ASSUME TimersInit PROVE TimersIInv
    OBVIOUS
  <2>1. TimerInv
    <3>1. /\ interval = 0 /\ left = 0 /\ expired = FALSE /\ treg = FALSE
          /\ early = FALSE
      BY DEF TimersInit
    <3>2. interval \in {0, Ms \div 2} /\ left \in 0..interval /\ ~(interval > 0)
      BY <3>1
    <3> QED BY <3>1, <3>2 DEF TimerInv
  <2>2. DictInv
    BY Half DEF TimersInit, DictInv, NoEntry
  <2>3. OwnerInv /\ FreshInv
    BY DEF TimersInit, OwnerInv, FreshInv
  <2>4. AgeInv
    BY DEF TimersInit, AgeInv, NoEntry
  <2> QED BY <2>1, <2>2, <2>3, <2>4 DEF TimersIInv
<1>2. TimersIInv /\ [TimersNext]_timersVars => TimersIInv'
  BY TimersStepKeeps
<1>3. ASSUME TimersIInv PROVE ObjectsSound
  <2>t. made \in 0..MaxMade /\ MaxMade \in Nat
    BY <1>3, Half DEF TimersIInv, DictInv
  <2>1. TimersTypeOK
    <3>1. ASSUME NEW o \in Objects PROVE freed[o] \in 0..1
      <4>1. CASE o > made
        BY <1>3, <4>1 DEF TimersIInv, FreshInv
      <4>2. CASE ~(o > made)
        <5>1. o \in 1..made
          BY <4>2, <2>t DEF Objects
        <5> QED BY <5>1, <1>3 DEF TimersIInv, OwnerInv
      <4> QED BY <4>1, <4>2
    <3> QED BY <3>1, <1>3 DEF TimersTypeOK, TimersIInv, TimerInv, DictInv
  <2>2. FreedOnce
    <3> SUFFICES ASSUME NEW o \in 1..made
                 PROVE  freed[o] + Cardinality({k \in Keys : dic[k].p = o}) = 1
      BY DEF FreedOnce
    <3> DEFINE Of == {k \in Keys : dic[k].p = o}
    <3>1. CASE freed[o] = 1 /\ \A k \in Keys : dic[k].p # o
      <4>1. Of = {}
        BY <3>1
      <4> HIDE DEF Of
      <4>2. Cardinality(Of) = 0
        BY <4>1, FS_EmptySet
      <4> QED BY <4>2, <3>1 DEF Of
    <3>2. ASSUME freed[o] = 0, NEW k \in Keys, \A j \in Keys : dic[j].p = o <=> j = k
          PROVE  freed[o] + Cardinality(Of) = 1
      <4>1. Of = {k}
        BY <3>2
      <4> HIDE DEF Of
      <4>2. Cardinality(Of) = 1
        BY <4>1, FS_Singleton
      <4> QED BY <4>2, <3>2
    <3> QED BY <3>1, <3>2, <1>3 DEF TimersIInv, OwnerInv
  <2>3. NotFreedEarly
    BY <1>3 DEF TimersIInv, TimerInv, NotFreedEarly
  <2>4. GoneInTime
    <3> SUFFICES ASSUME treg, interval > 0, NEW k \in Keys, dic[k].p # 0
                 PROVE  dic[k].age <= Ms + interval
      BY DEF GoneInTime
    <3>1. dic[k].age < Ms + (Ms \div 2) /\ interval \in {0, Ms \div 2}
      BY <1>3 DEF TimersIInv, AgeInv, TimerInv
    <3>2. dic[k].age \in Nat
      BY <1>3, EntryType
    <3> QED BY <3>1, <3>2, Half
  <2> QED BY <2>1, <2>2, <2>3, <2>4 DEF ObjectsSound
<1>4. TimersIInv => ObjectsSound
  BY <1>3
<1> QED BY <1>1, <1>2, <1>4, PTL DEF TimersSpec

-----------------------------------------------------------------------------
(* hp_sig: handlers that interrupt each other *)

\* The signals that have a handler.
Handled == Signals \cup {"CHLD"}

\* The pieces 1..at of sig are the latest of sig in log.
Wrote(log, sig, at) ==
  \A p \in 1..at :
    \E j \in DOMAIN log :
      /\ log[j] = [sig |-> sig, piece |-> p]
      /\ \A i \in j + 1..Len(log) : log[i].sig = sig => log[i].piece \in p + 1..at

\* The inductive invariant: what was written of a running handler is complete, a signal
\* has one handler at most, and the children that ended are waited for by it.
SigInv ==
  /\ handlers \in Seq([sig : Handled, at : Nat])
  /\ logged \in Seq([sig : Handled, piece : Nat])
  /\ zombies \in Nat /\ setup.init \in BOOLEAN
  /\ \A j, k \in DOMAIN handlers : handlers[j].sig = handlers[k].sig => j = k
  /\ \A k \in DOMAIN handlers : Wrote(logged, handlers[k].sig, handlers[k].at)
  /\ EndsOnRequest
  /\ NoneForgotten

\* Pieces with their signals and numbers, the log so far.
Log(log) == log \in Seq([sig : Handled, piece : Nat])

\* The next piece of the handler that writes.
LEMMA WroteNext ==
  ASSUME NEW log, Log(log), NEW sig, NEW at \in Nat, Wrote(log, sig, at)
  PROVE  Wrote(Append(log, [sig |-> sig, piece |-> at + 1]), sig, at + 1)
<1> DEFINE e == [sig |-> sig, piece |-> at + 1]
           new == Append(log, e)
<1>1. /\ Len(log) \in Nat /\ DOMAIN log = 1..Len(log)
      /\ Len(new) = Len(log) + 1 /\ DOMAIN new = 1..Len(log) + 1
      /\ \A i \in 1..Len(log) : new[i] = log[i]
      /\ new[Len(log) + 1] = e
  BY AppendProperties, LenProperties DEF Log
<1>2. e.sig = sig /\ e.piece = at + 1
  OBVIOUS
<1> HIDE DEF new
<1> SUFFICES ASSUME NEW p \in 1..at + 1
             PROVE  \E j \in DOMAIN new :
                      /\ new[j] = [sig |-> sig, piece |-> p]
                      /\ \A i \in j + 1..Len(new) :
                           new[i].sig = sig => new[i].piece \in p + 1..at + 1
  BY DEF Wrote, new
<1>3. CASE p = at + 1
  <2>1. Len(log) + 1 \in DOMAIN new /\ (Len(log) + 1) + 1..Len(new) = {}
    BY <1>1
  <2>2. new[Len(log) + 1] = [sig |-> sig, piece |-> p]
    BY <1>1, <1>3
  <2> QED
    BY <2>1, <2>2, Zenon
<1>4. CASE p # at + 1
  <2>1. p \in 1..at
    BY <1>4
  <2>2. PICK j \in DOMAIN log :
          /\ log[j] = [sig |-> sig, piece |-> p]
          /\ \A i \in j + 1..Len(log) : log[i].sig = sig => log[i].piece \in p + 1..at
    BY <2>1, Zenon DEF Wrote
  <2>3. j \in 1..Len(log) /\ j \in DOMAIN new
    BY <1>1
  <2>4. new[j] = [sig |-> sig, piece |-> p]
    BY <1>1, <2>2, <2>3
  <2>5. ASSUME NEW i \in j + 1..Len(new), new[i].sig = sig PROVE new[i].piece \in p + 1..at + 1
    <3>1. CASE i = Len(log) + 1
      <4>1. new[i].piece = at + 1
        BY <1>1, <1>2, <3>1
      <4> QED
        BY <2>1, <4>1
    <3>2. CASE i # Len(log) + 1
      <4>1. i \in j + 1..Len(log) /\ i \in 1..Len(log)
        BY <1>1, <2>3, <3>2
      <4>2. log[i].piece \in p + 1..at
        BY <1>1, <2>2, <2>5, <4>1
      <4>3. new[i].piece = log[i].piece
        BY <1>1, <4>1
      <4> QED
        BY <2>1, <4>2, <4>3
    <3> QED
      BY <3>1, <3>2
  <2> QED
    BY <2>3, <2>4, <2>5, Zenon
<1> QED
  BY <1>3, <1>4

\* A piece of another handler in between.
LEMMA WroteKept ==
  ASSUME NEW log, Log(log), NEW sig, NEW at \in Nat, Wrote(log, sig, at),
         NEW e, e.sig # sig
  PROVE  Wrote(Append(log, e), sig, at)
<1> DEFINE new == Append(log, e)
<1>1. /\ Len(log) \in Nat /\ DOMAIN log = 1..Len(log)
      /\ Len(new) = Len(log) + 1 /\ DOMAIN new = 1..Len(log) + 1
      /\ \A i \in 1..Len(log) : new[i] = log[i]
      /\ new[Len(log) + 1] = e
  <2>1. log \in Seq([sig : Handled, piece : Nat])
    BY DEF Log
  <2> DEFINE S == [sig : Handled, piece : Nat] \cup {e}
  <2>2. log \in Seq(S) /\ e \in S
    <3>1. Len(log) \in Nat /\ log \in [1..Len(log) -> [sig : Handled, piece : Nat]]
      BY <2>1, LenProperties
    <3>2. log \in [1..Len(log) -> S]
      BY <3>1
    <3> HIDE DEF S
    <3>3. log \in Seq(S)
      BY <3>1, <3>2, IsASeq
    <3> QED
      BY <3>3 DEF S
  <2> HIDE DEF S
  <2> QED
    BY <2>2, AppendProperties, LenProperties
<1> HIDE DEF new
<1> SUFFICES ASSUME NEW p \in 1..at
             PROVE  \E j \in DOMAIN new :
                      /\ new[j] = [sig |-> sig, piece |-> p]
                      /\ \A i \in j + 1..Len(new) :
                           new[i].sig = sig => new[i].piece \in p + 1..at
  BY DEF Wrote, new
<1>2. PICK j \in DOMAIN log :
        /\ log[j] = [sig |-> sig, piece |-> p]
        /\ \A i \in j + 1..Len(log) : log[i].sig = sig => log[i].piece \in p + 1..at
  BY Zenon DEF Wrote
<1>3. j \in 1..Len(log) /\ j \in DOMAIN new
  BY <1>1
<1>4. new[j] = [sig |-> sig, piece |-> p]
  BY <1>1, <1>2, <1>3
<1>5. ASSUME NEW i \in j + 1..Len(new), new[i].sig = sig PROVE new[i].piece \in p + 1..at
  <2>1. i # Len(log) + 1
    BY <1>1, <1>5
  <2>2. i \in j + 1..Len(log) /\ i \in 1..Len(log)
    BY <1>1, <1>3, <2>1
  <2>3. new[i] = log[i]
    BY <1>1, <2>2
  <2> QED
    BY <1>2, <1>5, <2>2, <2>3
<1> QED
  BY <1>3, <1>4, <1>5, Zenon

\* How many they are.
LEMMA FrontLength ==
  ASSUME NEW l \in Nat, l # 0, NEW m, m = IF 1 <= l - 1 THEN l - 1 - 1 + 1 ELSE 0
  PROVE  m = l - 1 /\ l - 1 - 1 + 1 = l - 1
OBVIOUS

\* The handlers but the innermost.
LEMMA OuterHandlers ==
  ASSUME NEW S, NEW s \in Seq(S), s # <<>>
  PROVE  /\ SubSeq(s, 1, Len(s) - 1) \in Seq(S)
         /\ DOMAIN SubSeq(s, 1, Len(s) - 1) = 1..Len(s) - 1
         /\ \A i \in 1..Len(s) - 1 : SubSeq(s, 1, Len(s) - 1)[i] = s[i]
<1> DEFINE t == SubSeq(s, 1, Len(s) - 1)
<1>1. Len(s) \in Nat /\ Len(s) # 0 /\ DOMAIN s = 1..Len(s)
  BY EmptySeq, LenProperties
<1>2. \A i \in 1..Len(s) - 1 : s[i] \in S
  BY <1>1, ElementOfSeq
<1>3. /\ t \in Seq(S)
      /\ Len(t) = IF 1 <= Len(s) - 1 THEN Len(s) - 1 - 1 + 1 ELSE 0
      /\ \A i \in 1..Len(s) - 1 - 1 + 1 : t[i] = s[1 + i - 1]
  BY <1>1, <1>2, SubSeqProperties
<1>4. DOMAIN t = 1..Len(t)
  BY <1>3, LenProperties
<1> HIDE DEF t
<1>5. Len(t) = Len(s) - 1 /\ Len(s) - 1 - 1 + 1 = Len(s) - 1
  BY <1>1, <1>3, FrontLength, Zenon
<1>6. \A i \in 1..Len(s) - 1 : t[i] = s[i]
  <2>1. \A i \in 1..Len(s) - 1 : 1 + i - 1 = i
    OBVIOUS
  <2> QED
    BY <1>3, <1>5, <2>1
<1> QED
  BY <1>3, <1>4, <1>5, <1>6 DEF t

\* The parts of the invariant.
LEMMA SigParts ==
  ASSUME SigInv
  PROVE  /\ handlers \in Seq([sig : Handled, at : Nat]) /\ Log(logged)
         /\ zombies \in Nat
         /\ Len(handlers) \in Nat /\ DOMAIN handlers = 1..Len(handlers)
         /\ \A k \in 1..Len(handlers) :
              /\ handlers[k].at \in Nat /\ handlers[k].sig \in Handled
              /\ Wrote(logged, handlers[k].sig, handlers[k].at)
         /\ \A j, k \in 1..Len(handlers) : handlers[j].sig = handlers[k].sig => j = k
<1>1. handlers \in Seq([sig : Handled, at : Nat]) /\ Log(logged) /\ zombies \in Nat
  BY DEF SigInv, Log
<1>2. Len(handlers) \in Nat /\ DOMAIN handlers = 1..Len(handlers)
  BY <1>1, LenProperties
<1>3. \A k \in 1..Len(handlers) : handlers[k] \in [sig : Handled, at : Nat]
  BY <1>1, ElementOfSeq
<1>4. \A k \in 1..Len(handlers) : handlers[k].at \in Nat /\ handlers[k].sig \in Handled
  BY <1>3
<1> QED
  BY <1>1, <1>2, <1>4, Zenon DEF SigInv

\* What the other steps leave alone.
LEMMA HandlersAlone ==
  ASSUME SigInv, handlers' = handlers, logged' = logged, zombies' \in Nat,
         setup'.init \in BOOLEAN, EndsOnRequest', NoneForgotten'
  PROVE  SigInv'
BY DEF SigInv, Wrote

\* hp_sig_init, signals of others, children that end.
LEMMA OutsideKeeps ==
  ASSUME SigInv,
         hp_sig_init \/ (\E sig \in Signals : SendSignal(sig)) \/ ChildEnds
  PROVE  SigInv'
<1>0. zombies \in Nat /\ setup.init \in BOOLEAN /\ EndsOnRequest /\ NoneForgotten
  BY DEF SigInv
<1>1. CASE hp_sig_init
  <2>1. /\ handlers' = handlers /\ logged' = logged /\ zombies' = zombies
        /\ ~ended /\ ended' = ended /\ pending' = pending
        /\ setup' = [setup EXCEPT !.init = TRUE]
    BY <1>1 DEF hp_sig_init
  <2>2. EndsOnRequest'
    BY <2>1 DEF EndsOnRequest
  <2>3. NoneForgotten'
    BY <1>0, <2>1 DEF NoneForgotten, Masked
  <2>4. setup'.init \in BOOLEAN
    <3>1. setup'.init = setup.init \/ setup'.init = TRUE
      BY <2>1
    <3> QED
      BY <1>0, <3>1
  <2> QED
    BY <1>0, <2>1, <2>2, <2>3, <2>4, HandlersAlone
<1>2. ASSUME NEW sig \in Signals, SendSignal(sig) PROVE SigInv'
  <2>1. /\ handlers' = handlers /\ logged' = logged /\ zombies' = zombies
        /\ setup' = setup /\ ~ended /\ called' = called
        /\ IF setup.init THEN pending' = pending \cup {sig} /\ ended' = ended
           ELSE ended' = TRUE /\ pending' = pending
    BY <1>2 DEF SendSignal
  <2>2. EndsOnRequest'
    BY <2>1 DEF EndsOnRequest
  <2>3. NoneForgotten'
    BY <1>0, <2>1 DEF NoneForgotten, Masked
  <2> QED
    BY <1>0, <2>1, <2>2, <2>3, HandlersAlone
<1>3. CASE ChildEnds
  <2>1. /\ handlers' = handlers /\ logged' = logged
        /\ setup' = setup /\ ~ended /\ ended' = ended
        /\ \/ pending' = pending \cup {"CHLD"} /\ zombies' = zombies + 1
           \/ pending' = pending /\ zombies' = zombies
    BY <1>3 DEF ChildEnds
  <2>2. EndsOnRequest'
    BY <2>1 DEF EndsOnRequest
  <2>3. NoneForgotten'
    BY <1>0, <2>1 DEF NoneForgotten, Masked
  <2> QED
    BY <1>0, <2>1, <2>2, <2>3, HandlersAlone
<1> QED
  BY <1>1, <1>2, <1>3

\* A signal enters its handler, which has written nothing yet.
LEMMA DeliverKeeps ==
  ASSUME SigInv, NEW sig \in Signals \cup {"CHLD"}, Deliver(sig)
  PROVE  SigInv'
<1> DEFINE e == [sig |-> sig, at |-> 0]
           n == Len(handlers)
<1>1. /\ pending' = pending \ {sig} /\ handlers' = Append(handlers, e)
      /\ logged' = logged /\ zombies' = zombies /\ setup' = setup
      /\ ~ended /\ ended' = ended /\ ~Masked(sig)
  BY DEF Deliver
<1>2. /\ handlers \in Seq([sig : Handled, at : Nat]) /\ zombies \in Nat
      /\ n \in Nat /\ DOMAIN handlers = 1..n
      /\ \A k \in 1..n : Wrote(logged, handlers[k].sig, handlers[k].at)
      /\ \A j, k \in 1..n : handlers[j].sig = handlers[k].sig => j = k
  BY SigParts
<1>3. e \in [sig : Handled, at : Nat] /\ e.sig = sig /\ e.at = 0
  <2>2. sig \in Handled
    BY Zenon DEF Handled
  <2> QED
    BY <2>2
<1>4. \A k \in 1..n : handlers[k].sig # sig
  BY <1>1, <1>2 DEF Masked
<1> HIDE DEF e, n
<1>5. /\ handlers' \in Seq([sig : Handled, at : Nat]) /\ DOMAIN handlers' = 1..n + 1
      /\ \A k \in 1..n : handlers'[k] = handlers[k]
      /\ handlers'[n + 1] = e
  BY <1>1, <1>2, <1>3, AppendProperties, LenProperties DEF n
<1>6. ASSUME NEW j \in DOMAIN handlers', NEW k \in DOMAIN handlers',
             handlers'[j].sig = handlers'[k].sig
      PROVE  j = k
  <2>1. (j \in 1..n \/ j = n + 1) /\ (k \in 1..n \/ k = n + 1)
    BY <1>2, <1>5
  <2> QED
    BY <1>2, <1>3, <1>4, <1>5, <1>6, <2>1, Zenon
<1>7. ASSUME NEW k \in DOMAIN handlers'
      PROVE  Wrote(logged', handlers'[k].sig, handlers'[k].at)
  <2>1. CASE k = n + 1
    <3>1. handlers'[k].at = 0
      BY <1>3, <1>5, <2>1
    <3> QED
      BY <3>1 DEF Wrote
  <2>2. CASE k # n + 1
    <3>1. k \in 1..n
      BY <1>2, <1>5, <2>2
    <3> QED
      BY <1>1, <1>2, <1>5, <3>1
  <2> QED
    BY <2>1, <2>2
<1>8. EndsOnRequest'
  BY <1>1 DEF EndsOnRequest
<1>9. NoneForgotten'
  <2> SUFFICES ASSUME zombies > 0 PROVE "CHLD" \in pending' \/ Masked("CHLD")'
    BY <1>1 DEF NoneForgotten
  <2>1. "CHLD" \in pending \/ \E k \in 1..n : handlers[k].sig = "CHLD"
    BY <1>1, <1>2 DEF SigInv, NoneForgotten, Masked
  <2>2. CASE sig = "CHLD"
    <3>1. n + 1 \in DOMAIN handlers'
      BY <1>2, <1>5
    <3>2. handlers'[n + 1].sig = "CHLD"
      BY <1>3, <1>5, <2>2
    <3> QED
      BY <3>1, <3>2, Zenon DEF Masked
  <2>3. CASE sig # "CHLD" /\ "CHLD" \in pending
    BY <1>1, <2>3
  <2>4. CASE \E k \in 1..n : handlers[k].sig = "CHLD"
    <3>1. PICK k \in 1..n : handlers[k].sig = "CHLD"
      BY <2>4
    <3>2. k \in DOMAIN handlers' /\ handlers'[k].sig = "CHLD"
      BY <1>2, <1>5, <3>1
    <3> QED
      BY <3>2, Zenon DEF Masked
  <2> QED
    BY <2>1, <2>2, <2>3, <2>4
<1>10. /\ zombies' \in Nat /\ setup'.init \in BOOLEAN
       /\ logged' \in Seq([sig : Handled, piece : Nat])
  BY <1>1 DEF SigInv
<1> QED
  BY <1>5, <1>6, <1>7, <1>8, <1>9, <1>10, Zenon DEF SigInv

\* The innermost handler writes a piece: its own pieces are one more, those of the
\* handlers it interrupted stay their latest.
LEMMA LogKeeps ==
  ASSUME SigInv, serverLogFromHandler
  PROVE  SigInv'
<1> DEFINE n == Len(handlers)
           sig == handlers[n].sig
           at == handlers[n].at
           e == [sig |-> sig, piece |-> at + 1]
<1>1. /\ handlers # <<>> /\ ~ended
      /\ logged' = Append(logged, e)
      /\ handlers' = [handlers EXCEPT ![n].at = @ + 1]
      /\ setup' = setup /\ pending' = pending /\ zombies' = zombies /\ ended' = ended
  BY DEF serverLogFromHandler, Running
<1>2. /\ handlers \in Seq([sig : Handled, at : Nat]) /\ Log(logged)
      /\ n \in Nat /\ DOMAIN handlers = 1..n
      /\ \A k \in 1..n :
           /\ handlers[k].at \in Nat /\ handlers[k].sig \in Handled
           /\ Wrote(logged, handlers[k].sig, handlers[k].at)
      /\ \A j, k \in 1..n : handlers[j].sig = handlers[k].sig => j = k
  BY SigParts
<1>3. n \in 1..n
  <2>1. n # 0
    BY <1>1, <1>2, EmptySeq
  <2> QED
    BY <1>2, <2>1
<1>4. sig \in Handled /\ at \in Nat
  BY <1>2, <1>3
<1>5. e \in [sig : Handled, piece : Nat] /\ e.sig = sig
  BY <1>4
<1>6. \A k \in 1..n : handlers[k] \in [sig : Handled, at : Nat]
  BY <1>2, ElementOfSeq
<1>7. /\ DOMAIN handlers' = 1..n
      /\ \A k \in 1..n : k # n => handlers'[k] = handlers[k]
      /\ handlers'[n] = [handlers[n] EXCEPT !.at = at + 1]
  BY <1>1, <1>2, <1>3
<1>8. /\ handlers'[n].sig = sig /\ handlers'[n].at = at + 1
      /\ handlers'[n] \in [sig : Handled, at : Nat]
  BY <1>3, <1>4, <1>6, <1>7
<1>9. \A k \in 1..n : handlers'[k].sig = handlers[k].sig
  BY <1>7, <1>8
<1>10. handlers' \in Seq([sig : Handled, at : Nat])
  <2>1. \A k \in 1..n : handlers'[k] \in [sig : Handled, at : Nat]
    BY <1>6, <1>7, <1>8
  <2>2. handlers' = [k \in 1..n |-> handlers'[k]]
    <3>1. handlers' = [k \in DOMAIN handlers |->
                         IF k = n THEN [handlers[n] EXCEPT !.at = at + 1] ELSE handlers[k]]
      BY <1>1
    <3> QED
      BY <1>2, <3>1
  <2>3. handlers' \in [1..n -> [sig : Handled, at : Nat]]
    BY <2>1, <2>2
  <2> QED
    BY <1>2, <2>3, IsASeq
<1>11. logged' \in Seq([sig : Handled, piece : Nat])
  BY <1>1, <1>2, <1>5, AppendProperties DEF Log
<1> HIDE DEF n, sig, at, e
<1>12. ASSUME NEW k \in DOMAIN handlers'
       PROVE  Wrote(logged', handlers'[k].sig, handlers'[k].at)
  <2>1. CASE k = n
    <3>1. Wrote(logged, sig, at)
      BY <1>2, <1>3 DEF sig, at
    <3>2. Wrote(Append(logged, [sig |-> sig, piece |-> at + 1]), sig, at + 1)
      BY <1>2, <1>4, <3>1, WroteNext
    <3> QED
      BY <1>1, <1>8, <2>1, <3>2 DEF e
  <2>2. CASE k # n
    <3>1. k \in 1..n /\ handlers'[k] = handlers[k]
      BY <1>7, <2>2
    <3>2. handlers[k].sig # sig
      BY <1>2, <1>3, <2>2, <3>1, Zenon DEF sig
    <3>3. Wrote(logged, handlers[k].sig, handlers[k].at) /\ handlers[k].at \in Nat
      BY <1>2, <3>1
    <3>4. Wrote(Append(logged, e), handlers[k].sig, handlers[k].at)
      BY <1>2, <1>5, <3>2, <3>3, WroteKept, Zenon
    <3> QED
      BY <1>1, <3>1, <3>4, Zenon
  <2> QED
    BY <2>1, <2>2
<1>13. ASSUME NEW j \in DOMAIN handlers', NEW k \in DOMAIN handlers',
              handlers'[j].sig = handlers'[k].sig
       PROVE  j = k
  BY <1>2, <1>7, <1>9, <1>13, Zenon
<1>14. EndsOnRequest'
  BY <1>1 DEF EndsOnRequest
<1>15. NoneForgotten'
  <2> SUFFICES ASSUME zombies > 0 PROVE "CHLD" \in pending' \/ Masked("CHLD")'
    BY <1>1 DEF NoneForgotten
  <2>1. "CHLD" \in pending \/ \E k \in 1..n : handlers[k].sig = "CHLD"
    BY <1>1, <1>2 DEF SigInv, NoneForgotten, Masked
  <2> QED
    BY <1>1, <1>7, <1>9, <2>1, Zenon DEF Masked
<1>16. zombies' \in Nat /\ setup'.init \in BOOLEAN
  BY <1>1 DEF SigInv
<1> QED
  BY <1>10, <1>11, <1>12, <1>13, <1>14, <1>15, <1>16, Zenon DEF SigInv

\* The callback of the innermost handler, and its end.
LEMMA ShutdownKeeps ==
  ASSUME SigInv, sigShutdownHandler
  PROVE  SigInv'
<1> DEFINE n == Len(handlers)
           sig == handlers[n].sig
<1>1. /\ handlers # <<>> /\ ~ended
      /\ called' = called \cup {sig}
      /\ zombies' = IF Waits(sig) THEN 0 ELSE zombies
      /\ ended' = EndsProgram(sig)
      /\ handlers' = SubSeq(handlers, 1, n - 1)
      /\ logged' = IF n = 1 THEN <<>> ELSE logged
      /\ setup' = setup /\ pending' = pending
  BY Zenon DEF sigShutdownHandler, Running
<1>2. /\ handlers \in Seq([sig : Handled, at : Nat]) /\ Log(logged)
      /\ n \in Nat /\ DOMAIN handlers = 1..n /\ zombies \in Nat
      /\ \A k \in 1..n : Wrote(logged, handlers[k].sig, handlers[k].at)
      /\ \A j, k \in 1..n : handlers[j].sig = handlers[k].sig => j = k
  BY SigParts
<1>3. /\ handlers' \in Seq([sig : Handled, at : Nat]) /\ DOMAIN handlers' = 1..n - 1
      /\ \A k \in 1..n - 1 : handlers'[k] = handlers[k]
  BY <1>1, <1>2, OuterHandlers
<1> HIDE DEF n, sig
<1>4. \A k \in 1..n - 1 : k \in 1..n /\ k # n
  <2>1. n \in Nat
    BY <1>2
  <2> QED
    BY <2>1
<1>5. ASSUME NEW j \in DOMAIN handlers', NEW k \in DOMAIN handlers',
             handlers'[j].sig = handlers'[k].sig
      PROVE  j = k
  BY <1>2, <1>3, <1>4, <1>5, Zenon
<1>6. ASSUME NEW k \in DOMAIN handlers'
      PROVE  Wrote(logged', handlers'[k].sig, handlers'[k].at)
  <2>1. k \in 1..n - 1 /\ n # 1
    BY <1>2, <1>3
  <2>2. logged' = logged
    BY <1>1, <2>1
  <2> QED
    BY <1>2, <1>3, <1>4, <2>1, <2>2, Zenon
<1>7. logged' \in Seq([sig : Handled, piece : Nat])
  BY <1>1, <1>2, EmptySeq DEF Log
<1>8. EndsOnRequest'
  <2>1. ended' => sig \in {"TERM", "INT"} /\ sig \in called'
    BY <1>1 DEF EndsProgram
  <2> QED
    BY <2>1 DEF EndsOnRequest
<1>9. NoneForgotten'
  <2> SUFFICES ASSUME zombies' > 0 PROVE "CHLD" \in pending' \/ Masked("CHLD")'
    BY DEF NoneForgotten
  <2>1. sig # "CHLD" /\ zombies > 0
    BY <1>1 DEF Waits
  <2>2. "CHLD" \in pending \/ \E k \in 1..n : handlers[k].sig = "CHLD"
    BY <1>1, <1>2, <2>1 DEF SigInv, NoneForgotten, Masked
  <2>3. CASE \E k \in 1..n : handlers[k].sig = "CHLD"
    <3>1. PICK k \in 1..n : handlers[k].sig = "CHLD"
      BY <2>3
    <3>2. k # n
      BY <2>1, <3>1 DEF sig
    <3>3. k \in 1..n - 1
      BY <1>2, <3>2
    <3> QED
      BY <1>3, <3>1, <3>3, Zenon DEF Masked
  <2> QED
    BY <1>1, <2>2, <2>3
<1>10. zombies' \in Nat /\ setup'.init \in BOOLEAN
  BY <1>1, <1>2 DEF SigInv
<1> QED
  BY <1>3, <1>5, <1>6, <1>7, <1>8, <1>9, <1>10, Zenon DEF SigInv

\* Handlers of any signals nest in any order with their log lines in order, the program
\* ends on request only, and a child that has ended is not forgotten: the handlers of
\* hp_sig.c, whose sa_mask is empty.
THEOREM SignalsAreSound == SigSpec => [](HandlersNest /\ EndsOnRequest /\ NoneForgotten)
<1>1. SigInit => SigInv
  <2> SUFFICES ASSUME SigInit PROVE SigInv
    OBVIOUS
  <2>1. /\ handlers = <<>> /\ logged = <<>> /\ zombies = 0 /\ ended = FALSE
        /\ setup.init = FALSE
    BY DEF SigInit
  <2>2. handlers \in Seq([sig : Handled, at : Nat]) /\ DOMAIN handlers = {}
    BY <2>1
  <2>3. logged \in Seq([sig : Handled, piece : Nat])
    BY <2>1
  <2>4. EndsOnRequest /\ NoneForgotten
    BY <2>1 DEF EndsOnRequest, NoneForgotten
  <2> QED
    BY <2>1, <2>2, <2>3, <2>4 DEF SigInv
<1>2. SigInv /\ UNCHANGED sigVars => SigInv'
  BY DEF sigVars, SigInv, EndsOnRequest, NoneForgotten, Masked, Wrote
<1>3. SigInv /\ [SigNext]_sigVars => SigInv'
  BY <1>2, OutsideKeeps, DeliverKeeps, LogKeeps, ShutdownKeeps DEF SigNext, HandlerStep
<1>4. SigInv => HandlersNest /\ EndsOnRequest /\ NoneForgotten
  BY DEF SigInv, HandlersNest, Wrote
<1> QED
  BY <1>1, <1>3, <1>4, PTL DEF SigSpec

-----------------------------------------------------------------------------
(* The echo tests *)

\* An end: whether it is open, its test, the pieces it has collected.
EndOf(e, st, test, in) == e.st \in st /\ e.test = test /\ e.in = in

\* What is in flight to the server and to the client.
Flight(ts, tc, x, y) == ts = x /\ tc = y

\* "hello" goes to the server, "world" comes back, the client closes: test 1 of io_t
\* and the tests 1 and 2 of iocp.  t is the test.
HelloFirst(t, c, s, ts, tc) ==
  \/ /\ EndOf(c, {"open"}, t, 0) /\ EndOf(s, {"backlog"}, t, 0) /\ Flight(ts, tc, Pieces, 0)
  \/ /\ EndOf(c, {"open"}, t, 0) /\ EndOf(s, {"open"}, t, s.in)
     /\ s.in + ts = Pieces /\ ts > 0 /\ tc = 0
  \/ /\ EndOf(c, {"open"}, t, c.in) /\ EndOf(s, {"open"}, 0, Pieces)
     /\ c.in + tc = Pieces /\ tc > 0 /\ ts = 0
  \/ /\ EndOf(c, {"shut", "gone"}, 0, Pieces) /\ EndOf(s, {"open", "gone"}, 0, Pieces)
     /\ Flight(ts, tc, 0, 0)

\* Nothing is sent, the server closes: test 2 of io_t.
Silent(c, s, ts, tc) ==
  /\ c.test = 2 /\ s.test # 3 /\ Flight(ts, tc, 0, 0)
  /\ \/ c.st = "open"
     \/ c.st = "gone" /\ s.st \in {"shut", "gone"}

\* The server begins and the server closes: test 3 of io_t.
WorldFirst(c, s, ts, tc) ==
  \/ /\ EndOf(c, {"open"}, 3, 0) /\ EndOf(s, {"backlog"}, 3, 0) /\ Flight(ts, tc, 0, 0)
  \/ /\ EndOf(c, {"open"}, 3, c.in) /\ EndOf(s, {"open"}, 3, 0)
     /\ c.in + tc = Pieces /\ tc > 0 /\ ts = 0
  \/ /\ EndOf(c, {"open"}, 0, Pieces) /\ EndOf(s, {"open"}, 3, s.in)
     /\ s.in + ts = Pieces /\ ts > 0 /\ tc = 0
  \/ /\ EndOf(c, {"open", "gone"}, 0, Pieces) /\ EndOf(s, {"shut", "gone"}, 0, Pieces)
     /\ Flight(ts, tc, 0, 0)

\* The poll test: as HelloFirst, but no test is ever over, and a client that got
\* "world" in parts never closes.
PollTest(c, s, ts, tc) ==
  \/ /\ EndOf(c, {"open"}, 1, 0) /\ EndOf(s, {"backlog"}, 1, 0) /\ Flight(ts, tc, Pieces, 0)
  \/ /\ EndOf(c, {"open"}, 1, 0) /\ EndOf(s, {"open"}, 1, s.in)
     /\ s.in + ts = Pieces /\ ts > 0 /\ tc = 0
  \/ /\ EndOf(c, {"open"}, 1, c.in) /\ EndOf(s, {"open"}, 1, Pieces)
     /\ c.in + tc = Pieces /\ ts = 0
  \/ /\ EndOf(c, {"shut", "gone"}, 1, Pieces) /\ EndOf(s, {"open", "gone"}, 1, Pieces)
     /\ Flight(ts, tc, 0, 0)

\* One character at a time in turn: test 3 of iocp.
InTurn(c, s, ts, tc) ==
  \/ /\ EndOf(c, {"open"}, 3, s.in) /\ s.test = 3 /\ s.in < Pieces
     /\ s.st = "open" \/ (s.st = "backlog" /\ s.in = 0)
     /\ s.left = Pieces - s.in /\ c.left = Pieces - 1 - s.in
     /\ Flight(ts, tc, 1, 0)
  \/ /\ EndOf(c, {"open"}, 3, c.in) /\ EndOf(s, {"open"}, s.test, c.in + 1) /\ c.in < Pieces
     /\ s.test = IF s.in = Pieces THEN 0 ELSE 3
     /\ s.left = Pieces - s.in /\ c.left = Pieces - 1 - c.in
     /\ Flight(ts, tc, 0, 1)
  \/ /\ EndOf(c, {"gone"}, 0, Pieces) /\ EndOf(s, {"open", "gone"}, 0, Pieces)
     /\ Flight(ts, tc, 0, 0)

\* The payload goes one way: test 4 of iocp.
OneWay(c, s, ts, tc, tl) ==
  /\ c.test = 4 /\ tc = 0
  /\ c.st = "open" \/ (c.st = "gone" /\ s.st = "gone")
  /\ \/ s.st \in {"backlog", "open"} /\ s.test = 4 /\ s.in + ts = Pieces
     \/ s.st = "gone" /\ tl >= Pieces

\* tlen is shared: one end at most sees the total, and it has read all of it if it
\* is the only one.
TotalShared ==
  /\ \A p, q \in Pairs : srv[p].st = "gone" /\ srv[q].st = "gone" => p = q
  /\ \A p \in Pairs : Pairs = {p} =>
       /\ tlen \in {srv[p].in, srv[p].in + Pieces}
       /\ srv[p].st = "gone" => srv[p].in = Pieces

\* The pair p in test t.
PairInv(t, p) ==
  \/ app = "io_t" /\ t = 1 /\ HelloFirst(1, cli[p], srv[p], toS[p], toC[p])
  \/ app = "io_t" /\ t = 2 /\ Silent(cli[p], srv[p], toS[p], toC[p])
  \/ app = "io_t" /\ t = 3 /\ WorldFirst(cli[p], srv[p], toS[p], toC[p])
  \/ app = "poll" /\ t = 1 /\ PollTest(cli[p], srv[p], toS[p], toC[p])
  \/ app = "iocp" /\ t \in {1, 2} /\ HelloFirst(t, cli[p], srv[p], toS[p], toC[p])
  \/ app = "iocp" /\ t = 3 /\ InTurn(cli[p], srv[p], toS[p], toC[p])
  \/ app = "iocp" /\ t = 4 /\ OneWay(cli[p], srv[p], toS[p], toC[p], tlen)

EndSet == [st : {"backlog", "open", "shut", "gone"}, test : Nat, in : Nat, left : Nat]

EchoTypes ==
  /\ cli \in [Pairs -> EndSet] /\ srv \in [Pairs -> EndSet]
  /\ toS \in [Pairs -> Nat] /\ toC \in [Pairs -> Nat] /\ tlen \in Nat
  /\ over \in BOOLEAN

EchoInv ==
  /\ EchoTypes
  /\ \E t \in Nat : /\ \A p \in Pairs : PairInv(t, p)
                    /\ app = "iocp" /\ t = 4 => TotalShared
  /\ EchoClean

\* An end in another state.
LEMMA SetSt ==
  ASSUME NEW e \in EndSet, NEW x \in {"backlog", "open", "shut", "gone"}
  PROVE  /\ [e EXCEPT !.st = x] \in EndSet /\ [e EXCEPT !.st = x].st = x
         /\ [e EXCEPT !.st = x].test = e.test
         /\ [e EXCEPT !.st = x].in = e.in
         /\ [e EXCEPT !.st = x].left = e.left
BY DEF EndSet

\* An end in another test.
LEMMA SetTest ==
  ASSUME NEW e \in EndSet, NEW x \in Nat
  PROVE  /\ [e EXCEPT !.test = x] \in EndSet /\ [e EXCEPT !.test = x].test = x
         /\ [e EXCEPT !.test = x].st = e.st
         /\ [e EXCEPT !.test = x].in = e.in
         /\ [e EXCEPT !.test = x].left = e.left
BY DEF EndSet

\* An end that has collected x pieces.
LEMMA SetIn ==
  ASSUME NEW e \in EndSet, NEW x \in Nat
  PROVE  /\ [e EXCEPT !.in = x] \in EndSet /\ [e EXCEPT !.in = x].in = x
         /\ [e EXCEPT !.in = x].st = e.st
         /\ [e EXCEPT !.in = x].test = e.test
         /\ [e EXCEPT !.in = x].left = e.left
BY DEF EndSet

\* An end that has x characters to write.
LEMMA SetLeft ==
  ASSUME NEW e \in EndSet, NEW x \in Nat
  PROVE  /\ [e EXCEPT !.left = x] \in EndSet /\ [e EXCEPT !.left = x].left = x
         /\ [e EXCEPT !.left = x].st = e.st
         /\ [e EXCEPT !.left = x].test = e.test
         /\ [e EXCEPT !.left = x].in = e.in
BY DEF EndSet

\* An end of a pair that is to be changed.
Moving(p, k, e, w) == EchoTypes /\ p \in Pairs /\ k \in Nat /\ e \in EndSet /\ w \in Nat

\* What a move of the server's end does.
LEMMA ServerMoved ==
  ASSUME NEW p, NEW k, NEW e, NEW w, Moving(p, k, e, w), k <= toS[p], ServerMoves(p, k, e, w)
  PROVE  /\ cli' = cli /\ app' = app /\ over' = over
         /\ srv' \in [Pairs -> EndSet] /\ toS' \in [Pairs -> Nat] /\ toC' \in [Pairs -> Nat]
         /\ srv'[p] = e /\ toS'[p] = toS[p] - k
         /\ toC'[p] = IF cli[p].st = "gone" THEN 0 ELSE toC[p] + w
         /\ \A q \in Pairs \ {p} : srv'[q] = srv[q] /\ toS'[q] = toS[q] /\ toC'[q] = toC[q]
<1>1. /\ srv \in [Pairs -> EndSet] /\ toS \in [Pairs -> Nat] /\ toC \in [Pairs -> Nat]
      /\ p \in Pairs /\ k \in Nat /\ e \in EndSet /\ w \in Nat
  BY DEF Moving, EchoTypes
<1>2. /\ srv' = [srv EXCEPT ![p] = e]
      /\ toS' = [toS EXCEPT ![p] = @ - k]
      /\ toC' = [toC EXCEPT ![p] = IF cli[p].st = "gone" THEN 0 ELSE @ + w]
      /\ cli' = cli /\ app' = app /\ over' = over
  BY DEF ServerMoves
<1>3. srv' \in [Pairs -> EndSet]
  BY <1>1, <1>2
<1>4. toS[p] - k \in Nat /\ (IF cli[p].st = "gone" THEN 0 ELSE toC[p] + w) \in Nat
  BY <1>1
<1>5. toS' \in [Pairs -> Nat] /\ toC' \in [Pairs -> Nat]
  BY <1>1, <1>2, <1>4
<1> QED
  BY <1>1, <1>2, <1>3, <1>5

\* What a move of the client's end does.
LEMMA ClientMoved ==
  ASSUME NEW p, NEW k, NEW e, NEW w, Moving(p, k, e, w), k <= toC[p], ClientMoves(p, k, e, w)
  PROVE  /\ srv' = srv /\ app' = app /\ over' = over /\ tlen' = tlen
         /\ cli' \in [Pairs -> EndSet] /\ toS' \in [Pairs -> Nat] /\ toC' \in [Pairs -> Nat]
         /\ cli'[p] = e /\ toC'[p] = toC[p] - k
         /\ toS'[p] = IF srv[p].st = "gone" THEN 0 ELSE toS[p] + w
         /\ \A q \in Pairs \ {p} : cli'[q] = cli[q] /\ toS'[q] = toS[q] /\ toC'[q] = toC[q]
<1>1. /\ cli \in [Pairs -> EndSet] /\ toS \in [Pairs -> Nat] /\ toC \in [Pairs -> Nat]
      /\ p \in Pairs /\ k \in Nat /\ e \in EndSet /\ w \in Nat
  BY DEF Moving, EchoTypes
<1>2. /\ cli' = [cli EXCEPT ![p] = e]
      /\ toC' = [toC EXCEPT ![p] = @ - k]
      /\ toS' = [toS EXCEPT ![p] = IF srv[p].st = "gone" THEN 0 ELSE @ + w]
      /\ srv' = srv /\ app' = app /\ over' = over /\ tlen' = tlen
  BY DEF ClientMoves
<1>3. cli' \in [Pairs -> EndSet]
  BY <1>1, <1>2
<1>4. toC[p] - k \in Nat /\ (IF srv[p].st = "gone" THEN 0 ELSE toS[p] + w) \in Nat
  BY <1>1
<1>5. toS' \in [Pairs -> Nat] /\ toC' \in [Pairs -> Nat]
  BY <1>1, <1>2, <1>4
<1> QED
  BY <1>1, <1>2, <1>3, <1>5

\* What is known of the pair p.
LEMMA PairTypes ==
  ASSUME EchoTypes, NEW p \in Pairs
  PROVE  cli[p] \in EndSet /\ srv[p] \in EndSet /\ toS[p] \in Nat /\ toC[p] \in Nat
BY DEF EchoTypes

\* The read of a test in which the server answers "hello" once.
LEMMA HelloServerReads ==
  ASSUME NEW p, NEW k, ServerReads(p, k), srv[p] \in EndSet,
         \/ app = "io_t" /\ srv[p].test = 1
         \/ app = "iocp" /\ (srv[p].test = 1 \/ srv[p].test = 2)
  PROVE  /\ srv[p].st = "open" /\ k \in 1..toS[p] /\ tlen' = tlen
         /\ LET e == [srv[p] EXCEPT !.in = @ + k]
            IN  IF e.in >= Pieces THEN ServerMoves(p, k, [e EXCEPT !.test = 0], Pieces)
                ELSE ServerMoves(p, k, e, 0)
<1> DEFINE e == [srv[p] EXCEPT !.in = srv[p].in + k]
<1>1. srv[p].st = "open" /\ k \in 1..toS[p]
  BY DEF ServerReads
<1>2. e.test = srv[p].test
  BY DEF EndSet
<1>3. CASE app = "io_t"
  <2>1. io_t_ServerData(p, k)
    BY <1>3 DEF ServerReads
  <2>2. srv[p].test = 1 /\ on_parse(srv[p], k) = e
    BY <1>3 DEF on_parse
  <2> HIDE DEF e
  <2>3. /\ IF e.in >= Pieces THEN ServerMoves(p, k, [e EXCEPT !.test = 0], Pieces)
           ELSE ServerMoves(p, k, e, 0)
        /\ tlen' = tlen
    BY <1>2, <2>1, <2>2 DEF io_t_ServerData, Whole
  <2> QED
    BY <1>1, <2>3 DEF e
<1>4. CASE app = "iocp"
  <2>1. s_on_data(p, k)
    BY <1>4 DEF ServerReads
  <2>2. srv[p].test = 1 \/ srv[p].test = 2
    BY <1>4
  <2> HIDE DEF e
  <2>3. /\ IF e.in >= Pieces THEN ServerMoves(p, k, [e EXCEPT !.test = 0], Pieces)
           ELSE ServerMoves(p, k, e, 0)
        /\ tlen' = tlen
    BY <1>2, <2>1, <2>2 DEF s_on_data, Whole, e
  <2> QED
    BY <1>1, <2>3 DEF e
<1> QED
  BY <1>3, <1>4

\* The read of a test in which the client closes once it has "world".
LEMMA HelloClientReads ==
  ASSUME NEW p, NEW k, ClientReads(p, k), cli[p] \in EndSet,
         \/ app = "io_t" /\ cli[p].test = 1
         \/ app = "iocp" /\ (cli[p].test = 1 \/ cli[p].test = 2)
  PROVE  /\ cli[p].st = "open" /\ k \in 1..toC[p]
         /\ LET e == [cli[p] EXCEPT !.in = @ + k]
            IN  IF e.in >= Pieces
                  THEN \E st \in {"shut", "gone"} :
                         ClientMoves(p, k, [[e EXCEPT !.st = st] EXCEPT !.test = 0], 0)
                ELSE ClientMoves(p, k, e, 0)
<1> DEFINE e == [cli[p] EXCEPT !.in = cli[p].in + k]
<1>1. cli[p].st = "open" /\ k \in 1..toC[p]
  BY DEF ClientReads
<1>2. e.test = cli[p].test
  BY DEF EndSet
<1>3. CASE app = "io_t"
  <2>1. io_t_ClientData(p, k)
    BY <1>3 DEF ClientReads
  <2>2. cli[p].test = 1 /\ on_parse(cli[p], k) = e
    BY <1>3 DEF on_parse
  <2> HIDE DEF e
  <2>3. IF e.in >= Pieces
          THEN ClientMoves(p, k, [[e EXCEPT !.st = "shut"] EXCEPT !.test = 0], 0)
        ELSE ClientMoves(p, k, e, 0)
    BY <1>2, <2>1, <2>2 DEF io_t_ClientData, Whole, Shut
  <2> QED
    BY <1>1, <2>3 DEF e
<1>4. CASE app = "iocp"
  <2>1. c_on_data(p, k)
    BY <1>4 DEF ClientReads
  <2>2. cli[p].test = 1 \/ cli[p].test = 2
    BY <1>4
  <2> HIDE DEF e
  <2>3. IF e.in >= Pieces
          THEN ClientMoves(p, k, [[e EXCEPT !.st = "gone"] EXCEPT !.test = 0], 0)
        ELSE ClientMoves(p, k, e, 0)
    BY <1>2, <2>1, <2>2 DEF c_on_data, Whole, e
  <2> QED
    BY <1>1, <2>3 DEF e
<1> QED
  BY <1>3, <1>4

\* What a step of the pair p leaves of the others.
Kept(p) ==
  /\ app' = app /\ over' = over
  /\ cli' \in [Pairs -> EndSet] /\ srv' \in [Pairs -> EndSet]
  /\ toS' \in [Pairs -> Nat] /\ toC' \in [Pairs -> Nat]
  /\ \A q \in Pairs \ {p} : /\ cli'[q] = cli[q] /\ srv'[q] = srv[q]
                            /\ toS'[q] = toS[q] /\ toC'[q] = toC[q]

\* A move of one end keeps the others.
LEMMA MovesKeep ==
  ASSUME NEW p, NEW k, NEW e, NEW w, Moving(p, k, e, w),
         \/ k <= toS[p] /\ ServerMoves(p, k, e, w)
         \/ k <= toC[p] /\ ClientMoves(p, k, e, w)
  PROVE  Kept(p)
<1>1. cli \in [Pairs -> EndSet] /\ srv \in [Pairs -> EndSet]
  BY DEF Moving, EchoTypes
<1>2. CASE k <= toS[p] /\ ServerMoves(p, k, e, w)
  BY <1>1, <1>2, ServerMoved DEF Kept
<1>3. CASE k <= toC[p] /\ ClientMoves(p, k, e, w)
  BY <1>1, <1>3, ClientMoved DEF Kept
<1> QED
  BY <1>2, <1>3

\* What a pair can do.
LEMMA StepCases ==
  ASSUME NEW p, EchoStep(p)
  PROVE  /\ ~over
         /\ \/ Accepted(p, IF app = "io_t" /\ srv[p].test = 3 THEN Pieces ELSE 0)
            \/ s_on_loop(p)
            \/ ServerEnds(p)
            \/ ClientEnds(p, IF app = "iocp" /\ cli[p].test = 2 THEN 0 ELSE cli[p].test)
            \/ \E k : ServerReads(p, k)
            \/ \E k : ClientReads(p, k)
<1>1. ~over
  BY DEF EchoStep
<1>2. s_on_new(p) => Accepted(p, IF app = "io_t" /\ srv[p].test = 3 THEN Pieces ELSE 0)
  BY DEF s_on_new
<1>3. test_on_accept(p) => Accepted(p, IF app = "io_t" /\ srv[p].test = 3 THEN Pieces ELSE 0)
  BY DEF test_on_accept
<1>4. s_on_accept(p) => Accepted(p, IF app = "io_t" /\ srv[p].test = 3 THEN Pieces ELSE 0)
  BY DEF s_on_accept
<1>5. s_on_delete(p) \/ server_on_error(p) \/ s_on_error(p) => ServerEnds(p)
  BY DEF s_on_delete, server_on_error, s_on_error
<1>6. c_on_delete(p) \/ client_on_error(p) \/ c_on_error(p) =>
        ClientEnds(p, IF app = "iocp" /\ cli[p].test = 2 THEN 0 ELSE cli[p].test)
  BY DEF c_on_delete, client_on_error, c_on_error
<1> QED
  BY <1>1, <1>2, <1>3, <1>4, <1>5, <1>6, Zenon DEF EchoStep

\* A server's end that has been accepted.
LEMMA AcceptEffect ==
  ASSUME EchoTypes, NEW p \in Pairs, NEW w \in Nat, Accepted(p, w)
  PROVE  /\ Kept(p) /\ tlen' = tlen /\ srv[p].st = "backlog" /\ cli' = cli
         /\ srv'[p].st = "open" /\ srv'[p].test = srv[p].test /\ srv'[p].in = srv[p].in
         /\ srv'[p].left = srv[p].left /\ toS'[p] = toS[p]
         /\ toC'[p] = IF cli[p].st = "gone" THEN 0 ELSE toC[p] + w
<1> DEFINE e == [srv[p] EXCEPT !.st = "open"]
<1>1. srv[p].st = "backlog" /\ ServerMoves(p, 0, e, w) /\ tlen' = tlen
  BY DEF Accepted
<1>2. srv[p] \in EndSet /\ toS[p] \in Nat
  BY PairTypes
<1>3. e.st = "open" /\ e.test = srv[p].test /\ e.in = srv[p].in /\ e.left = srv[p].left
      /\ e \in EndSet
  BY <1>2, SetSt
<1> HIDE DEF e
<1>4. Moving(p, 0, e, w) /\ 0 <= toS[p]
  BY <1>2, <1>3 DEF Moving
<1>5. Kept(p) /\ cli' = cli
  BY <1>1, <1>4, MovesKeep, ServerMoved
<1>6. srv'[p] = e /\ toS'[p] = toS[p] - 0
      /\ toC'[p] = IF cli[p].st = "gone" THEN 0 ELSE toC[p] + w
  BY <1>1, <1>4, ServerMoved
<1> QED
  BY <1>1, <1>2, <1>3, <1>5, <1>6

\* A server's end that is deleted.
LEMMA ServerEndEffect ==
  ASSUME EchoTypes, NEW p \in Pairs, ServerEnds(p)
  PROVE  /\ Kept(p) /\ tlen' = tlen /\ cli' = cli
         /\ \/ srv[p].st = "shut"
            \/ srv[p].st = "open" /\ cli[p].st \in {"shut", "gone"} /\ toS[p] = 0
         /\ srv'[p].st = "gone" /\ srv'[p].test = srv[p].test /\ srv'[p].in = srv[p].in
         /\ srv'[p].left = srv[p].left /\ toS'[p] = 0
         /\ toC'[p] = IF cli[p].st = "gone" THEN 0 ELSE toC[p]
<1> DEFINE e == [srv[p] EXCEPT !.st = "gone"]
<1>1. /\ \/ srv[p].st = "shut"
         \/ srv[p].st = "open" /\ cli[p].st \in {"shut", "gone"} /\ toS[p] = 0
      /\ ServerMoves(p, toS[p], e, 0) /\ tlen' = tlen
  BY DEF ServerEnds
<1>2. srv[p] \in EndSet /\ toS[p] \in Nat /\ toC[p] \in Nat
  BY PairTypes
<1>3. e.st = "gone" /\ e.test = srv[p].test /\ e.in = srv[p].in /\ e.left = srv[p].left
      /\ e \in EndSet
  BY <1>2, SetSt
<1> HIDE DEF e
<1>4. Moving(p, toS[p], e, 0) /\ toS[p] <= toS[p]
  BY <1>2, <1>3 DEF Moving
<1>5. Kept(p) /\ cli' = cli
  BY <1>1, <1>4, MovesKeep, ServerMoved
<1>6. srv'[p] = e /\ toS'[p] = toS[p] - toS[p]
      /\ toC'[p] = IF cli[p].st = "gone" THEN 0 ELSE toC[p] + 0
  BY <1>1, <1>4, ServerMoved
<1> QED
  BY <1>1, <1>2, <1>3, <1>5, <1>6

\* A client's end that is deleted.
LEMMA ClientEndEffect ==
  ASSUME EchoTypes, NEW p \in Pairs, NEW test \in Nat, ClientEnds(p, test)
  PROVE  /\ Kept(p) /\ tlen' = tlen /\ srv' = srv
         /\ \/ cli[p].st = "shut"
            \/ cli[p].st = "open" /\ srv[p].st \in {"shut", "gone"} /\ toC[p] = 0
         /\ cli'[p].st = "gone" /\ cli'[p].test = test /\ cli'[p].in = cli[p].in
         /\ toC'[p] = 0
         /\ toS'[p] = IF srv[p].st = "gone" THEN 0 ELSE toS[p]
<1> DEFINE f == [cli[p] EXCEPT !.st = "gone"]
           e == [f EXCEPT !.test = test]
<1>1. /\ \/ cli[p].st = "shut"
         \/ cli[p].st = "open" /\ srv[p].st \in {"shut", "gone"} /\ toC[p] = 0
      /\ ClientMoves(p, toC[p], e, 0)
  BY DEF ClientEnds
<1>2. cli[p] \in EndSet /\ toS[p] \in Nat /\ toC[p] \in Nat
  BY PairTypes
<1>3. f \in EndSet /\ f.st = "gone" /\ f.in = cli[p].in
  BY <1>2, SetSt
<1> HIDE DEF f
<1>4. e.st = "gone" /\ e.test = test /\ e.in = cli[p].in /\ e \in EndSet
  BY <1>3, SetTest
<1> HIDE DEF e
<1>5. Moving(p, toC[p], e, 0) /\ toC[p] <= toC[p]
  BY <1>2, <1>4 DEF Moving
<1>6. Kept(p) /\ srv' = srv /\ tlen' = tlen
  BY <1>1, <1>5, MovesKeep, ClientMoved
<1>7. cli'[p] = e /\ toC'[p] = toC[p] - toC[p]
      /\ toS'[p] = IF srv[p].st = "gone" THEN 0 ELSE toS[p] + 0
  BY <1>1, <1>5, ClientMoved
<1> QED
  BY <1>1, <1>2, <1>4, <1>6, <1>7

\* An end that has collected k pieces more.
LEMMA Collects ==
  ASSUME NEW e \in EndSet, NEW k \in Nat
  PROVE  /\ [e EXCEPT !.in = e.in + k] \in EndSet
         /\ [e EXCEPT !.in = e.in + k].st = e.st /\ [e EXCEPT !.in = e.in + k].test = e.test
         /\ [e EXCEPT !.in = e.in + k].in = e.in + k
         /\ [e EXCEPT !.in = e.in + k].left = e.left
         /\ e.in \in Nat /\ e.test \in Nat /\ e.left \in Nat
<1>1. e.in \in Nat /\ e.test \in Nat /\ e.left \in Nat
  BY DEF EndSet
<1> DEFINE x == e.in + k
<1>2. x \in Nat
  BY <1>1
<1> HIDE DEF x
<1>3. /\ [e EXCEPT !.in = x] \in EndSet
      /\ [e EXCEPT !.in = x].st = e.st /\ [e EXCEPT !.in = x].test = e.test
      /\ [e EXCEPT !.in = x].in = x /\ [e EXCEPT !.in = x].left = e.left
  BY <1>2, SetIn
<1> QED
  BY <1>1, <1>3, Zenon DEF x

\* What the server has after that read.
LEMMA HelloServerEffect ==
  ASSUME EchoTypes, EchoAssumption, NEW p \in Pairs, NEW k, ServerReads(p, k),
         \/ app = "io_t" /\ srv[p].test = 1
         \/ app = "iocp" /\ (srv[p].test = 1 \/ srv[p].test = 2)
  PROVE  /\ Kept(p) /\ tlen' = tlen /\ cli' = cli
         /\ srv[p].st = "open" /\ k \in 1..toS[p]
         /\ srv'[p].st = "open" /\ srv'[p].in = srv[p].in + k /\ toS'[p] = toS[p] - k
         /\ IF srv[p].in + k >= Pieces
              THEN /\ srv'[p].test = 0
                   /\ toC'[p] = IF cli[p].st = "gone" THEN 0 ELSE toC[p] + Pieces
            ELSE /\ srv'[p].test = srv[p].test
                 /\ toC'[p] = IF cli[p].st = "gone" THEN 0 ELSE toC[p]
<1> DEFINE e == [srv[p] EXCEPT !.in = srv[p].in + k]
           d == [e EXCEPT !.test = 0]
<1>1. srv[p] \in EndSet /\ toS[p] \in Nat /\ toC[p] \in Nat /\ Pieces \in Nat
  BY PairTypes, EchoAssumption
<1>2. /\ srv[p].st = "open" /\ k \in 1..toS[p] /\ tlen' = tlen
      /\ IF e.in >= Pieces THEN ServerMoves(p, k, d, Pieces) ELSE ServerMoves(p, k, e, 0)
  BY <1>1, HelloServerReads
<1>3. k \in Nat /\ k <= toS[p]
  BY <1>1, <1>2
<1>5. /\ e \in EndSet /\ e.st = srv[p].st /\ e.in = srv[p].in + k /\ e.test = srv[p].test
  BY <1>1, <1>3, Collects
<1> HIDE DEF e
<1>6. d \in EndSet /\ d.st = e.st /\ d.in = e.in /\ d.test = 0
  BY <1>5, SetTest
<1> HIDE DEF d
<1>7. CASE srv[p].in + k >= Pieces
  <2>1. ServerMoves(p, k, d, Pieces) /\ Moving(p, k, d, Pieces)
    BY <1>1, <1>2, <1>3, <1>5, <1>6, <1>7 DEF Moving
  <2>2. Kept(p) /\ cli' = cli
    BY <1>3, <2>1, MovesKeep, ServerMoved
  <2>3. srv'[p] = d /\ toS'[p] = toS[p] - k
        /\ toC'[p] = IF cli[p].st = "gone" THEN 0 ELSE toC[p] + Pieces
    BY <1>3, <2>1, ServerMoved
  <2> QED
    BY <1>2, <1>5, <1>6, <1>7, <2>2, <2>3
<1>8. CASE ~(srv[p].in + k >= Pieces)
  <2>1. ServerMoves(p, k, e, 0) /\ Moving(p, k, e, 0)
    BY <1>1, <1>2, <1>3, <1>5, <1>8 DEF Moving
  <2>2. Kept(p) /\ cli' = cli
    BY <1>3, <2>1, MovesKeep, ServerMoved
  <2>3. srv'[p] = e /\ toS'[p] = toS[p] - k
        /\ toC'[p] = IF cli[p].st = "gone" THEN 0 ELSE toC[p] + 0
    BY <1>3, <2>1, ServerMoved
  <2> QED
    BY <1>1, <1>2, <1>5, <1>8, <2>2, <2>3
<1> QED
  BY <1>7, <1>8

\* What the client has after its read.
LEMMA HelloClientEffect ==
  ASSUME EchoTypes, NEW p \in Pairs, NEW k, ClientReads(p, k),
         \/ app = "io_t" /\ cli[p].test = 1
         \/ app = "iocp" /\ (cli[p].test = 1 \/ cli[p].test = 2)
  PROVE  /\ Kept(p) /\ tlen' = tlen /\ srv' = srv
         /\ cli[p].st = "open" /\ k \in 1..toC[p]
         /\ cli'[p].in = cli[p].in + k /\ toC'[p] = toC[p] - k
         /\ toS'[p] = IF srv[p].st = "gone" THEN 0 ELSE toS[p]
         /\ IF cli[p].in + k >= Pieces
              THEN cli'[p].test = 0 /\ cli'[p].st \in {"shut", "gone"}
            ELSE cli'[p].test = cli[p].test /\ cli'[p].st = "open"
<1> DEFINE e == [cli[p] EXCEPT !.in = cli[p].in + k]
           f(st) == [e EXCEPT !.st = st]
           d(st) == [f(st) EXCEPT !.test = 0]
<1>1. cli[p] \in EndSet /\ toS[p] \in Nat /\ toC[p] \in Nat
  BY PairTypes
<1>2. /\ cli[p].st = "open" /\ k \in 1..toC[p]
      /\ IF e.in >= Pieces
           THEN \E st \in {"shut", "gone"} : ClientMoves(p, k, d(st), 0)
         ELSE ClientMoves(p, k, e, 0)
  BY <1>1, HelloClientReads
<1>3. k \in Nat /\ k <= toC[p]
  BY <1>1, <1>2
<1>5. e \in EndSet /\ e.st = cli[p].st /\ e.in = cli[p].in + k /\ e.test = cli[p].test
  BY <1>1, <1>3, Collects
<1> HIDE DEF e
<1>6. CASE cli[p].in + k >= Pieces
  <2>1. PICK st \in {"shut", "gone"} : ClientMoves(p, k, d(st), 0)
    BY <1>2, <1>5, <1>6
  <2>2. f(st) \in EndSet /\ f(st).in = e.in /\ f(st).st = st
    <3>1. st \in {"backlog", "open", "shut", "gone"}
      BY <2>1
    <3> QED
      BY <1>5, <3>1, SetSt
  <2> HIDE DEF f
  <2>3. d(st) \in EndSet /\ d(st).st = st /\ d(st).in = e.in /\ d(st).test = 0
    BY <2>2, SetTest
  <2> HIDE DEF d
  <2>4. Moving(p, k, d(st), 0)
    BY <1>3, <2>3 DEF Moving
  <2>5. Kept(p) /\ srv' = srv /\ tlen' = tlen
    BY <1>3, <2>1, <2>4, MovesKeep, ClientMoved
  <2>6. cli'[p] = d(st) /\ toC'[p] = toC[p] - k
        /\ toS'[p] = IF srv[p].st = "gone" THEN 0 ELSE toS[p] + 0
    BY <1>3, <2>1, <2>4, ClientMoved
  <2> QED
    BY <1>1, <1>2, <1>5, <1>6, <2>3, <2>5, <2>6
<1>7. CASE ~(cli[p].in + k >= Pieces)
  <2>1. ClientMoves(p, k, e, 0) /\ Moving(p, k, e, 0)
    BY <1>2, <1>3, <1>5, <1>7 DEF Moving
  <2>2. Kept(p) /\ srv' = srv /\ tlen' = tlen
    BY <1>3, <2>1, MovesKeep, ClientMoved
  <2>3. cli'[p] = e /\ toC'[p] = toC[p] - k
        /\ toS'[p] = IF srv[p].st = "gone" THEN 0 ELSE toS[p] + 0
    BY <1>3, <2>1, ClientMoved
  <2> QED
    BY <1>1, <1>2, <1>5, <1>7, <2>2, <2>3
<1> QED
  BY <1>6, <1>7

\* A pair that says "hello" first stays one.
LEMMA HelloFirstKept ==
  ASSUME EchoTypes, EchoAssumption, NEW p \in Pairs, EchoStep(p), NEW t,
         (app = "io_t" /\ t = 1) \/ (app = "iocp" /\ (t = 1 \/ t = 2)),
         HelloFirst(t, cli[p], srv[p], toS[p], toC[p])
  PROVE  /\ Kept(p) /\ tlen' = tlen
         /\ HelloFirst(t, cli'[p], srv'[p], toS'[p], toC'[p])
<1> DEFINE c == cli[p]
           s == srv[p]
           ts == toS[p]
           tc == toC[p]
           c2 == cli'[p]
           s2 == srv'[p]
           ts2 == toS'[p]
           tc2 == toC'[p]
<1>1. c \in EndSet /\ s \in EndSet /\ ts \in Nat /\ tc \in Nat /\ Pieces \in Nat /\ Pieces > 0
  BY PairTypes, EchoAssumption
<1>2. c.in \in Nat /\ s.in \in Nat /\ c.test \in Nat
  BY <1>1 DEF EndSet
<1>3. HelloFirst(t, c, s, ts, tc) /\ (t = 1 \/ t = 2)
  OBVIOUS
<1>4. ~ s_on_loop(p)
  BY <1>3 DEF s_on_loop, HelloFirst, EndOf
<1>5. CASE Accepted(p, IF app = "io_t" /\ s.test = 3 THEN Pieces ELSE 0)
  <2>1. s.test # 3
    BY <1>3, SMTT(30) DEF HelloFirst, EndOf
  <2>2. Accepted(p, 0)
    BY <1>5, <2>1
  <2>3. /\ Kept(p) /\ tlen' = tlen /\ s.st = "backlog" /\ c2 = c
        /\ s2.st = "open" /\ s2.test = s.test /\ s2.in = s.in /\ ts2 = ts
        /\ tc2 = IF c.st = "gone" THEN 0 ELSE tc + 0
    BY <2>2, AcceptEffect
  <2> HIDE DEF c, s, ts, tc, c2, s2, ts2, tc2
  <2>4. HelloFirst(t, c2, s2, ts2, tc2)
    BY <1>1, <1>2, <1>3, <2>3, SMTT(30) DEF HelloFirst, EndOf, Flight
  <2> QED
    BY <2>3, <2>4 DEF c2, s2, ts2, tc2
<1>6. CASE ServerEnds(p)
  <2>1. /\ Kept(p) /\ tlen' = tlen /\ c2 = c
        /\ \/ s.st = "shut"
           \/ s.st = "open" /\ c.st \in {"shut", "gone"} /\ ts = 0
        /\ s2.st = "gone" /\ s2.test = s.test /\ s2.in = s.in /\ ts2 = 0
        /\ tc2 = IF c.st = "gone" THEN 0 ELSE tc
    BY <1>6, ServerEndEffect
  <2> HIDE DEF c, s, ts, tc, c2, s2, ts2, tc2
  <2>2. HelloFirst(t, c2, s2, ts2, tc2)
    BY <1>1, <1>2, <1>3, <2>1, SMTT(30) DEF HelloFirst, EndOf, Flight
  <2> QED
    BY <2>1, <2>2 DEF c2, s2, ts2, tc2
<1>7. CASE ClientEnds(p, IF app = "iocp" /\ c.test = 2 THEN 0 ELSE c.test)
  <2> DEFINE test == IF app = "iocp" /\ c.test = 2 THEN 0 ELSE c.test
  <2>1. test \in Nat
    BY <1>2
  <2>2. test = c.test \/ test = 0
    OBVIOUS
  <2>3. ClientEnds(p, test)
    BY <1>7
  <2> HIDE DEF test
  <2>4. /\ Kept(p) /\ tlen' = tlen /\ s2 = s
        /\ \/ c.st = "shut"
           \/ c.st = "open" /\ s.st \in {"shut", "gone"} /\ tc = 0
        /\ c2.st = "gone" /\ c2.test = test /\ c2.in = c.in
        /\ tc2 = 0 /\ ts2 = IF s.st = "gone" THEN 0 ELSE ts
    BY <2>1, <2>3, ClientEndEffect
  <2> HIDE DEF c, s, ts, tc, c2, s2, ts2, tc2
  <2>5. HelloFirst(t, c2, s2, ts2, tc2)
    BY <1>1, <1>2, <1>3, <2>2, <2>4, SMTT(30) DEF HelloFirst, EndOf, Flight
  <2> QED
    BY <2>4, <2>5 DEF c2, s2, ts2, tc2
<1>8. ASSUME NEW k, ServerReads(p, k)
      PROVE  Kept(p) /\ tlen' = tlen /\ HelloFirst(t, c2, s2, ts2, tc2)
  <2>1. s.st = "open" /\ k \in 1..ts
    BY <1>8 DEF ServerReads
  <2>2. s.test = t
    BY <1>1, <1>3, <2>1, SMTT(30) DEF HelloFirst, EndOf, Flight
  <2>3. /\ Kept(p) /\ tlen' = tlen /\ c2 = c
        /\ s2.st = "open" /\ s2.in = s.in + k /\ ts2 = ts - k
        /\ IF s.in + k >= Pieces
             THEN s2.test = 0 /\ tc2 = IF c.st = "gone" THEN 0 ELSE tc + Pieces
           ELSE s2.test = s.test /\ tc2 = IF c.st = "gone" THEN 0 ELSE tc
    BY <1>8, <2>2, HelloServerEffect
  <2> HIDE DEF c, s, ts, tc, c2, s2, ts2, tc2
  <2>4. HelloFirst(t, c2, s2, ts2, tc2)
    BY <1>1, <1>2, <1>3, <2>1, <2>3, SMTT(30) DEF HelloFirst, EndOf, Flight
  <2> QED
    BY <2>3, <2>4
<1>9. ASSUME NEW k, ClientReads(p, k)
      PROVE  Kept(p) /\ tlen' = tlen /\ HelloFirst(t, c2, s2, ts2, tc2)
  <2>1. c.st = "open" /\ k \in 1..tc
    BY <1>9 DEF ClientReads
  <2>2. c.test = t
    BY <1>1, <1>3, <2>1, SMTT(30) DEF HelloFirst, EndOf, Flight
  <2>3. /\ Kept(p) /\ tlen' = tlen /\ s2 = s
        /\ c2.in = c.in + k /\ tc2 = tc - k
        /\ ts2 = IF s.st = "gone" THEN 0 ELSE ts
        /\ IF c.in + k >= Pieces THEN c2.test = 0 /\ c2.st \in {"shut", "gone"}
           ELSE c2.test = c.test /\ c2.st = "open"
    BY <1>9, <2>2, HelloClientEffect
  <2> HIDE DEF c, s, ts, tc, c2, s2, ts2, tc2
  <2>4. HelloFirst(t, c2, s2, ts2, tc2)
    BY <1>1, <1>2, <1>3, <2>1, <2>3, SMTT(30) DEF HelloFirst, EndOf, Flight
  <2> QED
    BY <2>3, <2>4
<1> QED
  BY <1>4, <1>5, <1>6, <1>7, <1>8, <1>9, StepCases

\* What a read leaves, given the end e that it makes of the server's.
LEMMA ServerRead ==
  ASSUME EchoTypes, NEW p \in Pairs, NEW k \in 1..toS[p], NEW e \in EndSet, NEW w \in Nat,
         ServerMoves(p, k, e, w)
  PROVE  /\ Kept(p) /\ cli' = cli /\ srv'[p] = e /\ toS'[p] = toS[p] - k
         /\ toC'[p] = IF cli[p].st = "gone" THEN 0 ELSE toC[p] + w
<1>1. toS[p] \in Nat
  BY PairTypes
<1>2. k \in Nat /\ k <= toS[p]
  BY <1>1
<1>3. Moving(p, k, e, w)
  BY <1>2 DEF Moving
<1> QED
  BY <1>2, <1>3, MovesKeep, ServerMoved

\* The same of the client's.
LEMMA ClientRead ==
  ASSUME EchoTypes, NEW p \in Pairs, NEW k \in 1..toC[p], NEW e \in EndSet, NEW w \in Nat,
         ClientMoves(p, k, e, w)
  PROVE  /\ Kept(p) /\ srv' = srv /\ tlen' = tlen /\ cli'[p] = e /\ toC'[p] = toC[p] - k
         /\ toS'[p] = IF srv[p].st = "gone" THEN 0 ELSE toS[p] + w
<1>1. toC[p] \in Nat
  BY PairTypes
<1>2. k \in Nat /\ k <= toC[p]
  BY <1>1
<1>3. Moving(p, k, e, w)
  BY <1>2 DEF Moving
<1> QED
  BY <1>2, <1>3, MovesKeep, ClientMoved

\* The server's read of the test in which it closes once it has "hello".
LEMMA WorldServerEffect ==
  ASSUME EchoTypes, NEW p \in Pairs, NEW k, ServerReads(p, k),
         app = "io_t", srv[p].test = 3
  PROVE  /\ Kept(p) /\ tlen' = tlen /\ cli' = cli
         /\ srv[p].st = "open" /\ k \in 1..toS[p]
         /\ srv'[p].in = srv[p].in + k /\ toS'[p] = toS[p] - k
         /\ toC'[p] = IF cli[p].st = "gone" THEN 0 ELSE toC[p]
         /\ IF srv[p].in + k >= Pieces THEN srv'[p].st = "shut" /\ srv'[p].test = 0
            ELSE srv'[p].st = "open" /\ srv'[p].test = 3
<1> DEFINE e == [srv[p] EXCEPT !.in = srv[p].in + k]
           f == [e EXCEPT !.st = "shut"]
           d == [f EXCEPT !.test = 0]
<1>1. srv[p] \in EndSet /\ toS[p] \in Nat /\ toC[p] \in Nat
  BY PairTypes
<1>2. srv[p].st = "open" /\ k \in 1..toS[p] /\ io_t_ServerData(p, k)
  BY DEF ServerReads
<1>3. on_parse(srv[p], k) = e
  BY DEF on_parse
<1>4. k \in Nat
  BY <1>1, <1>2
<1>5. e \in EndSet /\ e.st = srv[p].st /\ e.in = srv[p].in + k /\ e.test = srv[p].test
  BY <1>1, <1>4, Collects
<1>6. Shut(e) = d
  BY DEF Shut
<1> HIDE DEF e
<1>7. f \in EndSet /\ f.st = "shut" /\ f.in = e.in
  BY <1>5, SetSt
<1> HIDE DEF f
<1>8. d \in EndSet /\ d.st = "shut" /\ d.in = e.in /\ d.test = 0
  BY <1>7, SetTest
<1> HIDE DEF d
<1>9. /\ IF e.in >= Pieces THEN ServerMoves(p, k, d, 0) ELSE ServerMoves(p, k, e, 0)
      /\ tlen' = tlen
  BY <1>2, <1>3, <1>5, <1>6 DEF io_t_ServerData, Whole
<1>10. CASE srv[p].in + k >= Pieces
  <2>1. ServerMoves(p, k, d, 0)
    BY <1>5, <1>9, <1>10
  <2> QED
    BY <1>1, <1>2, <1>5, <1>8, <1>9, <1>10, <2>1, ServerRead
<1>11. CASE ~(srv[p].in + k >= Pieces)
  <2>1. ServerMoves(p, k, e, 0)
    BY <1>5, <1>9, <1>11
  <2> QED
    BY <1>1, <1>2, <1>5, <1>9, <1>11, <2>1, ServerRead
<1> QED
  BY <1>10, <1>11

\* The client's read of the test in which it answers "world" once.
LEMMA WorldClientEffect ==
  ASSUME EchoTypes, EchoAssumption, NEW p \in Pairs, NEW k, ClientReads(p, k),
         app = "io_t", cli[p].test = 3
  PROVE  /\ Kept(p) /\ tlen' = tlen /\ srv' = srv
         /\ cli[p].st = "open" /\ k \in 1..toC[p]
         /\ cli'[p].st = "open" /\ cli'[p].in = cli[p].in + k /\ toC'[p] = toC[p] - k
         /\ IF cli[p].in + k >= Pieces
              THEN /\ cli'[p].test = 0
                   /\ toS'[p] = IF srv[p].st = "gone" THEN 0 ELSE toS[p] + Pieces
            ELSE /\ cli'[p].test = 3
                 /\ toS'[p] = IF srv[p].st = "gone" THEN 0 ELSE toS[p]
<1> DEFINE e == [cli[p] EXCEPT !.in = cli[p].in + k]
           d == [e EXCEPT !.test = 0]
<1>1. cli[p] \in EndSet /\ toS[p] \in Nat /\ toC[p] \in Nat /\ Pieces \in Nat
  BY PairTypes, EchoAssumption
<1>2. cli[p].st = "open" /\ k \in 1..toC[p] /\ io_t_ClientData(p, k)
  BY DEF ClientReads
<1>3. on_parse(cli[p], k) = e
  BY DEF on_parse
<1>4. k \in Nat
  BY <1>1, <1>2
<1>5. e \in EndSet /\ e.st = cli[p].st /\ e.in = cli[p].in + k /\ e.test = cli[p].test
  BY <1>1, <1>4, Collects
<1> HIDE DEF e
<1>6. d \in EndSet /\ d.st = e.st /\ d.in = e.in /\ d.test = 0
  BY <1>5, SetTest
<1>7. IF e.in >= Pieces THEN ClientMoves(p, k, d, Pieces) ELSE ClientMoves(p, k, e, 0)
  BY <1>2, <1>3, <1>5 DEF io_t_ClientData, Whole
<1> HIDE DEF d
<1>8. CASE cli[p].in + k >= Pieces
  <2>1. ClientMoves(p, k, d, Pieces)
    BY <1>5, <1>7, <1>8
  <2> QED
    BY <1>1, <1>2, <1>5, <1>6, <1>8, <2>1, ClientRead
<1>9. CASE ~(cli[p].in + k >= Pieces)
  <2>1. ClientMoves(p, k, e, 0)
    BY <1>5, <1>7, <1>9
  <2> QED
    BY <1>1, <1>2, <1>5, <1>9, <2>1, ClientRead
<1> QED
  BY <1>8, <1>9

\* The reads of the poll test.
LEMMA PollServerEffect ==
  ASSUME EchoTypes, EchoAssumption, NEW p \in Pairs, NEW k, ServerReads(p, k), app = "poll"
  PROVE  /\ Kept(p) /\ tlen' = tlen /\ cli' = cli
         /\ srv[p].st = "open" /\ k \in 1..toS[p]
         /\ srv'[p].st = "open" /\ srv'[p].test = srv[p].test
         /\ srv'[p].in = srv[p].in + k /\ toS'[p] = toS[p] - k
         /\ toC'[p] = IF cli[p].st = "gone" THEN 0
                      ELSE toC[p] + IF srv[p].in + k >= Pieces THEN Pieces ELSE 0
<1> DEFINE e == [srv[p] EXCEPT !.in = srv[p].in + k]
           w == IF e.in >= Pieces THEN Pieces ELSE 0
<1>1. srv[p] \in EndSet /\ toS[p] \in Nat /\ toC[p] \in Nat /\ Pieces \in Nat
  BY PairTypes, EchoAssumption
<1>2. srv[p].st = "open" /\ k \in 1..toS[p] /\ server_on_data(p, k)
  BY DEF ServerReads
<1>3. ServerMoves(p, k, e, w) /\ tlen' = tlen
  BY <1>2 DEF server_on_data, Whole
<1>4. k \in Nat
  BY <1>1, <1>2
<1>5. e \in EndSet /\ e.st = srv[p].st /\ e.in = srv[p].in + k /\ e.test = srv[p].test
  BY <1>1, <1>4, Collects
<1>6. w \in Nat /\ w = IF srv[p].in + k >= Pieces THEN Pieces ELSE 0
  BY <1>1, <1>5
<1> HIDE DEF e, w
<1> QED
  BY <1>1, <1>2, <1>3, <1>5, <1>6, ServerRead

\* A poll client that got "world" in one read closes.
LEMMA PollClientEffect ==
  ASSUME EchoTypes, NEW p \in Pairs, NEW k, ClientReads(p, k), app = "poll"
  PROVE  /\ Kept(p) /\ tlen' = tlen /\ srv' = srv
         /\ cli[p].st = "open" /\ k \in 1..toC[p]
         /\ cli'[p].test = cli[p].test
         /\ cli'[p].in = cli[p].in + k /\ toC'[p] = toC[p] - k
         /\ toS'[p] = IF srv[p].st = "gone" THEN 0 ELSE toS[p]
         /\ cli'[p].st = IF k >= Pieces THEN "shut" ELSE "open"
<1> DEFINE e == [cli[p] EXCEPT !.in = cli[p].in + k]
           d == [e EXCEPT !.st = "shut"]
<1>1. cli[p] \in EndSet /\ toS[p] \in Nat /\ toC[p] \in Nat
  BY PairTypes
<1>2. cli[p].st = "open" /\ k \in 1..toC[p] /\ client_on_data(p, k)
  BY DEF ClientReads
<1>3. IF k >= Pieces THEN ClientMoves(p, k, d, 0) ELSE ClientMoves(p, k, e, 0)
  BY <1>2 DEF client_on_data
<1>4. k \in Nat
  BY <1>1, <1>2
<1>5. e \in EndSet /\ e.st = cli[p].st /\ e.in = cli[p].in + k /\ e.test = cli[p].test
  BY <1>1, <1>4, Collects
<1> HIDE DEF e
<1>6. d \in EndSet /\ d.st = "shut" /\ d.in = e.in /\ d.test = e.test
  BY <1>5, SetSt
<1> HIDE DEF d
<1>8. CASE k >= Pieces
  BY <1>1, <1>2, <1>3, <1>5, <1>6, <1>8, ClientRead
<1>9. CASE ~(k >= Pieces)
  BY <1>1, <1>2, <1>3, <1>5, <1>9, ClientRead
<1> QED
  BY <1>8, <1>9

\* A pair in which the server begins stays one.
LEMMA WorldFirstKept ==
  ASSUME EchoTypes, EchoAssumption, NEW p \in Pairs, EchoStep(p), app = "io_t",
         WorldFirst(cli[p], srv[p], toS[p], toC[p])
  PROVE  Kept(p) /\ tlen' = tlen /\ WorldFirst(cli'[p], srv'[p], toS'[p], toC'[p])
<1> DEFINE c == cli[p]
           s == srv[p]
           ts == toS[p]
           tc == toC[p]
           c2 == cli'[p]
           s2 == srv'[p]
           ts2 == toS'[p]
           tc2 == toC'[p]
<1>1. c \in EndSet /\ s \in EndSet /\ ts \in Nat /\ tc \in Nat /\ Pieces \in Nat /\ Pieces > 0
  BY PairTypes, EchoAssumption
<1>2. c.in \in Nat /\ s.in \in Nat /\ c.test \in Nat
  BY <1>1 DEF EndSet
<1>3. WorldFirst(c, s, ts, tc)
  OBVIOUS
<1>4. ~ s_on_loop(p)
  BY <1>3 DEF s_on_loop, WorldFirst, EndOf
<1>5. CASE Accepted(p, IF app = "io_t" /\ s.test = 3 THEN Pieces ELSE 0)
  <2>1. Accepted(p, Pieces)
    <3>1. s.st = "backlog"
      BY <1>5 DEF Accepted
    <3>2. s.test = 3
      BY <1>3, <3>1, SMTT(30) DEF WorldFirst, EndOf
    <3> QED
      BY <1>5, <3>2
  <2>2. /\ Kept(p) /\ tlen' = tlen /\ s.st = "backlog" /\ c2 = c
        /\ s2.st = "open" /\ s2.test = s.test /\ s2.in = s.in /\ ts2 = ts
        /\ tc2 = IF c.st = "gone" THEN 0 ELSE tc + Pieces
    BY <1>1, <2>1, AcceptEffect
  <2> HIDE DEF c, s, ts, tc, c2, s2, ts2, tc2
  <2>3. WorldFirst(c2, s2, ts2, tc2)
    BY <1>1, <1>2, <1>3, <2>2, SMTT(30) DEF WorldFirst, EndOf, Flight
  <2> QED
    BY <2>2, <2>3 DEF c2, s2, ts2, tc2
<1>6. CASE ServerEnds(p)
  <2>1. /\ Kept(p) /\ tlen' = tlen /\ c2 = c
        /\ \/ s.st = "shut"
           \/ s.st = "open" /\ c.st \in {"shut", "gone"} /\ ts = 0
        /\ s2.st = "gone" /\ s2.test = s.test /\ s2.in = s.in /\ ts2 = 0
        /\ tc2 = IF c.st = "gone" THEN 0 ELSE tc
    BY <1>6, ServerEndEffect
  <2> HIDE DEF c, s, ts, tc, c2, s2, ts2, tc2
  <2>2. WorldFirst(c2, s2, ts2, tc2)
    BY <1>1, <1>2, <1>3, <2>1, SMTT(30) DEF WorldFirst, EndOf, Flight
  <2> QED
    BY <2>1, <2>2 DEF c2, s2, ts2, tc2
<1>7. CASE ClientEnds(p, IF app = "iocp" /\ c.test = 2 THEN 0 ELSE c.test)
  <2>1. ClientEnds(p, c.test)
    BY <1>7
  <2>2. /\ Kept(p) /\ tlen' = tlen /\ s2 = s
        /\ \/ c.st = "shut"
           \/ c.st = "open" /\ s.st \in {"shut", "gone"} /\ tc = 0
        /\ c2.st = "gone" /\ c2.test = c.test /\ c2.in = c.in
        /\ tc2 = 0 /\ ts2 = IF s.st = "gone" THEN 0 ELSE ts
    BY <1>2, <2>1, ClientEndEffect
  <2> HIDE DEF c, s, ts, tc, c2, s2, ts2, tc2
  <2>3. WorldFirst(c2, s2, ts2, tc2)
    BY <1>1, <1>2, <1>3, <2>2, SMTT(30) DEF WorldFirst, EndOf, Flight
  <2> QED
    BY <2>2, <2>3 DEF c2, s2, ts2, tc2
<1>8. ASSUME NEW k, ServerReads(p, k)
      PROVE  Kept(p) /\ tlen' = tlen /\ WorldFirst(c2, s2, ts2, tc2)
  <2>1. s.st = "open" /\ k \in 1..ts
    BY <1>8 DEF ServerReads
  <2>2. s.test = 3
    BY <1>1, <1>3, <2>1, SMTT(30) DEF WorldFirst, EndOf, Flight
  <2>3. /\ Kept(p) /\ tlen' = tlen /\ c2 = c
        /\ s2.in = s.in + k /\ ts2 = ts - k
        /\ tc2 = IF c.st = "gone" THEN 0 ELSE tc
        /\ IF s.in + k >= Pieces THEN s2.st = "shut" /\ s2.test = 0
           ELSE s2.st = "open" /\ s2.test = 3
    BY <1>8, <2>2, WorldServerEffect
  <2> HIDE DEF c, s, ts, tc, c2, s2, ts2, tc2
  <2>4. WorldFirst(c2, s2, ts2, tc2)
    BY <1>1, <1>2, <1>3, <2>1, <2>3, SMTT(30) DEF WorldFirst, EndOf, Flight
  <2> QED
    BY <2>3, <2>4
<1>9. ASSUME NEW k, ClientReads(p, k)
      PROVE  Kept(p) /\ tlen' = tlen /\ WorldFirst(c2, s2, ts2, tc2)
  <2>1. c.st = "open" /\ k \in 1..tc
    BY <1>9 DEF ClientReads
  <2>2. c.test = 3
    BY <1>1, <1>3, <2>1, SMTT(30) DEF WorldFirst, EndOf, Flight
  <2>3. /\ Kept(p) /\ tlen' = tlen /\ s2 = s
        /\ c2.st = "open" /\ c2.in = c.in + k /\ tc2 = tc - k
        /\ IF c.in + k >= Pieces
             THEN c2.test = 0 /\ ts2 = IF s.st = "gone" THEN 0 ELSE ts + Pieces
           ELSE c2.test = 3 /\ ts2 = IF s.st = "gone" THEN 0 ELSE ts
    BY <1>9, <2>2, WorldClientEffect
  <2> HIDE DEF c, s, ts, tc, c2, s2, ts2, tc2
  <2>5. /\ s.st = "open" /\ s.test = 3 /\ s.in = 0
        /\ c.in + tc = Pieces /\ ts = 0
    BY <1>1, <1>3, <2>1, <2>2 DEF WorldFirst, EndOf, Flight
  <2>6. s2.st = "open" /\ s2.test = 3 /\ s2.in = 0 /\ k \in Nat /\ k <= tc
    BY <1>1, <2>1, <2>3, <2>5
  <2>7. CASE c.in + k >= Pieces
    <3>1. /\ c2.st = "open" /\ c2.test = 0 /\ c2.in = Pieces
          /\ ts2 = Pieces /\ tc2 = 0
      BY <1>1, <1>2, <2>3, <2>5, <2>6, <2>7
    <3>2. WorldFirst(c2, s2, ts2, tc2)
      BY <1>1, <2>6, <3>1 DEF WorldFirst, EndOf
    <3> QED
      BY <2>3, <3>2
  <2>8. CASE ~(c.in + k >= Pieces)
    <3>1. /\ c2.st = "open" /\ c2.test = 3 /\ c2.in = c.in + k
          /\ ts2 = 0 /\ tc2 = tc - k
      BY <1>1, <1>2, <2>3, <2>5, <2>8
    <3>2. c2.in + tc2 = Pieces /\ tc2 > 0
      BY <1>1, <1>2, <2>5, <2>6, <2>8, <3>1
    <3>3. WorldFirst(c2, s2, ts2, tc2)
      BY <2>6, <3>1, <3>2 DEF WorldFirst, EndOf
    <3> QED
      BY <2>3, <3>3
  <2> QED
    BY <2>3, <2>7, <2>8
<1> QED
  BY <1>4, <1>5, <1>6, <1>7, <1>8, <1>9, StepCases

\* A pair of the poll test stays one.
LEMMA PolledKept ==
  ASSUME EchoTypes, EchoAssumption, NEW p \in Pairs, EchoStep(p), app = "poll",
         PollTest(cli[p], srv[p], toS[p], toC[p])
  PROVE  Kept(p) /\ tlen' = tlen /\ PollTest(cli'[p], srv'[p], toS'[p], toC'[p])
<1> DEFINE c == cli[p]
           s == srv[p]
           ts == toS[p]
           tc == toC[p]
           c2 == cli'[p]
           s2 == srv'[p]
           ts2 == toS'[p]
           tc2 == toC'[p]
<1>1. c \in EndSet /\ s \in EndSet /\ ts \in Nat /\ tc \in Nat /\ Pieces \in Nat /\ Pieces > 0
  BY PairTypes, EchoAssumption
<1>2. c.in \in Nat /\ s.in \in Nat /\ c.test \in Nat
  BY <1>1 DEF EndSet
<1>3. PollTest(c, s, ts, tc)
  OBVIOUS
<1>4. ~ s_on_loop(p)
  BY DEF s_on_loop
<1>5. CASE Accepted(p, IF app = "io_t" /\ s.test = 3 THEN Pieces ELSE 0)
  <2>1. Accepted(p, 0)
    BY <1>5
  <2>2. /\ Kept(p) /\ tlen' = tlen /\ s.st = "backlog" /\ c2 = c
        /\ s2.st = "open" /\ s2.test = s.test /\ s2.in = s.in /\ ts2 = ts
        /\ tc2 = IF c.st = "gone" THEN 0 ELSE tc + 0
    BY <1>1, <2>1, AcceptEffect
  <2> HIDE DEF c, s, ts, tc, c2, s2, ts2, tc2
  <2>3. PollTest(c2, s2, ts2, tc2)
    BY <1>1, <1>2, <1>3, <2>2, SMTT(30) DEF PollTest, EndOf, Flight
  <2> QED
    BY <2>2, <2>3 DEF c2, s2, ts2, tc2
<1>6. CASE ServerEnds(p)
  <2>1. /\ Kept(p) /\ tlen' = tlen /\ c2 = c
        /\ \/ s.st = "shut"
           \/ s.st = "open" /\ c.st \in {"shut", "gone"} /\ ts = 0
        /\ s2.st = "gone" /\ s2.test = s.test /\ s2.in = s.in /\ ts2 = 0
        /\ tc2 = IF c.st = "gone" THEN 0 ELSE tc
    BY <1>6, ServerEndEffect
  <2> HIDE DEF c, s, ts, tc, c2, s2, ts2, tc2
  <2>2. PollTest(c2, s2, ts2, tc2)
    BY <1>1, <1>2, <1>3, <2>1, SMTT(30) DEF PollTest, EndOf, Flight
  <2> QED
    BY <2>1, <2>2 DEF c2, s2, ts2, tc2
<1>7. CASE ClientEnds(p, IF app = "iocp" /\ c.test = 2 THEN 0 ELSE c.test)
  <2>1. ClientEnds(p, c.test)
    BY <1>7
  <2>2. /\ Kept(p) /\ tlen' = tlen /\ s2 = s
        /\ \/ c.st = "shut"
           \/ c.st = "open" /\ s.st \in {"shut", "gone"} /\ tc = 0
        /\ c2.st = "gone" /\ c2.test = c.test /\ c2.in = c.in
        /\ tc2 = 0 /\ ts2 = IF s.st = "gone" THEN 0 ELSE ts
    BY <1>2, <2>1, ClientEndEffect
  <2> HIDE DEF c, s, ts, tc, c2, s2, ts2, tc2
  <2>3. PollTest(c2, s2, ts2, tc2)
    BY <1>1, <1>2, <1>3, <2>2, SMTT(30) DEF PollTest, EndOf, Flight
  <2> QED
    BY <2>2, <2>3 DEF c2, s2, ts2, tc2
<1>8. ASSUME NEW k, ServerReads(p, k)
      PROVE  Kept(p) /\ tlen' = tlen /\ PollTest(c2, s2, ts2, tc2)
  <2>1. s.st = "open" /\ k \in 1..ts
    BY <1>8 DEF ServerReads
  <2>2. app = "poll"
    OBVIOUS
  <2>3. /\ Kept(p) /\ tlen' = tlen /\ c2 = c
        /\ s2.st = "open" /\ s2.test = s.test /\ s2.in = s.in + k /\ ts2 = ts - k
        /\ tc2 = IF c.st = "gone" THEN 0
                 ELSE tc + IF s.in + k >= Pieces THEN Pieces ELSE 0
    BY <1>8, <2>2, PollServerEffect
  <2> HIDE DEF c, s, ts, tc, c2, s2, ts2, tc2
  <2>4. PollTest(c2, s2, ts2, tc2)
    BY <1>1, <1>2, <1>3, <2>1, <2>3, SMTT(30) DEF PollTest, EndOf, Flight
  <2> QED
    BY <2>3, <2>4
<1>9. ASSUME NEW k, ClientReads(p, k)
      PROVE  Kept(p) /\ tlen' = tlen /\ PollTest(c2, s2, ts2, tc2)
  <2>1. c.st = "open" /\ k \in 1..tc
    BY <1>9 DEF ClientReads
  <2>2. app = "poll"
    OBVIOUS
  <2>3. /\ Kept(p) /\ tlen' = tlen /\ s2 = s
        /\ c2.test = c.test /\ c2.in = c.in + k /\ tc2 = tc - k
        /\ ts2 = IF s.st = "gone" THEN 0 ELSE ts
        /\ c2.st = IF k >= Pieces THEN "shut" ELSE "open"
    BY <1>9, <2>2, PollClientEffect
  <2> HIDE DEF c, s, ts, tc, c2, s2, ts2, tc2
  <2>4. PollTest(c2, s2, ts2, tc2)
    BY <1>1, <1>2, <1>3, <2>1, <2>3, SMTT(30) DEF PollTest, EndOf, Flight
  <2> QED
    BY <2>3, <2>4
<1> QED
  BY <1>4, <1>5, <1>6, <1>7, <1>8, <1>9, StepCases

\* A pair that says nothing stays one.
LEMMA SilentKept ==
  ASSUME EchoTypes, EchoAssumption, NEW p \in Pairs, EchoStep(p), app = "io_t",
         Silent(cli[p], srv[p], toS[p], toC[p])
  PROVE  Kept(p) /\ tlen' = tlen /\ Silent(cli'[p], srv'[p], toS'[p], toC'[p])
<1> DEFINE c == cli[p]
           s == srv[p]
           ts == toS[p]
           tc == toC[p]
           c2 == cli'[p]
           s2 == srv'[p]
           ts2 == toS'[p]
           tc2 == toC'[p]
<1>1. c \in EndSet /\ s \in EndSet /\ ts \in Nat /\ tc \in Nat /\ Pieces \in Nat /\ Pieces > 0
  BY PairTypes, EchoAssumption
<1>2. c.in \in Nat /\ s.in \in Nat /\ c.test \in Nat
  BY <1>1 DEF EndSet
<1>3. Silent(c, s, ts, tc)
  OBVIOUS
<1>4. CASE s_on_loop(p)
  <2> DEFINE f == [srv[p] EXCEPT !.st = "shut"]
             d == [f EXCEPT !.test = 0]
  <2>1. f \in EndSet /\ f.st = "shut"
    BY <1>1, SetSt
  <2>2. s.st = "open" /\ srv' = [srv EXCEPT ![p] = IF tick' = 0 THEN d ELSE @]
        /\ app' = app /\ cli' = cli /\ toS' = toS /\ toC' = toC /\ tlen' = tlen /\ over' = over
    BY <1>4 DEF s_on_loop, Shut, net
  <2> HIDE DEF f
  <2>3. d \in EndSet /\ d.st = "shut" /\ d.test = 0
    BY <2>1, SetTest
  <2> HIDE DEF d
  <2>4. /\ cli \in [Pairs -> EndSet] /\ srv \in [Pairs -> EndSet]
        /\ toS \in [Pairs -> Nat] /\ toC \in [Pairs -> Nat]
    BY DEF EchoTypes
  <2>5. /\ srv' \in [Pairs -> EndSet] /\ s2.st \in {"open", "shut"} /\ (s2.test = s.test \/ s2.test = 0)
        /\ \A q \in Pairs \ {p} : srv'[q] = srv[q]
    BY <1>1, <2>2, <2>3, <2>4
  <2>6. Kept(p) /\ tlen' = tlen
    BY <2>2, <2>4, <2>5 DEF Kept
  <2>7. c2 = c /\ ts2 = ts /\ tc2 = tc
    BY <2>2
  <2> HIDE DEF c, s, ts, tc, c2, s2, ts2, tc2
  <2>8. Silent(c2, s2, ts2, tc2)
    BY <1>3, <2>2, <2>5, <2>7 DEF Silent, Flight
  <2> QED
    BY <2>6, <2>8 DEF c2, s2, ts2, tc2
<1>5. CASE Accepted(p, IF app = "io_t" /\ s.test = 3 THEN Pieces ELSE 0)
  <2>1. Accepted(p, 0)
    BY <1>3, <1>5 DEF Silent
  <2>2. /\ Kept(p) /\ tlen' = tlen /\ s.st = "backlog" /\ c2 = c
        /\ s2.st = "open" /\ s2.test = s.test /\ s2.in = s.in /\ ts2 = ts
        /\ tc2 = IF c.st = "gone" THEN 0 ELSE tc + 0
    BY <1>1, <2>1, AcceptEffect
  <2> HIDE DEF c, s, ts, tc, c2, s2, ts2, tc2
  <2>3. Silent(c2, s2, ts2, tc2)
    BY <1>1, <1>2, <1>3, <2>2 DEF Silent, Flight
  <2> QED
    BY <2>2, <2>3 DEF c2, s2, ts2, tc2
<1>6. CASE ServerEnds(p)
  <2>1. /\ Kept(p) /\ tlen' = tlen /\ c2 = c
        /\ \/ s.st = "shut"
           \/ s.st = "open" /\ c.st \in {"shut", "gone"} /\ ts = 0
        /\ s2.st = "gone" /\ s2.test = s.test /\ s2.in = s.in /\ ts2 = 0
        /\ tc2 = IF c.st = "gone" THEN 0 ELSE tc
    BY <1>6, ServerEndEffect
  <2> HIDE DEF c, s, ts, tc, c2, s2, ts2, tc2
  <2>2. Silent(c2, s2, ts2, tc2)
    BY <1>1, <1>2, <1>3, <2>1 DEF Silent, Flight
  <2> QED
    BY <2>1, <2>2 DEF c2, s2, ts2, tc2
<1>7. CASE ClientEnds(p, IF app = "iocp" /\ c.test = 2 THEN 0 ELSE c.test)
  <2>1. ClientEnds(p, c.test)
    BY <1>7
  <2>2. /\ Kept(p) /\ tlen' = tlen /\ s2 = s
        /\ \/ c.st = "shut"
           \/ c.st = "open" /\ s.st \in {"shut", "gone"} /\ tc = 0
        /\ c2.st = "gone" /\ c2.test = c.test /\ c2.in = c.in
        /\ tc2 = 0 /\ ts2 = IF s.st = "gone" THEN 0 ELSE ts
    BY <1>2, <2>1, ClientEndEffect
  <2> HIDE DEF c, s, ts, tc, c2, s2, ts2, tc2
  <2>3. Silent(c2, s2, ts2, tc2)
    BY <1>1, <1>2, <1>3, <2>2 DEF Silent, Flight
  <2> QED
    BY <2>2, <2>3 DEF c2, s2, ts2, tc2
<1>8. ASSUME NEW k, ServerReads(p, k)
      PROVE  Kept(p) /\ tlen' = tlen /\ Silent(c2, s2, ts2, tc2)
  <2>1. s.st = "open" /\ k \in 1..ts
    BY <1>8 DEF ServerReads
  <2>2. ts = 0
    BY <1>3 DEF Silent, Flight
  <2> QED
    BY <2>1, <2>2
<1>9. ASSUME NEW k, ClientReads(p, k)
      PROVE  Kept(p) /\ tlen' = tlen /\ Silent(c2, s2, ts2, tc2)
  <2>1. c.st = "open" /\ k \in 1..tc
    BY <1>9 DEF ClientReads
  <2>2. tc = 0
    BY <1>3 DEF Silent, Flight
  <2> QED
    BY <2>1, <2>2
<1> QED
  BY <1>4, <1>5, <1>6, <1>7, <1>8, <1>9, StepCases

\* The server's read of the test in which the two ends write a character in turn.
LEMMA TurnServerEffect ==
  ASSUME EchoTypes, EchoAssumption, NEW p \in Pairs, NEW k, ServerReads(p, k),
         app = "iocp", srv[p].test = 3, srv[p].left > 0
  PROVE  /\ Kept(p) /\ tlen' = tlen /\ cli' = cli
         /\ srv[p].st = "open" /\ k \in 1..toS[p]
         /\ srv'[p].st = "open" /\ srv'[p].in = srv[p].in + k
         /\ srv'[p].left = srv[p].left - 1
         /\ srv'[p].test = IF srv[p].in + k >= Pieces THEN 0 ELSE 3
         /\ toS'[p] = toS[p] - k
         /\ toC'[p] = IF cli[p].st = "gone" THEN 0 ELSE toC[p] + 1
<1> DEFINE e == [srv[p] EXCEPT !.in = srv[p].in + k]
           l == IF e.left > 0 THEN e.left - 1 ELSE 0
           f == [e EXCEPT !.left = l]
           t == IF e.in >= Pieces THEN 0 ELSE 3
           d == [f EXCEPT !.test = t]
<1>1. srv[p] \in EndSet /\ toS[p] \in Nat /\ toC[p] \in Nat
  BY PairTypes
<1>2. srv[p].st = "open" /\ k \in 1..toS[p] /\ s_on_data(p, k)
  BY DEF ServerReads
<1>4. k \in Nat
  BY <1>1, <1>2
<1>5. /\ e \in EndSet /\ e.st = srv[p].st /\ e.in = srv[p].in + k /\ e.test = srv[p].test
      /\ e.left = srv[p].left /\ srv[p].left \in Nat
  BY <1>1, <1>4, Collects
<1>6. writelchr(e) = f
  BY DEF writelchr
<1>7. tlen' = tlen /\ ServerMoves(p, k, d, Writes(e))
  <2>1. [writelchr(e) EXCEPT !.test = IF Whole(e) THEN 0 ELSE 3] = d
    BY <1>6 DEF Whole
  <2>2. tlen' = tlen /\ ServerMoves(p, k, [writelchr(e) EXCEPT !.test = IF Whole(e) THEN 0 ELSE 3], Writes(e))
    <3> HIDE DEF d, f, l, t
    <3>1. e.test = 3
      BY <1>5
    <3> QED
      BY <1>2, <3>1 DEF s_on_data, e
  <2> QED
    BY <2>1, <2>2
<1> HIDE DEF e
<1>8. Writes(e) = 1 /\ l \in Nat /\ l = srv[p].left - 1
  BY <1>5 DEF Writes
<1> HIDE DEF l
<1>9. f \in EndSet /\ f.st = e.st /\ f.in = e.in /\ f.left = l
  BY <1>5, <1>8, SetLeft
<1>10. t \in Nat
  OBVIOUS
<1> HIDE DEF f
<1>11. t = IF srv[p].in + k >= Pieces THEN 0 ELSE 3
  BY <1>5
<1> HIDE DEF t
<1>12. d \in EndSet /\ d.st = e.st /\ d.in = e.in /\ d.left = l /\ d.test = t
  BY <1>9, <1>10, SetTest
<1> HIDE DEF d
<1>13. ServerMoves(p, k, d, 1)
  BY <1>7, <1>8
<1>14. /\ Kept(p) /\ cli' = cli /\ srv'[p] = d /\ toS'[p] = toS[p] - k
       /\ toC'[p] = IF cli[p].st = "gone" THEN 0 ELSE toC[p] + 1
  BY <1>2, <1>12, <1>13, ServerRead
<1> QED
  BY <1>2, <1>5, <1>7, <1>8, <1>11, <1>12, <1>14

\* The client's read of that test.
LEMMA TurnClientEffect ==
  ASSUME EchoTypes, EchoAssumption, NEW p \in Pairs, NEW k, ClientReads(p, k),
         app = "iocp", cli[p].test = 3
  PROVE  /\ Kept(p) /\ tlen' = tlen /\ srv' = srv
         /\ cli[p].st = "open" /\ k \in 1..toC[p]
         /\ cli'[p].in = cli[p].in + k /\ toC'[p] = toC[p] - k
         /\ toS'[p] = IF srv[p].st = "gone" THEN 0
                      ELSE toS[p] + IF cli[p].left > 0 THEN 1 ELSE 0
         /\ IF cli[p].in + k >= Pieces THEN cli'[p].st = "gone" /\ cli'[p].test = 0
            ELSE /\ cli'[p].st = "open" /\ cli'[p].test = 3
                 /\ cli'[p].left = IF cli[p].left > 0 THEN cli[p].left - 1 ELSE 0
<1> DEFINE e == [cli[p] EXCEPT !.in = cli[p].in + k]
           l == IF e.left > 0 THEN e.left - 1 ELSE 0
           f == [e EXCEPT !.left = l]
           g == [e EXCEPT !.st = "gone"]
           d == [g EXCEPT !.test = 0]
           w == IF e.left > 0 THEN 1 ELSE 0
<1>1. cli[p] \in EndSet /\ toS[p] \in Nat /\ toC[p] \in Nat
  BY PairTypes
<1>2. cli[p].st = "open" /\ k \in 1..toC[p] /\ c_on_data(p, k)
  BY DEF ClientReads
<1>4. k \in Nat
  BY <1>1, <1>2
<1>5. /\ e \in EndSet /\ e.st = cli[p].st /\ e.in = cli[p].in + k /\ e.test = cli[p].test
      /\ e.left = cli[p].left /\ cli[p].left \in Nat
  BY <1>1, <1>4, Collects
<1>6. writelchr(e) = f /\ Writes(e) = w
  BY DEF writelchr, Writes
<1>7. IF e.in >= Pieces THEN ClientMoves(p, k, d, w) ELSE ClientMoves(p, k, f, w)
  <2>1. ClientMoves(p, k, IF Whole(e) THEN d ELSE writelchr(e), Writes(e))
    <3> HIDE DEF f, l, w
    <3>1. e.test = 3
      BY <1>5
    <3> QED
      BY <1>2, <3>1 DEF c_on_data, e
  <2> QED
    BY <1>6, <2>1 DEF Whole
<1> HIDE DEF e
<1>8. w \in Nat /\ l \in Nat
  BY <1>5
<1>9. w = (IF cli[p].left > 0 THEN 1 ELSE 0) /\ l = IF cli[p].left > 0 THEN cli[p].left - 1 ELSE 0
  BY <1>5
<1> HIDE DEF l, w
<1>10. f \in EndSet /\ f.st = e.st /\ f.in = e.in /\ f.test = e.test /\ f.left = l
  BY <1>5, <1>8, SetLeft
<1> HIDE DEF f
<1>11. g \in EndSet /\ g.st = "gone" /\ g.in = e.in
  BY <1>5, SetSt
<1> HIDE DEF g
<1>12. d \in EndSet /\ d.st = "gone" /\ d.in = e.in /\ d.test = 0
  BY <1>11, SetTest
<1> HIDE DEF d
<1>13. CASE cli[p].in + k >= Pieces
  <2>1. ClientMoves(p, k, d, w)
    BY <1>5, <1>7, <1>13
  <2> QED
    BY <1>2, <1>5, <1>8, <1>9, <1>12, <1>13, <2>1, ClientRead
<1>14. CASE ~(cli[p].in + k >= Pieces)
  <2>1. ClientMoves(p, k, f, w)
    BY <1>5, <1>7, <1>14
  <2> QED
    BY <1>2, <1>5, <1>8, <1>9, <1>10, <1>14, <2>1, ClientRead
<1> QED
  BY <1>13, <1>14

\* The server's read of the payload: the total is kept in one counter.
LEMMA TotalServerEffect ==
  ASSUME EchoTypes, NEW p \in Pairs, NEW k, ServerReads(p, k),
         app = "iocp", srv[p].test = 4
  PROVE  /\ Kept(p) /\ tlen' = tlen + k /\ cli' = cli
         /\ srv[p].st = "open" /\ k \in 1..toS[p]
         /\ srv'[p].in = srv[p].in + k /\ toS'[p] = toS[p] - k
         /\ toC'[p] = IF cli[p].st = "gone" THEN 0 ELSE toC[p]
         /\ IF tlen + k = Pieces THEN srv'[p].st = "gone"
            ELSE srv'[p].st = "open" /\ srv'[p].test = 4
<1> DEFINE e == [srv[p] EXCEPT !.in = srv[p].in + k]
           f == [e EXCEPT !.st = "gone"]
           d == [f EXCEPT !.test = 0]
<1>1. srv[p] \in EndSet /\ toS[p] \in Nat /\ toC[p] \in Nat
  BY PairTypes
<1>2. srv[p].st = "open" /\ k \in 1..toS[p] /\ s_on_data(p, k)
  BY DEF ServerReads
<1>4. k \in Nat
  BY <1>1, <1>2
<1>5. e \in EndSet /\ e.st = srv[p].st /\ e.in = srv[p].in + k /\ e.test = srv[p].test
  BY <1>1, <1>4, Collects
<1>6. /\ IF tlen + k = Pieces THEN ServerMoves(p, k, d, 0) ELSE ServerMoves(p, k, e, 0)
      /\ tlen' = tlen + k
  <2>1. e.test = 4
    BY <1>5
  <2> QED
    BY <1>2, <2>1 DEF s_on_data
<1> HIDE DEF e
<1>7. f \in EndSet /\ f.st = "gone" /\ f.in = e.in
  BY <1>5, SetSt
<1> HIDE DEF f
<1>8. d \in EndSet /\ d.st = "gone" /\ d.in = e.in
  BY <1>7, SetTest
<1> HIDE DEF d
<1>9. CASE tlen + k = Pieces
  <2>1. ServerMoves(p, k, d, 0)
    BY <1>6, <1>9
  <2> QED
    BY <1>1, <1>2, <1>5, <1>6, <1>8, <1>9, <2>1, ServerRead
<1>10. CASE tlen + k # Pieces
  <2>1. ServerMoves(p, k, e, 0)
    BY <1>6, <1>10
  <2> QED
    BY <1>1, <1>2, <1>5, <1>6, <1>10, <2>1, ServerRead
<1> QED
  BY <1>9, <1>10

\* A pair that writes in turn stays one.
LEMMA InTurnKept ==
  ASSUME EchoTypes, EchoAssumption, NEW p \in Pairs, EchoStep(p), app = "iocp",
         InTurn(cli[p], srv[p], toS[p], toC[p])
  PROVE  Kept(p) /\ tlen' = tlen /\ InTurn(cli'[p], srv'[p], toS'[p], toC'[p])
<1> DEFINE c == cli[p]
           s == srv[p]
           ts == toS[p]
           tc == toC[p]
           c2 == cli'[p]
           s2 == srv'[p]
           ts2 == toS'[p]
           tc2 == toC'[p]
<1>1. c \in EndSet /\ s \in EndSet /\ ts \in Nat /\ tc \in Nat /\ Pieces \in Nat /\ Pieces > 0
  BY PairTypes, EchoAssumption
<1>2. c.in \in Nat /\ s.in \in Nat /\ c.test \in Nat /\ c.left \in Nat /\ s.left \in Nat
  BY <1>1 DEF EndSet
<1>3. InTurn(c, s, ts, tc)
  OBVIOUS
<1>4. ~ s_on_loop(p)
  BY DEF s_on_loop
<1>5. CASE Accepted(p, IF app = "io_t" /\ s.test = 3 THEN Pieces ELSE 0)
  <2>1. Accepted(p, 0)
    BY <1>5
  <2>2. /\ Kept(p) /\ tlen' = tlen /\ s.st = "backlog" /\ c2 = c
        /\ s2.st = "open" /\ s2.test = s.test /\ s2.in = s.in /\ s2.left = s.left
        /\ ts2 = ts /\ tc2 = IF c.st = "gone" THEN 0 ELSE tc + 0
    BY <1>1, <2>1, AcceptEffect
  <2> HIDE DEF c, s, ts, tc, c2, s2, ts2, tc2
  <2>3. InTurn(c2, s2, ts2, tc2)
    BY <1>1, <1>2, <1>3, <2>2, SMTT(30) DEF InTurn, EndOf, Flight
  <2> QED
    BY <2>2, <2>3 DEF c2, s2, ts2, tc2
<1>6. CASE ServerEnds(p)
  <2>1. /\ Kept(p) /\ tlen' = tlen /\ c2 = c
        /\ \/ s.st = "shut"
           \/ s.st = "open" /\ c.st \in {"shut", "gone"} /\ ts = 0
        /\ s2.st = "gone" /\ s2.test = s.test /\ s2.in = s.in /\ ts2 = 0
        /\ tc2 = IF c.st = "gone" THEN 0 ELSE tc
    BY <1>6, ServerEndEffect
  <2> HIDE DEF c, s, ts, tc, c2, s2, ts2, tc2
  <2>2. InTurn(c2, s2, ts2, tc2)
    BY <1>1, <1>2, <1>3, <2>1, SMTT(30) DEF InTurn, EndOf, Flight
  <2> QED
    BY <2>1, <2>2 DEF c2, s2, ts2, tc2
<1>7. CASE ClientEnds(p, IF app = "iocp" /\ c.test = 2 THEN 0 ELSE c.test)
  <2>1. \/ c.st = "shut"
        \/ c.st = "open" /\ s.st \in {"shut", "gone"} /\ tc = 0
    BY <1>7 DEF ClientEnds
  <2> HIDE DEF c, s, ts, tc
  <2>2. FALSE
    BY <1>3, <2>1, SMTT(30) DEF InTurn, EndOf, Flight
  <2> QED
    BY <2>2
<1>8. ASSUME NEW k, ServerReads(p, k)
      PROVE  Kept(p) /\ tlen' = tlen /\ InTurn(c2, s2, ts2, tc2)
  <2>1. s.st = "open" /\ k \in 1..ts
    BY <1>8 DEF ServerReads
  <2>2. s.test = 3 /\ s.left > 0
    BY <1>1, <1>2, <1>3, <2>1, SMTT(30) DEF InTurn, EndOf, Flight
  <2>3. /\ Kept(p) /\ tlen' = tlen /\ c2 = c
        /\ s2.st = "open" /\ s2.in = s.in + k
        /\ s2.left = s.left - 1
        /\ s2.test = IF s.in + k >= Pieces THEN 0 ELSE 3
        /\ ts2 = ts - k
        /\ tc2 = IF c.st = "gone" THEN 0 ELSE tc + 1
    BY <1>8, <2>2, TurnServerEffect
  <2> HIDE DEF c, s, ts, tc, c2, s2, ts2, tc2
  <2>4. k = 1 /\ ts = 1 /\ tc = 0
    BY <1>1, <1>3, <2>1, SMTT(30) DEF InTurn, Flight
  <2>5. InTurn(c2, s2, ts2, tc2)
    BY <1>1, <1>2, <1>3, <2>1, <2>3, <2>4, SMTT(30) DEF InTurn, EndOf, Flight
  <2> QED
    BY <2>3, <2>5
<1>9. ASSUME NEW k, ClientReads(p, k)
      PROVE  Kept(p) /\ tlen' = tlen /\ InTurn(c2, s2, ts2, tc2)
  <2>1. c.st = "open" /\ k \in 1..tc
    BY <1>9 DEF ClientReads
  <2>2. c.test = 3
    BY <1>1, <1>3, <2>1, SMTT(30) DEF InTurn, EndOf, Flight
  <2>3. /\ Kept(p) /\ tlen' = tlen /\ s2 = s
        /\ c2.in = c.in + k /\ tc2 = tc - k
        /\ ts2 = IF s.st = "gone" THEN 0 ELSE ts + IF c.left > 0 THEN 1 ELSE 0
        /\ IF c.in + k >= Pieces THEN c2.st = "gone" /\ c2.test = 0
           ELSE /\ c2.st = "open" /\ c2.test = 3
                /\ c2.left = IF c.left > 0 THEN c.left - 1 ELSE 0
    BY <1>9, <2>2, TurnClientEffect
  <2> HIDE DEF c, s, ts, tc, c2, s2, ts2, tc2
  <2>4. k = 1 /\ ts = 0 /\ tc = 1
    BY <1>1, <1>3, <2>1, SMTT(30) DEF InTurn, Flight
  <2>5. InTurn(c2, s2, ts2, tc2)
    BY <1>1, <1>2, <1>3, <2>1, <2>3, <2>4, SMTT(30) DEF InTurn, EndOf, Flight
  <2> QED
    BY <2>3, <2>5
<1> QED
  BY <1>4, <1>5, <1>6, <1>7, <1>8, <1>9, StepCases

\* How a step of the pair p changes the total.
Counted(p) ==
  \/ tlen' = tlen /\ srv'[p].in = srv[p].in /\ (srv'[p].st = "gone" <=> srv[p].st = "gone")
  \/ \E k \in Nat \ {0} :
       /\ srv[p].st = "open" /\ tlen' = tlen + k /\ srv'[p].in = srv[p].in + k
       /\ srv'[p].st = "gone" <=> tlen + k = Pieces

\* A pair whose payload goes one way stays one.
LEMMA OneWayKept ==
  ASSUME EchoTypes, EchoAssumption, NEW p \in Pairs, EchoStep(p), app = "iocp",
         OneWay(cli[p], srv[p], toS[p], toC[p], tlen)
  PROVE  Kept(p) /\ Counted(p) /\ OneWay(cli'[p], srv'[p], toS'[p], toC'[p], tlen')
<1> DEFINE c == cli[p]
           s == srv[p]
           ts == toS[p]
           tc == toC[p]
           c2 == cli'[p]
           s2 == srv'[p]
           ts2 == toS'[p]
           tc2 == toC'[p]
           n == tlen
           n2 == tlen'
<1>1. c \in EndSet /\ s \in EndSet /\ ts \in Nat /\ tc \in Nat /\ Pieces \in Nat /\ Pieces > 0
  BY PairTypes, EchoAssumption
<1>2. c.in \in Nat /\ s.in \in Nat /\ c.test \in Nat /\ n \in Nat
  BY <1>1 DEF EndSet, EchoTypes
<1>3. OneWay(c, s, ts, tc, n)
  OBVIOUS
<1>4. ~ s_on_loop(p)
  BY DEF s_on_loop
<1>5. CASE Accepted(p, IF app = "io_t" /\ s.test = 3 THEN Pieces ELSE 0)
  <2>1. Accepted(p, 0)
    BY <1>5
  <2>2. /\ Kept(p) /\ n2 = n /\ s.st = "backlog" /\ c2 = c
        /\ s2.st = "open" /\ s2.test = s.test /\ s2.in = s.in
        /\ ts2 = ts /\ tc2 = IF c.st = "gone" THEN 0 ELSE tc + 0
    BY <1>1, <2>1, AcceptEffect
  <2>3. Counted(p)
    BY <2>2 DEF Counted
  <2> HIDE DEF c, s, ts, tc, c2, s2, ts2, tc2, n, n2
  <2>4. OneWay(c2, s2, ts2, tc2, n2)
    BY <1>1, <1>2, <1>3, <2>2, SMTT(30) DEF OneWay
  <2> QED
    BY <2>2, <2>3, <2>4 DEF c2, s2, ts2, tc2, n2
<1>6. CASE ServerEnds(p)
  <2>1. \/ s.st = "shut"
        \/ s.st = "open" /\ c.st \in {"shut", "gone"} /\ ts = 0
    BY <1>6 DEF ServerEnds
  <2> HIDE DEF c, s, ts, tc, n
  <2>2. FALSE
    BY <1>3, <2>1, SMTT(30) DEF OneWay
  <2> QED
    BY <2>2
<1>7. CASE ClientEnds(p, IF app = "iocp" /\ c.test = 2 THEN 0 ELSE c.test)
  <2>0. c.test = 4
    BY <1>3, SMTT(30) DEF OneWay
  <2>1. ClientEnds(p, 4)
    BY <1>7, <2>0
  <2>2. /\ Kept(p) /\ n2 = n /\ s2 = s
        /\ \/ c.st = "shut"
           \/ c.st = "open" /\ s.st \in {"shut", "gone"} /\ tc = 0
        /\ c2.st = "gone" /\ c2.test = 4 /\ c2.in = c.in
        /\ tc2 = 0 /\ ts2 = IF s.st = "gone" THEN 0 ELSE ts
    BY <2>1, ClientEndEffect
  <2>3. Counted(p)
    BY <2>2 DEF Counted
  <2> HIDE DEF c, s, ts, tc, c2, s2, ts2, tc2, n, n2
  <2>4. OneWay(c2, s2, ts2, tc2, n2)
    BY <1>1, <1>2, <1>3, <2>2, SMTT(30) DEF OneWay
  <2> QED
    BY <2>2, <2>3, <2>4 DEF c2, s2, ts2, tc2, n2
<1>8. ASSUME NEW k, ServerReads(p, k)
      PROVE  Kept(p) /\ Counted(p) /\ OneWay(c2, s2, ts2, tc2, n2)
  <2>1. s.st = "open" /\ k \in 1..ts
    BY <1>8 DEF ServerReads
  <2>2. s.test = 4
    BY <1>1, <1>3, <2>1, SMTT(30) DEF OneWay
  <2>3. /\ Kept(p) /\ n2 = n + k /\ c2 = c
        /\ s2.in = s.in + k /\ ts2 = ts - k
        /\ tc2 = IF c.st = "gone" THEN 0 ELSE tc
        /\ IF n + k = Pieces THEN s2.st = "gone" ELSE s2.st = "open" /\ s2.test = 4
    BY <1>8, <2>2, TotalServerEffect
  <2>4. k \in Nat \ {0}
    BY <1>1, <2>1
  <2>5. s2.st = "gone" <=> n + k = Pieces
    BY <2>3
  <2>6. Counted(p)
    BY <2>1, <2>3, <2>4, <2>5 DEF Counted
  <2> HIDE DEF c, s, ts, tc, c2, s2, ts2, tc2, n, n2
  <2>7. OneWay(c2, s2, ts2, tc2, n2)
    BY <1>1, <1>2, <1>3, <2>1, <2>3, <2>4, SMTT(30) DEF OneWay
  <2> QED
    BY <2>3, <2>6, <2>7
<1>9. ASSUME NEW k, ClientReads(p, k) PROVE FALSE
  <2>1. k \in 1..tc
    BY <1>9 DEF ClientReads
  <2>2. tc = 0
    BY <1>3, SMTT(30) DEF OneWay
  <2> QED
    BY <2>1, <2>2
<1> QED
  BY <1>4, <1>5, <1>6, <1>7, <1>8, <1>9, StepCases

-----------------------------------------------------------------------------
\* A step of a pair keeps what is known of it, in whatever test.
LEMMA PairKept ==
  ASSUME EchoTypes, EchoAssumption, NEW p \in Pairs, EchoStep(p), NEW t, PairInv(t, p)
  PROVE  /\ Kept(p) /\ PairInv(t, p)'
         /\ tlen' = tlen \/ Counted(p)
         /\ app = "iocp" /\ t = 4 => Counted(p)
<1>1. CASE ((app = "io_t" /\ t = 1) \/ (app = "iocp" /\ t \in {1, 2}))
           /\ HelloFirst(t, cli[p], srv[p], toS[p], toC[p])
  <2>1. (app = "io_t" /\ t = 1) \/ (app = "iocp" /\ (t = 1 \/ t = 2))
    BY <1>1
  <2>2. /\ Kept(p) /\ tlen' = tlen
        /\ HelloFirst(t, cli'[p], srv'[p], toS'[p], toC'[p])
    BY <1>1, <2>1, HelloFirstKept, Zenon
  <2>3. PairInv(t, p)'
    BY <2>1, <2>2 DEF PairInv, Kept
  <2> QED
    BY <2>1, <2>2, <2>3
<1>2. CASE app = "io_t" /\ t = 2 /\ Silent(cli[p], srv[p], toS[p], toC[p])
  <2>1. /\ Kept(p) /\ tlen' = tlen
        /\ Silent(cli'[p], srv'[p], toS'[p], toC'[p])
    BY <1>2, SilentKept, Zenon
  <2>2. PairInv(t, p)'
    BY <1>2, <2>1 DEF PairInv, Kept
  <2> QED
    BY <1>2, <2>1, <2>2
<1>3. CASE app = "io_t" /\ t = 3 /\ WorldFirst(cli[p], srv[p], toS[p], toC[p])
  <2>1. /\ Kept(p) /\ tlen' = tlen
        /\ WorldFirst(cli'[p], srv'[p], toS'[p], toC'[p])
    BY <1>3, WorldFirstKept, Zenon
  <2>2. PairInv(t, p)'
    BY <1>3, <2>1 DEF PairInv, Kept
  <2> QED
    BY <1>3, <2>1, <2>2
<1>4. CASE app = "poll" /\ t = 1 /\ PollTest(cli[p], srv[p], toS[p], toC[p])
  <2>1. /\ Kept(p) /\ tlen' = tlen
        /\ PollTest(cli'[p], srv'[p], toS'[p], toC'[p])
    BY <1>4, PolledKept, Zenon
  <2>2. PairInv(t, p)'
    BY <1>4, <2>1 DEF PairInv, Kept
  <2> QED
    BY <1>4, <2>1, <2>2
<1>5. CASE app = "iocp" /\ t = 3 /\ InTurn(cli[p], srv[p], toS[p], toC[p])
  <2>1. /\ Kept(p) /\ tlen' = tlen
        /\ InTurn(cli'[p], srv'[p], toS'[p], toC'[p])
    BY <1>5, InTurnKept, Zenon
  <2>2. PairInv(t, p)'
    BY <1>5, <2>1 DEF PairInv, Kept
  <2> QED
    BY <1>5, <2>1, <2>2
<1>6. CASE app = "iocp" /\ t = 4 /\ OneWay(cli[p], srv[p], toS[p], toC[p], tlen)
  <2>1. /\ Kept(p) /\ Counted(p)
        /\ OneWay(cli'[p], srv'[p], toS'[p], toC'[p], tlen')
    BY <1>6, OneWayKept, Zenon
  <2>2. PairInv(t, p)'
    BY <1>6, <2>1 DEF PairInv, Kept
  <2> QED
    BY <1>6, <2>1, <2>2
<1>7. \/ ((app = "io_t" /\ t = 1) \/ (app = "iocp" /\ t \in {1, 2}))
           /\ HelloFirst(t, cli[p], srv[p], toS[p], toC[p])
      \/ app = "io_t" /\ t = 2 /\ Silent(cli[p], srv[p], toS[p], toC[p])
      \/ app = "io_t" /\ t = 3 /\ WorldFirst(cli[p], srv[p], toS[p], toC[p])
      \/ app = "poll" /\ t = 1 /\ PollTest(cli[p], srv[p], toS[p], toC[p])
      \/ app = "iocp" /\ t = 3 /\ InTurn(cli[p], srv[p], toS[p], toC[p])
      \/ app = "iocp" /\ t = 4 /\ OneWay(cli[p], srv[p], toS[p], toC[p], tlen)
  <2>1. PairInv(t, p)
    OBVIOUS
  <2> QED
    BY <2>1 DEF PairInv
<1> QED
  BY <1>1, <1>2, <1>3, <1>4, <1>5, <1>6, <1>7

\* No pair comes or goes.
LEMMA PairsKept ==
  ASSUME NEW p, Kept(p)
  PROVE  Pairs' = Pairs
BY DEF Kept, Pairs

\* The total only grows.
LEMMA TotalGrows ==
  ASSUME EchoTypes, NEW p, tlen' = tlen \/ Counted(p)
  PROVE  tlen' \in Nat /\ tlen' >= tlen
BY DEF Counted, EchoTypes

\* A pair that does not move keeps what is known of it.
LEMMA OthersKept ==
  ASSUME EchoTypes, NEW p, Kept(p), NEW q \in Pairs \ {p}, NEW t, PairInv(t, q),
         tlen' \in Nat, tlen' >= tlen, EchoAssumption
  PROVE  PairInv(t, q)'
<1>1. app' = app /\ cli'[q] = cli[q] /\ srv'[q] = srv[q] /\ toS'[q] = toS[q] /\ toC'[q] = toC[q]
  BY DEF Kept
<1>2. OneWay(cli[q], srv[q], toS[q], toC[q], tlen)
        => OneWay(cli[q], srv[q], toS[q], toC[q], tlen')
  BY DEF OneWay, EchoAssumption, EchoTypes
<1> QED
  BY <1>1, <1>2 DEF PairInv

\* The total is shared still.
LEMMA TotalKept ==
  ASSUME EchoTypes, EchoAssumption, NEW p \in Pairs, Kept(p), Counted(p), TotalShared,
         app = "iocp", \A q \in Pairs : PairInv(4, q)
  PROVE  TotalShared'
<1>1. Pairs' = Pairs /\ tlen \in Nat /\ Pieces \in Nat \ {0}
  BY PairsKept DEF EchoTypes, EchoAssumption
<1>2. ASSUME NEW q \in Pairs
      PROVE  srv[q].in \in Nat /\ (srv[q].st = "gone" => tlen >= Pieces)
  <2>1. srv[q] \in EndSet
    BY PairTypes
  <2>2. OneWay(cli[q], srv[q], toS[q], toC[q], tlen)
    BY DEF PairInv
  <2> QED
    BY <2>1, <2>2, SMTT(30) DEF OneWay, EndSet
<1>3. ASSUME NEW q \in Pairs \ {p} PROVE srv'[q] = srv[q]
  BY DEF Kept
<1>4. CASE tlen' = tlen /\ srv'[p].in = srv[p].in /\ (srv'[p].st = "gone" <=> srv[p].st = "gone")
  <2>1. \A q \in Pairs : srv'[q].in = srv[q].in /\ (srv'[q].st = "gone" <=> srv[q].st = "gone")
    BY <1>3, <1>4
  <2>2. \A a, b \in Pairs : srv'[a].st = "gone" /\ srv'[b].st = "gone" => a = b
    BY <2>1, Zenon DEF TotalShared
  <2>3. ASSUME NEW a \in Pairs, Pairs = {a}
        PROVE  /\ tlen' \in {srv'[a].in, srv'[a].in + Pieces}
               /\ srv'[a].st = "gone" => srv'[a].in = Pieces
    <3>1. /\ tlen \in {srv[a].in, srv[a].in + Pieces}
          /\ srv[a].st = "gone" => srv[a].in = Pieces
      BY <2>3, Zenon DEF TotalShared
    <3>2. srv'[a].in = srv[a].in /\ (srv'[a].st = "gone" <=> srv[a].st = "gone")
      BY <2>1
    <3> QED
      BY <1>4, <3>1, <3>2
  <2> QED
    BY <1>1, <2>2, <2>3 DEF TotalShared
<1>5. ASSUME NEW k \in Nat \ {0},
             srv[p].st = "open", tlen' = tlen + k, srv'[p].in = srv[p].in + k,
             srv'[p].st = "gone" <=> tlen + k = Pieces
      PROVE  TotalShared'
  <2>1. ASSUME NEW q \in Pairs \ {p}, srv'[p].st = "gone" PROVE srv'[q].st # "gone"
    <3>1. tlen < Pieces
      BY <1>1, <1>5, <2>1
    <3>2. srv[q].st = "gone" => tlen >= Pieces
      BY <1>2
    <3> QED
      BY <1>1, <1>3, <3>1, <3>2
  <2>2. \A a, b \in Pairs \ {p} : srv'[a].st = "gone" /\ srv'[b].st = "gone" => a = b
    BY <1>3, Zenon DEF TotalShared
  <2>3. \A a, b \in Pairs : srv'[a].st = "gone" /\ srv'[b].st = "gone" => a = b
    BY <2>1, <2>2
  <2>4. ASSUME Pairs = {p}
        PROVE  /\ tlen' \in {srv'[p].in, srv'[p].in + Pieces}
               /\ srv'[p].st = "gone" => srv'[p].in = Pieces
    <3>1. tlen \in {srv[p].in, srv[p].in + Pieces}
      BY <2>4, Zenon DEF TotalShared
    <3>2. srv[p].in \in Nat
      BY <1>2
    <3> QED
      BY <1>1, <1>5, <3>1, <3>2
  <2>5. \A a \in Pairs : Pairs = {a} => a = p
    BY Zenon
  <2> QED
    BY <1>1, <2>3, <2>4, <2>5 DEF TotalShared
<1> QED
  BY <1>4, <1>5 DEF Counted

\* A step of a pair keeps the invariant.
LEMMA EchoStepKept ==
  ASSUME EchoInv, EchoAssumption, NEW p \in Pairs, EchoStep(p)
  PROVE  EchoInv'
<1>1. EchoTypes
  BY DEF EchoInv
<1>2. PICK t \in Nat : /\ \A q \in Pairs : PairInv(t, q)
                       /\ app = "iocp" /\ t = 4 => TotalShared
  BY Zenon DEF EchoInv
<1>3. /\ Kept(p) /\ PairInv(t, p)'
      /\ tlen' = tlen \/ Counted(p)
      /\ app = "iocp" /\ t = 4 => Counted(p)
  BY <1>1, <1>2, PairKept, Zenon
<1>4. tlen' \in Nat /\ tlen' >= tlen
  BY <1>1, <1>3, TotalGrows, Zenon
<1>5. Pairs' = Pairs /\ over' = over /\ app' = app
  BY <1>3, PairsKept DEF Kept
<1>6. \A q \in Pairs : PairInv(t, q)'
  <2>1. ASSUME NEW q \in Pairs \ {p} PROVE PairInv(t, q)'
    BY <1>1, <1>2, <1>3, <1>4, OthersKept, Zenon
  <2> QED
    BY <1>3, <2>1
<1>7. app = "iocp" /\ t = 4 => TotalShared'
  BY <1>1, <1>2, <1>3, TotalKept, Zenon
<1>8. EchoTypes'
  BY <1>1, <1>3, <1>4, <1>5 DEF EchoTypes, Kept
<1>9. EchoClean'
  <2>1. ~over'
    BY <1>5, StepCases, Zenon
  <2> QED
    BY <2>1 DEF EchoClean
<1> QED
  BY <1>2, <1>5, <1>6, <1>7, <1>8, <1>9 DEF EchoInv


-----------------------------------------------------------------------------
\* The tests begin in what is known of them.
LEMMA EchoBegins ==
  ASSUME EchoInit, EchoAssumption
  PROVE  EchoInv
<1>1. PICK n \in 1..MaxPairs : \E u \in Tests[app] :
       LET first == CASE app = "io_t" -> io_t_FirstWrite(u)
                      [] app = "poll" -> poll_FirstWrite(u)
                      [] OTHER -> iocp_FirstWrite(u)
       IN  /\ cli = [p \in 1..n |-> End("open", u, Pieces - first)]
           /\ srv = [p \in 1..n |-> End("backlog", u, Pieces)]
           /\ toS = [p \in 1..n |-> first]
  BY Zenon DEF EchoInit
<1>2. PICK t \in Tests[app] :
       LET first == CASE app = "io_t" -> io_t_FirstWrite(t)
                      [] app = "poll" -> poll_FirstWrite(t)
                      [] OTHER -> iocp_FirstWrite(t)
       IN  /\ cli = [p \in 1..n |-> End("open", t, Pieces - first)]
           /\ srv = [p \in 1..n |-> End("backlog", t, Pieces)]
           /\ toS = [p \in 1..n |-> first]
  BY <1>1, Zenon
<1> DEFINE first == CASE app = "io_t" -> io_t_FirstWrite(t)
                      [] app = "poll" -> poll_FirstWrite(t)
                      [] OTHER -> iocp_FirstWrite(t)
<1>3. \/ app = "io_t" /\ t \in 1..3
      \/ app = "poll" /\ t = 1
      \/ app = "iocp" /\ t \in 1..4
  BY DEF EchoInit, Tests
<1>4. /\ app = "io_t" => first = IF t = 1 THEN Pieces ELSE 0
      /\ app = "poll" => first = Pieces
      /\ app = "iocp" => first = IF t = 3 THEN 1 ELSE Pieces
  BY DEF io_t_FirstWrite, poll_FirstWrite, iocp_FirstWrite
<1>5. /\ cli = [p \in 1..n |-> End("open", t, Pieces - first)]
      /\ srv = [p \in 1..n |-> End("backlog", t, Pieces)]
      /\ toS = [p \in 1..n |-> first]
  BY <1>2
<1> HIDE DEF first
<1>6. t \in Nat /\ Pieces \in Nat /\ Pieces > 0 /\ first \in Nat /\ Pieces - first \in Nat
  BY <1>3, <1>4 DEF EchoAssumption
<1>7. Pairs = 1..n
  BY <1>5 DEF Pairs
<1>8. toC = [p \in Pairs |-> 0] /\ tlen \in {0, Pieces} /\ over = FALSE
  BY DEF EchoInit, Pairs
<1>9. End("open", t, Pieces - first) \in EndSet /\ End("backlog", t, Pieces) \in EndSet
  BY <1>6 DEF End, EndSet
<1>10. EchoTypes
  <2>1. cli \in [Pairs -> EndSet] /\ srv \in [Pairs -> EndSet]
    BY <1>5, <1>7, <1>9, Zenon
  <2>2. toS \in [Pairs -> Nat] /\ toC \in [Pairs -> Nat]
    BY <1>5, <1>6, <1>7, <1>8
  <2>3. tlen \in Nat
    BY <1>6, <1>8
  <2>4. over \in BOOLEAN
    BY <1>8, Zenon
  <2> QED
    BY <2>1, <2>2, <2>3, <2>4 DEF EchoTypes
<1>11. ASSUME NEW p \in Pairs
       PROVE  /\ cli[p] = End("open", t, Pieces - first)
              /\ srv[p] = End("backlog", t, Pieces)
              /\ toS[p] = first /\ toC[p] = 0
  BY <1>5, <1>7, <1>8
<1>12. ASSUME NEW p \in Pairs
       PROVE  /\ cli[p].st = "open" /\ cli[p].test = t /\ cli[p].in = 0
              /\ cli[p].left = Pieces - first
              /\ srv[p].st = "backlog" /\ srv[p].test = t /\ srv[p].in = 0
              /\ srv[p].left = Pieces
  BY <1>11 DEF End
<1>13. ASSUME NEW p \in Pairs PROVE PairInv(t, p)
  <2> DEFINE c == cli[p]
             s == srv[p]
             ts == toS[p]
             tc == toC[p]
             n0 == tlen
  <2>1. /\ c.st = "open" /\ c.test = t /\ c.in = 0 /\ c.left = Pieces - first
        /\ s.st = "backlog" /\ s.test = t /\ s.in = 0 /\ s.left = Pieces
        /\ ts = first /\ tc = 0
    BY <1>11, <1>12
  <2> HIDE DEF c, s, ts, tc, n0
  <2>2. first = Pieces => HelloFirst(t, c, s, ts, tc)
    BY <1>6, <2>1, SMTT(30) DEF HelloFirst, EndOf, Flight
  <2>3. first = 0 /\ t = 2 => Silent(c, s, ts, tc)
    BY <1>6, <2>1 DEF Silent, Flight
  <2>4. first = 0 /\ t = 3 => WorldFirst(c, s, ts, tc)
    BY <1>6, <2>1, SMTT(30) DEF WorldFirst, EndOf, Flight
  <2>5. first = Pieces /\ t = 1 => PollTest(c, s, ts, tc)
    BY <1>6, <2>1, SMTT(30) DEF PollTest, EndOf, Flight
  <2>6. first = 1 /\ t = 3 => InTurn(c, s, ts, tc)
    BY <1>6, <2>1, SMTT(30) DEF InTurn, EndOf, Flight
  <2>7. first = Pieces /\ t = 4 => OneWay(c, s, ts, tc, n0)
    BY <1>6, <2>1, SMTT(30) DEF OneWay
  <2>8. /\ app = "io_t" /\ t = 1 => HelloFirst(1, c, s, ts, tc)
        /\ app = "io_t" /\ t = 2 => Silent(c, s, ts, tc)
        /\ app = "io_t" /\ t = 3 => WorldFirst(c, s, ts, tc)
        /\ app = "poll" /\ t = 1 => PollTest(c, s, ts, tc)
        /\ app = "iocp" /\ (t = 1 \/ t = 2) => HelloFirst(t, c, s, ts, tc)
        /\ app = "iocp" /\ t = 3 => InTurn(c, s, ts, tc)
        /\ app = "iocp" /\ t = 4 => OneWay(c, s, ts, tc, n0)
    BY <1>4, <2>2, <2>3, <2>4, <2>5, <2>6, <2>7
  <2>9. \/ app = "io_t" /\ (t = 1 \/ t = 2 \/ t = 3)
        \/ app = "poll" /\ t = 1
        \/ app = "iocp" /\ (t = 1 \/ t = 2 \/ t = 3 \/ t = 4)
    BY <1>3
  <2> QED
    BY <2>8, <2>9 DEF PairInv, c, s, ts, tc, n0
<1>14. TotalShared
  <2>1. \A p \in Pairs : srv[p].st # "gone" /\ srv[p].in = 0
    BY <1>12
  <2> QED
    BY <1>6, <1>8, <2>1 DEF TotalShared
<1>15. EchoClean
  BY <1>8 DEF EchoClean
<1> QED
  BY <1>6, <1>10, <1>13, <1>14, <1>15 DEF EchoInv

\* What holds of a pair whose ends are gone.
LEMMA PairDone ==
  ASSUME EchoTypes, NEW p \in Pairs, NEW t, PairInv(t, p),
         ~Registered(cli[p]), ~Registered(srv[p])
  PROVE  /\ cli[p].st = "gone" /\ srv[p].st = "gone"
         /\ \/ app = "io_t" /\ cli[p].test = 2
            \/ app = "iocp" /\ t = 4 /\ cli[p].test = 4
            \/ /\ srv[p].in = Pieces /\ cli[p].in = Pieces
               /\ app = "poll" \/ (cli[p].test = 0 /\ srv[p].test = 0)
<1> DEFINE c == cli[p]
           s == srv[p]
           ts == toS[p]
           tc == toC[p]
<1>1. /\ c.st # "open" /\ c.st # "shut" /\ s.st # "open" /\ s.st # "shut"
  BY DEF Registered
<1>2. c \in EndSet /\ s \in EndSet
  BY PairTypes
<1>3. c.st \in {"backlog", "gone"} /\ s.st \in {"backlog", "gone"}
  BY <1>1, <1>2 DEF EndSet
<1> HIDE DEF c, s, ts, tc
<1>4. ASSUME NEW u, HelloFirst(u, c, s, ts, tc)
      PROVE  /\ c.st = "gone" /\ s.st = "gone"
             /\ c.in = Pieces /\ s.in = Pieces /\ c.test = 0 /\ s.test = 0
  BY <1>3, <1>4, SMTT(30) DEF HelloFirst, EndOf
<1>5. Silent(c, s, ts, tc) => c.st = "gone" /\ s.st = "gone" /\ c.test = 2
  BY <1>3 DEF Silent
<1>6. WorldFirst(c, s, ts, tc) =>
        /\ c.st = "gone" /\ s.st = "gone"
        /\ c.in = Pieces /\ s.in = Pieces /\ c.test = 0 /\ s.test = 0
  BY <1>3, SMTT(30) DEF WorldFirst, EndOf
<1>7. PollTest(c, s, ts, tc) =>
        c.st = "gone" /\ s.st = "gone" /\ c.in = Pieces /\ s.in = Pieces
  BY <1>3, SMTT(30) DEF PollTest, EndOf
<1>8. InTurn(c, s, ts, tc) =>
        /\ c.st = "gone" /\ s.st = "gone"
        /\ c.in = Pieces /\ s.in = Pieces /\ c.test = 0 /\ s.test = 0
  BY <1>3, SMTT(30) DEF InTurn, EndOf
<1>9. OneWay(c, s, ts, tc, tlen) => c.st = "gone" /\ s.st = "gone" /\ c.test = 4
  BY <1>3, SMTT(30) DEF OneWay
<1>10. \/ app = "io_t" /\ HelloFirst(1, c, s, ts, tc)
       \/ app = "io_t" /\ Silent(c, s, ts, tc)
       \/ app = "io_t" /\ WorldFirst(c, s, ts, tc)
       \/ app = "poll" /\ PollTest(c, s, ts, tc)
       \/ app = "iocp" /\ HelloFirst(t, c, s, ts, tc)
       \/ app = "iocp" /\ InTurn(c, s, ts, tc)
       \/ app = "iocp" /\ t = 4 /\ OneWay(c, s, ts, tc, tlen)
  BY DEF PairInv, c, s, ts, tc
<1> QED
  BY <1>4, <1>5, <1>6, <1>7, <1>8, <1>9, <1>10 DEF c, s

\* The loop ends with every end gone, and only then.
LEMMA EchoTestKept ==
  ASSUME EchoInv, EchoAssumption, echo_test
  PROVE  EchoInv'
<1>1. /\ UNCHANGED <<app, cli, srv, toS, toC, tlen>>
      /\ \/ over' = over
         \/ over' = TRUE /\ \A e \in Ends : ~Registered(e)
  BY DEF echo_test, io_t_echo_test, poll_echo_test, iocp_echo_test, TestDone, LoopEnds2, net,
         counters
<1>2. EchoTypes
  BY DEF EchoInv
<1>3. PICK t \in Nat : /\ \A q \in Pairs : PairInv(t, q)
                       /\ app = "iocp" /\ t = 4 => TotalShared
  BY Zenon DEF EchoInv
<1>4. Pairs' = Pairs
  BY <1>1 DEF Pairs
<1>5. EchoTypes'
  BY <1>1, <1>2, <1>4 DEF EchoTypes
<1>6. \A q \in Pairs : PairInv(t, q)'
  BY <1>1, <1>3 DEF PairInv
<1>7. app = "iocp" /\ t = 4 => TotalShared'
  BY <1>1, <1>3, <1>4 DEF TotalShared
<1>8. ~over
  BY DEF echo_test
<1>9. EchoClean'
  <2>1. CASE over' = over
    BY <1>8, <2>1 DEF EchoClean
  <2>2. CASE over' = TRUE /\ \A e \in Ends : ~Registered(e)
    <3>1. ASSUME NEW p \in Pairs PROVE ~Registered(cli[p]) /\ ~Registered(srv[p])
      BY <2>2 DEF Ends
    <3>2. ASSUME NEW p \in Pairs
          PROVE  /\ cli[p].st = "gone" /\ srv[p].st = "gone"
                 /\ \/ app = "io_t" /\ cli[p].test = 2
                    \/ app = "iocp" /\ t = 4 /\ cli[p].test = 4
                    \/ /\ srv[p].in = Pieces /\ cli[p].in = Pieces
                       /\ app = "poll" \/ (cli[p].test = 0 /\ srv[p].test = 0)
      BY <1>2, <1>3, <3>1, PairDone, Zenon
    <3>3. ASSUME NEW p \in Pairs, app = "iocp", t = 4 PROVE srv[p].in = Pieces
      <4>1. TotalShared
        BY <1>3, <3>3
      <4>2. \A q \in Pairs : q = p
        BY <3>2, <4>1, Zenon DEF TotalShared
      <4>3. Pairs = {p}
        BY <4>2
      <4> QED
        BY <3>2, <4>1, <4>3, Zenon DEF TotalShared
    <3>4. ASSUME NEW p \in Pairs
          PROVE  /\ cli[p].st = "gone" /\ srv[p].st = "gone"
                 /\ LET silent == app = "io_t" /\ cli[p].test = 2
                        oneway == app = "iocp" /\ cli[p].test = 4
                    IN  /\ silent \/ srv[p].in = Pieces
                        /\ silent \/ oneway \/ cli[p].in = Pieces
                        /\ silent \/ oneway \/ app = "poll" \/ {cli[p].test, srv[p].test} = {0}
      BY <3>2, <3>3
    <3> QED
      BY <1>1, <1>4, <3>4 DEF EchoClean
  <2> QED
    BY <1>1, <2>1, <2>2
<1> QED
  BY <1>1, <1>3, <1>4, <1>5, <1>6, <1>7, <1>9 DEF EchoInv

\* Whatever the program runs on, however its words are cut into reads and whatever is
\* served first, a loop that ended left no end registered, no test open and no word cut
\* short (hp_io_t.cpp's, hp_poll.c's and hp_iocp.c's client_server_echo_test).
THEOREM EchoIsClean == EchoSpec => []EchoClean
<1>1. EchoInit => EchoInv
  BY EchoBegins, EchoAssumption
<1>2. EchoInv /\ [EchoNext]_echoVars => EchoInv'
  <2>1. ASSUME EchoInv, EchoNext PROVE EchoInv'
    BY <2>1, EchoStepKept, EchoTestKept, EchoAssumption, Zenon DEF EchoNext
  <2>2. ASSUME EchoInv, UNCHANGED echoVars PROVE EchoInv'
    <3>1. UNCHANGED <<app, cli, srv, toS, toC, tlen, over>>
      BY <2>2 DEF echoVars
    <3>2. Pairs' = Pairs
      BY <3>1 DEF Pairs
    <3>3. \A t \in Nat, q \in Pairs : PairInv(t, q)' <=> PairInv(t, q)
      BY <3>1 DEF PairInv
    <3>4. (EchoTypes' <=> EchoTypes) /\ (TotalShared' <=> TotalShared) /\ (EchoClean' <=> EchoClean)
      BY <3>1, <3>2 DEF EchoTypes, TotalShared, EchoClean
    <3>5. PICK t \in Nat : /\ \A q \in Pairs : PairInv(t, q)
                           /\ app = "iocp" /\ t = 4 => TotalShared
      BY <2>2, Zenon DEF EchoInv
    <3> QED
      BY <2>2, <3>1, <3>2, <3>3, <3>4, <3>5 DEF EchoInv
  <2> QED
    BY <2>1, <2>2
<1>3. EchoInv => EchoClean
  BY DEF EchoInv
<1> QED
  BY <1>1, <1>2, <1>3, PTL DEF EchoSpec
=============================================================================
