------------------------------- MODULE HpPoll -------------------------------
(***************************************************************************)
(* The event loop of hp_poll.c.  One allocation holds two arrays that grow *)
(* in opposite directions from hp_poll::fds: pollfd entries upwards from   *)
(* fds[1], hp_polld entries (callbacks and arg) downwards from fds[-1].    *)
(* hp_poll_run polls, calls the fn of every entry whose revents are set,   *)
(* always looking from the first entry on, and then every on_loop.         *)
(*                                                                         *)
(* Callbacks are the user's and may add and remove any descriptor.  As the *)
(* header asks, fn sets pfd->revents = 0 through the pointer it was given, *)
(* which after a removal is another entry.  poll is level triggered.       *)
(***************************************************************************)
EXTENDS Integers, Sequences, FiniteSets

CONSTANTS
  PollFds,      \* descriptors
  MaxFd,        \* max_fd
  MaxPollOps    \* bound: hp_poll_add and hp_poll_rm calls

ASSUME PollAssumption ==
  PollFds # {} /\ MaxFd \in Nat \ {0} /\ MaxPollOps \in Nat

VARIABLES
  pfd,          \* pfd[k]: fds[k], a descriptor and whether revents # 0
  polld,        \* polld[k]: arg of fds[-k], the number of the call that set it
  nfds,
  ppc, pmode,   \* where hp_poll_run is, its mode
  pidx,         \* the entry whose callback runs
  pn,           \* the local nfds of the dispatch loop
  ready,        \* descriptors with an event, a matter of the kernel
  pops,         \* number of calls so far
  parg          \* parg[fd]: number of the hp_poll_add in force

registered == <<pfd, polld, nfds, parg, pops>>
prun == <<ppc, pmode, pidx, pn>>
pollVars == <<pfd, polld, nfds, ppc, pmode, pidx, pn, ready, pops, parg>>

PollInit ==
  /\ pfd = [k \in 1..MaxFd + 1 |->
              [fd |-> CHOOSE fd \in PollFds : TRUE, revents |-> FALSE]]
  /\ polld = [k \in 1..MaxFd + 1 |-> 0]
  /\ nfds = 0
  /\ ppc = "out" /\ pmode = 0 /\ pidx = 0 /\ pn = 0
  /\ ready = {} /\ pops = 0
  /\ parg = [fd \in PollFds |-> 0]

\* hp_lfind with find_by_fd: 0 if there is no entry
find_by_fd(fd) ==
  LET K == {k \in 1..nfds : pfd[k].fd = fd}
  IN  IF K = {} THEN 0 ELSE CHOOSE k \in K : \A j \in K : k <= j

PollUserRuns ==
  /\ ppc \in {"out", "cb_before", "cb_polled", "cb_loop"}
  /\ pops < MaxPollOps
  /\ pops' = pops + 1

Store(k, fd) ==
  /\ pfd' = [pfd EXCEPT ![k] = [fd |-> fd, revents |-> FALSE]]
  /\ polld' = [polld EXCEPT ![k] = pops + 1]
  /\ parg' = [parg EXCEPT ![fd] = pops + 1]

AppendEntry(fd) ==
  /\ find_by_fd(fd) = 0
  /\ nfds < MaxFd
  /\ nfds' = nfds + 1
  /\ Store(nfds + 1, fd)

\* hp_poll_add: a registered descriptor is overwritten; -2 if the array is full.
hp_poll_add(fd) ==
  /\ PollUserRuns
  /\ \/ find_by_fd(fd) # 0 /\ Store(find_by_fd(fd), fd) /\ UNCHANGED nfds
     \/ AppendEntry(fd)
     \/ find_by_fd(fd) = 0 /\ nfds >= MaxFd /\ UNCHANGED <<pfd, polld, parg, nfds>>
  /\ UNCHANGED <<prun, ready>>

\* Mutant: the hp_polld entries are not moved.
Bad_hp_poll_rm_at(k) ==
  /\ pfd' = [j \in DOMAIN pfd |-> IF j \in k..nfds - 1 THEN pfd[j + 1] ELSE pfd[j]]
  /\ UNCHANGED polld
  /\ nfds' = nfds - 1

\* Both arrays close the gap.
hp_poll_rm_at(k) ==
  /\ pfd' = [j \in DOMAIN pfd |-> IF j \in k..nfds - 1 THEN pfd[j + 1] ELSE pfd[j]]
  /\ polld' = [j \in DOMAIN polld |->
                 IF j \in k..nfds - 1 THEN polld[j + 1] ELSE polld[j]]
  /\ nfds' = nfds - 1

hp_poll_rm(fd) ==
  /\ PollUserRuns
  /\ IF find_by_fd(fd) # 0
       THEN hp_poll_rm_at(find_by_fd(fd)) /\ parg' = [parg EXCEPT ![fd] = 0]
       ELSE UNCHANGED <<pfd, polld, nfds, parg>>
  /\ UNCHANGED <<prun, ready>>
-----------------------------------------------------------------------------
(* hp_poll_run *)

hp_poll_run(m) ==
  /\ ppc = "out"
  /\ pmode' = m
  /\ ppc' = IF m = 0 THEN "poll" ELSE "cb_before"
  /\ UNCHANGED <<registered, pidx, pn, ready>>

before_wait(rc) ==
  /\ ppc = "cb_before"
  /\ ppc' = IF rc # 0 THEN "out" ELSE "poll"
  /\ UNCHANGED <<registered, pmode, pidx, pn, ready>>

Polled == {k \in 1..nfds : pfd[k].fd \in ready}
NextPass == IF pmode = 0 THEN "poll" ELSE "out"

poll ==
  /\ ppc = "poll"
  /\ Polled # {}
  /\ pfd' = [k \in DOMAIN pfd |->
               IF k \in 1..nfds THEN [pfd[k] EXCEPT !.revents = k \in Polled]
               ELSE pfd[k]]
  /\ pn' = nfds
  /\ ppc' = "polled"
  /\ UNCHANGED <<polld, nfds, pmode, pidx, ready, pops, parg>>

\* A timeout, EINTR or EAGAIN: continue, without calling on_loop.
PollNothing ==
  /\ ppc = "poll"
  /\ Polled = {}
  /\ ppc' = NextPass
  /\ UNCHANGED <<registered, pmode, pidx, pn, ready>>

PollFails ==
  /\ ppc = "poll"
  /\ ppc' = "out"
  /\ UNCHANGED <<registered, pmode, pidx, pn, ready>>

\* Mutant: the last entry is left out.
Bad_get_next_to_run ==
  {k \in 1..nfds - 1 : k <= pn /\ pfd[k].revents}

\* get_next_to_run with checkifnotpolled: entries whose revents are set
get_next_to_run ==
  {k \in 1..nfds : k <= pn /\ pfd[k].revents}

CallPolled ==
  /\ ppc = "polled"
  /\ \E k \in get_next_to_run :
       (\A j \in get_next_to_run : k <= j) /\ pidx' = k
  /\ ppc' = "cb_polled"
  /\ UNCHANGED <<registered, pmode, pn, ready>>

\* fn returns after pfd->revents = 0.
PolledReturns ==
  /\ ppc = "cb_polled"
  /\ pfd' = [pfd EXCEPT ![pidx].revents = FALSE]
  /\ ppc' = "polled"
  /\ UNCHANGED <<polld, nfds, pmode, pidx, pn, ready, pops, parg>>

PolledEnds ==
  /\ ppc = "polled"
  /\ get_next_to_run = {}
  /\ pidx' = 1
  /\ ppc' = "on_loop"
  /\ UNCHANGED <<registered, pmode, pn, ready>>

LoopCall ==
  /\ ppc = "on_loop"
  /\ pidx <= nfds
  /\ ppc' = "cb_loop"
  /\ UNCHANGED <<registered, pmode, pidx, pn, ready>>

LoopReturns ==
  /\ ppc = "cb_loop"
  /\ pidx' = pidx + 1
  /\ ppc' = "on_loop"
  /\ UNCHANGED <<registered, pmode, pn, ready>>

LoopEnds ==
  /\ ppc = "on_loop"
  /\ pidx > nfds
  /\ ppc' = NextPass
  /\ UNCHANGED <<registered, pmode, pidx, pn, ready>>

\* An event arrives or is dealt with.
KernelEvents ==
  /\ \E fd \in PollFds : ready' = IF fd \in ready THEN ready \ {fd} ELSE ready \cup {fd}
  /\ UNCHANGED <<registered, prun>>

PollStart == \E m \in {0, 1} : hp_poll_run(m)
PollStep ==
  \/ poll \/ PollNothing
  \/ CallPolled \/ PolledReturns \/ PolledEnds
  \/ LoopCall \/ LoopReturns \/ LoopEnds

PollNext ==
  \/ \E fd \in PollFds : hp_poll_add(fd) \/ hp_poll_rm(fd)
  \/ PollStart
  \/ \E rc \in {0, 1} : before_wait(rc)
  \/ PollStep
  \/ PollFails
  \/ KernelEvents

PollSpec == PollInit /\ [][PollNext]_pollVars

\* The program runs the loop again and again, callbacks return, before_wait and
\* poll do not fail for ever.
PollFair ==
  /\ WF_pollVars(PollStart)
  /\ WF_pollVars(PollStep)
  /\ SF_pollVars(before_wait(0))
  /\ SF_pollVars(poll \/ PollNothing)
-----------------------------------------------------------------------------
PollTypeOK ==
  /\ nfds \in 0..MaxFd
  /\ pfd \in [1..MaxFd + 1 -> [fd : PollFds, revents : BOOLEAN]]
  /\ polld \in [1..MaxFd + 1 -> Nat]
  /\ pidx \in 0..MaxFd + 1 /\ pn \in 0..MaxFd

\* Whatever was added and removed, in callbacks too, the two arrays that grow in
\* opposite directions belong together: the hp_polld of every entry is that of
\* the latest hp_poll_add for its descriptor, and no descriptor has two entries.
PollPairs ==
  /\ \A k \in 1..nfds : polld[k] = parg[pfd[k].fd] /\ polld[k] # 0
  /\ \A k, j \in 1..nfds : pfd[k].fd = pfd[j].fd => k = j

\* A descriptor that stays registered and ready is called again and again,
\* although a callback that removes its entry clears the revents of the entry
\* that moved into its place (hp_poll.c:117).
PollServed ==
  \A fd \in PollFds :
    <>[](parg[fd] # 0 /\ fd \in ready) =>
      []<>(ppc = "cb_polled" /\ pfd[pidx].fd = fd)

\* While some registered descriptor has events, the on_loop of every descriptor
\* that stays registered is called again and again (not so if poll times out).
PollLooped ==
  \A fd \in PollFds :
    <>[](parg[fd] # 0 /\ Polled # {}) =>
      []<>(ppc = "cb_loop" /\ pidx <= nfds /\ pfd[pidx].fd = fd)

\* The two arrays stay in their allocation and belong together.
PollSound == PollTypeOK /\ PollPairs

\* Nobody in the poll loop is starved, of events or of on_loop.
PollServes == PollServed /\ PollLooped
=============================================================================
