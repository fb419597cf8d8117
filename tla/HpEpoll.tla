------------------------------ MODULE HpEpoll -------------------------------
(***************************************************************************)
(* The event loop of hp_epoll.c: the array ed of registered descriptors,   *)
(* the interest list the kernel keeps for the epoll fd, and hp_epoll_run,  *)
(* which calls every fn once ("drive"), waits, dispatches the reported     *)
(* events and calls every on_loop.                                         *)
(*                                                                         *)
(* Callbacks are the user's: while one runs it may register and remove     *)
(* descriptors, so ed changes under the loop's index i.  An hp_epolld is   *)
(* heap memory: hp_epoll_rm frees it and malloc may hand the same address  *)
(* out again, while the batch reported by epoll_wait holds addresses.      *)
(*                                                                         *)
(* Assumed of users, as every user in the repository does: a callback run  *)
(* from the dispatch loop removes no descriptor but its own, and a         *)
(* descriptor is removed before it is closed.                              *)
(***************************************************************************)
EXTENDS Integers, Sequences, FiniteSets

CONSTANTS
  Fds,      \* descriptors
  Addrs,    \* heap addresses of hp_epolld
  None,     \* no descriptor, no address
  MaxEv,    \* max_ev_len
  MaxOps    \* bound: number of hp_epoll_add and hp_epoll_rm calls

ASSUME NoneAssumption == None \notin Fds /\ None \notin Addrs
ASSUME MaxEvAssumption == MaxEv \in Nat \ {0}
ASSUME MaxOpsAssumption == MaxOps \in Nat

VARIABLES
  ed,         \* Seq(Addrs): epo->ed, ev_len = Len(ed)
  fdOf,       \* fdOf[a]: the fd field of the hp_epolld at a, None if a is free
  argOf,      \* argOf[a]: its arg, the number of the hp_epoll_add that set it
  interest,   \* interest[fd]: data.ptr the kernel reports for fd, None if absent
  pc,         \* where hp_epoll_run is
  mode,       \* its parameter mode
  i,          \* its loop index
  ev,         \* epo->ev[0..n-1], the data.ptr of each reported event
  cur,        \* address of the hp_epolld whose callback runs, with its fd
  ops,        \* number of hp_epoll_add and hp_epoll_rm calls so far
  latest,     \* latest[fd]: number of the hp_epoll_add in force, 0 if none
  driven,     \* addresses driven in this pass
  removed     \* number of removals in this pass of the drive loop

registry == <<ed, fdOf, argOf, interest, latest>>
loop == <<mode, i, ev, cur>>
history == <<driven, removed>>
vars == <<ed, fdOf, argOf, interest, pc, mode, i, ev, cur, ops, latest, driven,
          removed>>

InCallback == {"cb_before", "cb_drive", "cb_event", "cb_loop"}
NoCall == [addr |-> None, fd |-> None, arg |-> 0]

Allocated == {a \in Addrs : fdOf[a] # None}
\* hp_lfind(&fd, epo->ed, ...): the entries of ed for fd
IndexOf(fd) == {k \in 1..Len(ed) : fdOf[ed[k]] = fd}
Registered(fd) == IndexOf(fd) # {}

Init ==
  /\ ed = <<>>
  /\ fdOf = [a \in Addrs |-> None]
  /\ argOf = [a \in Addrs |-> 0]
  /\ interest = [fd \in Fds |-> None]
  /\ pc = "out" /\ mode = 0 /\ i = 0 /\ ev = <<>> /\ cur = NoCall
  /\ ops = 0
  /\ latest = [fd \in Fds |-> 0]
  /\ driven = {} /\ removed = 0

-----------------------------------------------------------------------------
(* Registration, called by the user outside hp_epoll_run or in a callback. *)

UserRuns == pc = "out" \/ pc \in InCallback

Allocate(a, fd) ==
  /\ fdOf' = [fdOf EXCEPT ![a] = fd]
  /\ argOf' = [argOf EXCEPT ![a] = ops + 1]

Watch(a, fd) ==
  /\ interest' = [interest EXCEPT ![fd] = a]
  /\ latest' = [latest EXCEPT ![fd] = ops + 1]

\* Mutant: a new entry is put in front of ed.
Front_AddNew(fd) ==
  /\ ~Registered(fd)
  /\ Len(ed) < MaxEv
  /\ \E a \in Addrs \ Allocated :
       Allocate(a, fd) /\ Watch(a, fd) /\ ed' = <<a>> \o ed /\ UNCHANGED pc

\* A new descriptor: malloc, EPOLL_CTL_ADD, append.  EEXIST would run into
\* assert(0).
AddNew(fd) ==
  /\ ~Registered(fd)
  /\ Len(ed) < MaxEv
  /\ \E a \in Addrs \ Allocated :
       /\ Allocate(a, fd)
       /\ IF interest[fd] = None
            THEN /\ Watch(a, fd)
                 /\ ed' = Append(ed, a)
                 /\ UNCHANGED pc
            ELSE /\ pc' = "assert"
                 /\ UNCHANGED <<interest, ed, latest>>

\* EPOLL_CTL_ADD fails with another errno: -2, and the hp_epolld is not freed.
AddFails(fd) ==
  /\ ~Registered(fd)
  /\ Len(ed) < MaxEv
  /\ \E a \in Addrs \ Allocated : Allocate(a, fd)
  /\ UNCHANGED <<ed, interest, latest, pc>>

\* The entry hp_lfind returns for a registered fd.
Found(fd) == CHOOSE k \in IndexOf(fd) : \A m \in IndexOf(fd) : k <= m

\* Mutant: EPOLL_CTL_MOD only, the entry keeps its old arg.
Bad_AddExisting(fd) ==
  /\ Registered(fd)
  /\ Watch(ed[Found(fd)], fd)
  /\ UNCHANGED <<ed, fdOf, argOf, pc>>

\* fd is registered: overwrite the callbacks and EPOLL_CTL_MOD with data.ptr.
AddExisting(fd) ==
  /\ Registered(fd)
  /\ argOf' = [argOf EXCEPT ![ed[Found(fd)]] = ops + 1]
  /\ Watch(ed[Found(fd)], fd)
  /\ UNCHANGED <<ed, fdOf, pc>>

\* The array is full: -2.
AddFull(fd) ==
  /\ ~Registered(fd)
  /\ Len(ed) >= MaxEv
  /\ UNCHANGED <<registry, pc>>

hp_epoll_add(fd) ==
  /\ UserRuns
  /\ ops < MaxOps
  /\ ops' = ops + 1
  /\ AddNew(fd) \/ AddFails(fd) \/ AddExisting(fd) \/ AddFull(fd)
  /\ UNCHANGED <<loop, history>>

Without(s, k) == SubSeq(s, 1, k - 1) \o SubSeq(s, k + 1, Len(s))

\* Mutant: --ev_len without the memmove.
Bad_Remove(fd) ==
  /\ fdOf' = [fdOf EXCEPT ![ed[Found(fd)]] = None]
  /\ ed' = SubSeq(ed, 1, Len(ed) - 1)

\* free the entry and close the gap in ed.
Remove(fd) ==
  /\ fdOf' = [fdOf EXCEPT ![ed[Found(fd)]] = None]
  /\ ed' = Without(ed, Found(fd))

\* Mutant: no EPOLL_CTL_DEL.
Bad_Unwatch(fd) == UNCHANGED interest

\* EPOLL_CTL_DEL, made whether or not fd is registered.
Unwatch(fd) == interest' = [interest EXCEPT ![fd] = None]

hp_epoll_rm(fd) ==
  /\ UserRuns
  /\ pc = "cb_event" => fd = cur.fd
  /\ ops < MaxOps
  /\ ops' = ops + 1
  /\ Unwatch(fd)
  /\ IF Registered(fd)
       THEN /\ Remove(fd)
            /\ latest' = [latest EXCEPT ![fd] = 0]
            /\ removed' = removed + 1
       ELSE UNCHANGED <<fdOf, ed, latest, removed>>
  /\ UNCHANGED <<argOf, pc, loop, driven>>

hp_epoll_uninit ==
  /\ pc = "out"
  /\ pc' = "uninit"
  /\ UNCHANGED <<registry, loop, ops, history>>
-----------------------------------------------------------------------------
(* hp_epoll_run *)

EnterDrive == /\ pc' = "drive" /\ i' = 0 /\ driven' = {} /\ removed' = 0

hp_epoll_run(m) ==
  /\ pc = "out"
  /\ mode' = m
  /\ IF m = 0
       THEN EnterDrive /\ UNCHANGED cur
       ELSE pc' = "cb_before" /\ UNCHANGED <<i, cur, history>>
  /\ UNCHANGED <<registry, ev, ops>>

\* before_wait returns: an error ends the run, otherwise runed = 1.
BeforeWaitReturns(rc) ==
  /\ pc = "cb_before"
  /\ IF rc # 0 THEN pc' = "out" /\ UNCHANGED <<i, history>>
               ELSE EnterDrive
  /\ UNCHANGED <<registry, mode, ev, cur, ops>>

Call(a) == cur' = [addr |-> a, fd |-> fdOf[a], arg |-> argOf[a]]

DriveCall ==
  /\ pc = "drive"
  /\ i < Len(ed)
  /\ Call(ed[i + 1])
  /\ driven' = driven \cup {ed[i + 1]}
  /\ pc' = "cb_drive"
  /\ UNCHANGED <<registry, mode, i, ev, ops, removed>>

DriveEnds ==
  /\ pc = "drive"
  /\ i >= Len(ed)
  /\ pc' = "wait"
  /\ UNCHANGED <<registry, loop, ops, history>>

\* The kernel reports some of the descriptors it watches, each at most once,
\* and at most ev_len + 1 of them; an empty report is the timeout.
Reports ==
  {s \in UNION {[1..k -> Addrs] : k \in 0..Len(ed) + 1} :
     /\ \A k \in 1..Len(s) : \E fd \in Fds : interest[fd] = s[k]
     /\ \A k, m \in 1..Len(s) : s[k] = s[m] => k = m}

EpollWait ==
  /\ pc = "wait"
  /\ ev' \in Reports
  /\ i' = 0
  /\ pc' = "dispatch"
  /\ UNCHANGED <<registry, mode, cur, ops, history>>

\* EINTR: continue, which leaves the function when runed is set.
EpollWaitInterrupted ==
  /\ pc = "wait"
  /\ IF mode = 0 THEN EnterDrive ELSE pc' = "out" /\ UNCHANGED <<i, history>>
  /\ UNCHANGED <<registry, mode, ev, cur, ops>>

EpollWaitFails ==
  /\ pc = "wait"
  /\ pc' = "out"
  /\ UNCHANGED <<registry, loop, ops, history>>

\* The event's data.ptr is followed without looking at ed.
EventCall ==
  /\ pc = "dispatch"
  /\ i < Len(ev)
  /\ Call(ev[i + 1])
  /\ pc' = "cb_event"
  /\ UNCHANGED <<registry, mode, i, ev, ops, history>>

DispatchEnds ==
  /\ pc = "dispatch"
  /\ i >= Len(ev)
  /\ i' = 0
  /\ ev' = <<>>
  /\ pc' = "on_loop"
  /\ UNCHANGED <<registry, mode, cur, ops, history>>

OnLoopCall ==
  /\ pc = "on_loop"
  /\ i < Len(ed)
  /\ Call(ed[i + 1])
  /\ pc' = "cb_loop"
  /\ UNCHANGED <<registry, mode, i, ev, ops, history>>

OnLoopEnds ==
  /\ pc = "on_loop"
  /\ i >= Len(ed)
  /\ IF mode = 0 THEN EnterDrive ELSE pc' = "out" /\ UNCHANGED <<i, history>>
  /\ UNCHANGED <<registry, mode, ev, cur, ops>>

\* Mutant: the index is advanced twice.
Bad_CallbackReturns ==
  /\ pc \in {"cb_drive", "cb_event", "cb_loop"}
  /\ pc' = CASE pc = "cb_drive" -> "drive"
             [] pc = "cb_event" -> "dispatch"
             [] OTHER -> "on_loop"
  /\ i' = i + 2
  /\ cur' = NoCall
  /\ UNCHANGED <<registry, mode, ev, ops, history>>

\* A callback returns to its loop, which goes on with ++i.
CallbackReturns ==
  /\ pc \in {"cb_drive", "cb_event", "cb_loop"}
  /\ pc' = CASE pc = "cb_drive" -> "drive"
             [] pc = "cb_event" -> "dispatch"
             [] OTHER -> "on_loop"
  /\ i' = i + 1
  /\ cur' = NoCall
  /\ UNCHANGED <<registry, mode, ev, ops, history>>

RunStep ==
  \/ DriveCall \/ DriveEnds
  \/ EpollWait \/ EpollWaitInterrupted \/ EpollWaitFails
  \/ EventCall \/ DispatchEnds
  \/ OnLoopCall \/ OnLoopEnds

CallbackEnds == CallbackReturns \/ \E rc \in {0, 1} : BeforeWaitReturns(rc)

StartRun == \E m \in {0, 1} : hp_epoll_run(m)

Next ==
  \/ \E fd \in Fds : hp_epoll_add(fd) \/ hp_epoll_rm(fd)
  \/ StartRun
  \/ RunStep
  \/ CallbackEnds
  \/ hp_epoll_uninit

Spec == Init /\ [][Next]_vars

\* The program calls hp_epoll_run again and again, the function runs on (its
\* epoll_wait has a timeout), callbacks return, and before_wait does not fail
\* forever.
FairSpec ==
  /\ Spec
  /\ WF_vars(StartRun)
  /\ WF_vars(RunStep)
  /\ WF_vars(CallbackReturns)
  /\ SF_vars(BeforeWaitReturns(0))
-----------------------------------------------------------------------------
TypeOK ==
  /\ ed \in Seq(Addrs)
  /\ fdOf \in [Addrs -> Fds \cup {None}]
  /\ argOf \in [Addrs -> Nat]
  /\ interest \in [Fds -> Addrs \cup {None}]
  /\ pc \in {"out", "drive", "wait", "dispatch", "on_loop", "assert", "uninit"}
            \cup InCallback
  /\ mode \in {0, 1}
  /\ i \in Nat
  /\ ev \in Seq(Addrs)
  /\ cur \in [addr : Addrs \cup {None}, fd : Fds \cup {None}, arg : Nat]
  /\ ops \in Nat
  /\ latest \in [Fds -> Nat]
  /\ driven \in SUBSET Addrs
  /\ removed \in Nat

\* ed and the kernel's interest list name the same descriptors with the same
\* hp_epolld, and every hp_epolld of ed is allocated: whatever callbacks do,
\* neither side keeps a pointer the other has given up.
KernelAgrees ==
  /\ \A k \in 1..Len(ed) : fdOf[ed[k]] \in Fds /\ interest[fdOf[ed[k]]] = ed[k]
  /\ \A fd \in Fds : interest[fd] # None =>
       \E k \in 1..Len(ed) : ed[k] = interest[fd] /\ fdOf[ed[k]] = fd

\* No descriptor is registered twice.
NoDuplicates ==
  \A k, m \in 1..Len(ed) : fdOf[ed[k]] = fdOf[ed[m]] => k = m

\* assert(0) after EPOLL_CTL_ADD ("should NOT come here") is not reached.
AssertNotReached == pc # "assert"

\* The batch fits the array ev, which has max_ev_len slots although epoll_wait
\* is told there are ev_len + 1.
BatchFits == Len(ed) <= MaxEv /\ Len(ev) <= MaxEv

\* Every event that is still to be dispatched points at an hp_epolld that is
\* allocated and still registered, whatever the callbacks before it did.
BatchAlive ==
  pc \in {"dispatch", "cb_event"} =>
    \A k \in 1..Len(ev) :
      k > (IF pc = "dispatch" THEN i ELSE i + 1) =>
        \E m \in 1..Len(ed) : ed[m] = ev[k]

\* A callback always gets the arg of the latest hp_epoll_add for its
\* descriptor, never one that was replaced or belongs to a reused address.
CallsCurrentArg ==
  [][\A a \in Addrs : cur = NoCall /\ cur'.addr = a =>
       /\ cur'.fd \in Fds
       /\ latest[cur'.fd] = cur'.arg]_cur

\* One pass of the drive loop leaves out at most as many descriptors as were
\* removed while it ran.
DriveMisses ==
  pc = "wait" => Cardinality({k \in 1..Len(ed) : ed[k] \notin driven}) <= removed

\* A descriptor that stays registered is driven again and again.
EveryoneDriven ==
  \A fd \in Fds :
    <>[]Registered(fd) => []<>(pc = "cb_drive" /\ cur.fd = fd)
               \/ <>[](pc = "uninit")

\* The registry is the same in ed and in the kernel after any order of hp_epoll_add
\* and hp_epoll_rm, in callbacks too, and each descriptor is in it once.
RegistrySound == TypeOK /\ KernelAgrees /\ NoDuplicates /\ AssertNotReached

\* The events of a pass fit ev, and what is left of them survives the callbacks.
BatchSound == BatchFits /\ BatchAlive
=============================================================================
