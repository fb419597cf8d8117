----------------------------- MODULE MCHpThreads -----------------------------
(***************************************************************************)
(* Instances of the components whose state is shared with other threads or *)
(* with the kernel: the completion port loop and the file watches.  They   *)
(* share no state with each other: a behaviour picks one.                  *)
(***************************************************************************)
EXTENDS HpIocp, HpInotify

CONSTANTS w1, none

VARIABLE component

DirPaths == {<<"a">>, <<"a", "b">>}

Init ==
  /\ component \in {"iocp", "inotify"}
  /\ IocpInit /\ InotifyInit
  /\ component = "inotify" \/ hooked

Iocp == component = "iocp" /\ IocpNext /\ UNCHANGED <<component, inotifyVars>>
Inotify == component = "inotify" /\ InotifyNext /\ UNCHANGED <<component, iocpVars>>

Next == Iocp \/ Inotify
vars == <<component, iocpVars, inotifyVars>>

\* The fairness of the components, each where it runs.
Spec ==
  /\ Init /\ [][Next]_vars
  /\ WF_iocpVars(component = "iocp" /\ UserStep) /\ WF_iocpVars(component = "iocp" /\ PollThreadStep)
  /\ \A t \in PortThreads :
       WF_iocpVars(component = "iocp" /\ (GetQueuedCompletionStatus(t) \/ PostCompletion(t)))
  /\ WF_iocpVars(component = "iocp" /\ SendCompletes)
  /\ WF_iocpVars(component = "iocp" /\ (WaitForThreads \/ WaitForPollThread))
  /\ WF_inotifyVars(component = "inotify" /\ hp_inotify_iread_event)
  /\ WF_inotifyVars(component = "inotify" /\ epoll_before_wait)
=============================================================================
