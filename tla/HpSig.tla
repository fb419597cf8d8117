------------------------------- MODULE HpSig --------------------------------
(***************************************************************************)
(* hp_sig.c: one handler for SIGTERM, SIGINT, SIGCHLD, SIGUSR1 and         *)
(* SIGUSR2.  It writes a log line in pieces and then calls back.  sa_mask  *)
(* is empty, so a handler may be interrupted by any other signal, not by   *)
(* its own; standard signals do not queue.  hp_sig_init without on_chld    *)
(* ignores SIGCHLD.  on_chld of the program waits for all children that    *)
(* have ended, on_exit ends the program, without it exit(0) does.          *)
(***************************************************************************)
EXTENDS Integers, Sequences, FiniteSets

CONSTANTS
  LogPieces,      \* write(2) calls of serverLogFromHandler
  MaxSignals,     \* bound: signals sent by others
  MaxChildren     \* bound: children

ASSUME SigAssumption == LogPieces \in Nat \ {0} /\ MaxSignals \in Nat /\ MaxChildren \in Nat

VARIABLES
  setup,          \* hp_sig_init has run, on_chld and on_exit are set or not
  pending,        \* signals that wait for delivery
  handlers,       \* running handlers, the latest last: sig, pieces written
  logged,         \* pieces on stderr, each with its signal
  zombies,        \* children that ended and were not waited for
  signals,        \* signals sent so far
  children,       \* children that ended so far
  called,         \* callbacks that were called
  ended           \* the program has ended

sigVars == <<setup, pending, handlers, logged, zombies, signals, children, called, ended>>

SigInit ==
  /\ setup \in [init : {FALSE}, on_chld : BOOLEAN, on_exit : BOOLEAN]
  /\ pending = {} /\ handlers = <<>> /\ logged = <<>>
  /\ zombies = 0 /\ signals = 0 /\ children = 0 /\ called = {} /\ ended = FALSE

\* The actions stay as they were; SIGCHLD is ignored when there is no on_chld.
hp_sig_init ==
  /\ ~setup.init /\ ~ended
  /\ setup' = [setup EXCEPT !.init = TRUE]
  /\ UNCHANGED <<pending, handlers, logged, zombies, signals, children, called, ended>>

\* Another process sends a signal; before hp_sig_init that ends the program.
SendSignal(sig) ==
  /\ ~ended /\ signals < MaxSignals
  /\ signals' = signals + 1
  /\ IF setup.init THEN pending' = pending \cup {sig} /\ UNCHANGED ended
     ELSE ended' = TRUE /\ UNCHANGED pending
  /\ UNCHANGED <<setup, handlers, logged, zombies, children, called>>

\* An ignored SIGCHLD leaves no zombie.
ChildEnds ==
  /\ ~ended /\ setup.init /\ children < MaxChildren
  /\ children' = children + 1
  /\ IF setup.on_chld
       THEN pending' = pending \cup {"CHLD"} /\ zombies' = zombies + 1
       ELSE UNCHANGED <<pending, zombies>>
  /\ UNCHANGED <<setup, handlers, logged, signals, called, ended>>

\* setupSignalHandlers: sa_mask is empty, sa_flags are 0.
Masked(sig) == \E k \in DOMAIN handlers : handlers[k].sig = sig

Deliver(sig) ==
  /\ sig \in pending /\ ~ended /\ ~Masked(sig)
  /\ pending' = pending \ {sig}
  /\ handlers' = Append(handlers, [sig |-> sig, at |-> 0])
  /\ UNCHANGED <<setup, logged, zombies, signals, children, called, ended>>

Running == handlers[Len(handlers)]

\* The innermost handler writes the next piece.
serverLogFromHandler ==
  /\ handlers # <<>> /\ ~ended /\ Running.at < LogPieces
  /\ logged' = Append(logged, [sig |-> Running.sig, piece |-> Running.at + 1])
  /\ handlers' = [handlers EXCEPT ![Len(handlers)].at = @ + 1]
  /\ UNCHANGED <<setup, pending, zombies, signals, children, called, ended>>

EndsProgram(sig) == sig \in {"TERM", "INT"}

\* Mutant: SIGCHLD returns before on_chld, as SIGUSR1 does.
Bad_Waits(sig) == FALSE

Waits(sig) == sig = "CHLD"

\* The callback: on_usr1 and on_usr2 return at once, on_chld waits, anything else
\* ends the program.
sigShutdownHandler ==
  /\ handlers # <<>> /\ ~ended /\ Running.at = LogPieces
  /\ called' = called \cup {Running.sig}
  /\ zombies' = IF Waits(Running.sig) THEN 0 ELSE zombies
  /\ ended' = EndsProgram(Running.sig)
  /\ handlers' = SubSeq(handlers, 1, Len(handlers) - 1)
  /\ logged' = IF Len(handlers) = 1 THEN <<>> ELSE logged
  /\ UNCHANGED <<setup, pending, signals, children>>

Signals == {"TERM", "INT", "USR1", "USR2"}

HandlerStep ==
  \/ \E sig \in Signals \cup {"CHLD"} : Deliver(sig)
  \/ serverLogFromHandler \/ sigShutdownHandler

SigNext ==
  \/ hp_sig_init
  \/ \E sig \in Signals : SendSignal(sig)
  \/ ChildEnds
  \/ HandlerStep

\* Signals are delivered and handlers run on.
SigFair == WF_sigVars(HandlerStep)

SigSpec == SigInit /\ [][SigNext]_sigVars /\ SigFair
-----------------------------------------------------------------------------
\* Handlers nest, but the handler of a signal is not entered twice, and an outer one
\* goes on where it was: the latest pieces of its signal are those it has written, in
\* order.
HandlersNest ==
  /\ \A j, k \in DOMAIN handlers : handlers[j].sig = handlers[k].sig => j = k
  /\ \A k \in DOMAIN handlers : \A p \in 1..handlers[k].at :
       \E j \in DOMAIN logged :
         /\ logged[j] = [sig |-> handlers[k].sig, piece |-> p]
         /\ \A i \in j + 1..Len(logged) :
              logged[i].sig = handlers[k].sig => logged[i].piece \in p + 1..handlers[k].at

\* The program ends by SIGTERM and SIGINT only, once it has installed its handlers.
EndsOnRequest ==
  ended /\ setup.init => called \cap {"TERM", "INT"} # {}

\* A child that has ended has a SIGCHLD to come, or a handler that will wait for it.
NoneForgotten ==
  zombies > 0 => ended \/ "CHLD" \in pending \/ Masked("CHLD")

\* Every child is waited for, although several may end while one SIGCHLD is pending
\* or being handled.
ChildrenReaped == zombies > 0 ~> zombies = 0 \/ ended

\* A signal that asks the program to end ends it, whatever else arrives.
ExitHappens == "TERM" \in pending ~> ended

\* Signals that interrupt each other's handlers and are merged while pending still
\* have their effect, and no other.
SignalsHandled ==
  [](HandlersNest /\ EndsOnRequest /\ NoneForgotten) /\ ChildrenReaped /\ ExitHappens
=============================================================================
