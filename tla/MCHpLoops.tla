------------------------------ MODULE MCHpLoops ------------------------------
(***************************************************************************)
(* Instances of the poll loop, of what is driven by a loop (timers, signal *)
(* handlers) and of the test programs.  They share no state: a behaviour   *)
(* picks one component and lets it run, the others keep their first state. *)
(***************************************************************************)
EXTENDS HpPoll, HpTimers, HpSig, HpEcho, HpRpc, TLC

CONSTANTS fd1, fd2, fd3

VARIABLE component

\* The parameters of a component that stays idle are those of one instance.
Init ==
  /\ component \in {"poll", "timers", "sig", "echo", "rpc"}
  /\ PollInit /\ TimersInit /\ SigInit /\ EchoInit /\ RpcInit
  /\ component = "sig" \/ setup = [init |-> FALSE, on_chld |-> TRUE, on_exit |-> TRUE]
  /\ component = "echo" \/ (app = "poll" /\ Pairs = {1} /\ tick = 0 /\ tlen = 0)

Poll == component = "poll" /\ PollNext
  /\ UNCHANGED <<component, timersVars, sigVars, echoVars, rpcVars>>
Timers == component = "timers" /\ TimersNext
  /\ UNCHANGED <<component, pollVars, sigVars, echoVars, rpcVars>>
Sig == component = "sig" /\ SigNext
  /\ UNCHANGED <<component, pollVars, timersVars, echoVars, rpcVars>>
Echo == component = "echo" /\ EchoNext
  /\ UNCHANGED <<component, pollVars, timersVars, sigVars, rpcVars>>
Rpc == component = "rpc" /\ RpcNext
  /\ UNCHANGED <<component, pollVars, timersVars, sigVars, echoVars>>

Next == Poll \/ Timers \/ Sig \/ Echo \/ Rpc
vars == <<component, pollVars, timersVars, sigVars, echoVars, rpcVars>>

\* The fairness of the components, each where it runs.
Spec ==
  /\ Init /\ [][Next]_vars
  /\ WF_pollVars(component = "poll" /\ PollStart) /\ WF_pollVars(component = "poll" /\ PollStep)
  /\ SF_pollVars(component = "poll" /\ before_wait(0)) /\ SF_pollVars(component = "poll" /\ (poll \/ PollNothing))
  /\ WF_timersVars(component = "timers" /\ LoopPass) /\ WF_timersVars(component = "timers" /\ TimePasses)
  /\ WF_sigVars(component = "sig" /\ HandlerStep)
  /\ WF_echoVars(component = "echo" /\ echo_test)
  /\ \A p \in 1..MaxPairs : WF_echoVars(component = "echo" /\ p \in Pairs /\ EchoStep(p))
  /\ WF_rpcVars(component = "rpc" /\ RpcNext)
=============================================================================
