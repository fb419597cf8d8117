------------------------------- MODULE HpEcho -------------------------------
(***************************************************************************)
(* client_server_echo_test, the closed application that hp_io_t.cpp,       *)
(* hp_poll.c and hp_iocp.c each hold in their tests: a listener, n         *)
(* clients and the n ends the server accepts run in one loop, exchange     *)
(* "hello" and "world" in a way that depends on the test's number, close   *)
(* each other, and the loop ends when all that is left is the listener.    *)
(*                                                                         *)
(* A word is Pieces pieces, and TCP may deliver it one piece at a time: an *)
(* end counts the pieces it has collected.  What is written is in flight   *)
(* at once; the queues below are HpWr's and HpRd's.                        *)
(***************************************************************************)
EXTENDS Integers, FiniteSets

CONSTANTS
  Pieces,       \* pieces of a word, and of test 4's payload
  MaxPairs      \* largest n

ASSUME EchoAssumption == Pieces \in Nat \ {0} /\ MaxPairs \in Nat \ {0}

VARIABLES
  app,          \* the loop the program runs on, "io_t", "poll" or "iocp"
  cli, srv,     \* cli[p], srv[p]: the two ends of pair p
  toS, toC,     \* toS[p], toC[p]: pieces in flight
  tick, tlen,   \* the static counters n of s_on_loop, tlen of s_on_data
  split,        \* a poll client got "world" in more than one read
  tdone, over   \* s_tdone; the loop has ended

net == <<toS, toC>>
counters == <<tick, tlen, split>>
echoVars == <<app, cli, srv, toS, toC, tick, tlen, split, tdone, over>>

Pairs == DOMAIN cli
Tests == [io_t |-> 1..3, poll |-> {1}, iocp |-> 1..4]
End(st, test, left) == [st |-> st, test |-> test, in |-> 0, left |-> left]

\* A client writes "hello" before the loop, on io_t in test 1 only, in test 3 of
\* iocp its last character; an end's other characters are still to write.
io_t_FirstWrite(t) == IF t = 1 THEN Pieces ELSE 0
poll_FirstWrite(t) == Pieces
iocp_FirstWrite(t) == IF t = 3 THEN 1 ELSE Pieces

EchoInit ==
  /\ app \in DOMAIN Tests
  /\ \E n \in 1..MaxPairs, t \in Tests[app] :
       LET first == CASE app = "io_t" -> io_t_FirstWrite(t)
                      [] app = "poll" -> poll_FirstWrite(t)
                      [] OTHER -> iocp_FirstWrite(t)
       IN  /\ cli = [p \in 1..n |-> End("open", t, Pieces - first)]
           /\ srv = [p \in 1..n |-> End("backlog", t, Pieces)]
           /\ toS = [p \in 1..n |-> first]
  /\ toC = [p \in DOMAIN cli |-> 0]
  /\ tick \in 0..2 /\ tlen \in {0, Pieces} /\ split = FALSE /\ tdone = FALSE /\ over = FALSE
-----------------------------------------------------------------------------
(* Moves of one end *)

Registered(e) == e.st \in {"open", "shut"}
Whole(e) == e.in >= Pieces
Shut(e) == [e EXCEPT !.st = "shut", !.test = 0]

\* The server's end of p becomes e and writes w pieces, k were read.
ServerMoves(p, k, e, w) ==
  /\ srv' = [srv EXCEPT ![p] = e]
  /\ toS' = [toS EXCEPT ![p] = @ - k]
  /\ toC' = [toC EXCEPT ![p] = IF cli[p].st = "gone" THEN 0 ELSE @ + w]
  /\ UNCHANGED <<app, cli, tick, tdone, over>>

ClientMoves(p, k, e, w) ==
  /\ cli' = [cli EXCEPT ![p] = e]
  /\ toC' = [toC EXCEPT ![p] = @ - k]
  /\ toS' = [toS EXCEPT ![p] = IF srv[p].st = "gone" THEN 0 ELSE @ + w]
  /\ UNCHANGED <<app, srv, tick, tlen, tdone, over>>

\* The server's end of p is registered and writes w pieces.
Accepted(p, w) ==
  /\ srv[p].st = "backlog"
  /\ ServerMoves(p, 0, [srv[p] EXCEPT !.st = "open"], w)
  /\ UNCHANGED <<tlen, split>>

\* In test 3 io_t's server writes first.
s_on_new(p) == app = "io_t" /\ Accepted(p, IF srv[p].test = 3 THEN Pieces ELSE 0)
test_on_accept(p) == app = "poll" /\ Accepted(p, 0)
s_on_accept(p) == app = "iocp" /\ Accepted(p, 0)
-----------------------------------------------------------------------------
(* hp_io_t.cpp *)

\* Mutant: what was read before is not kept.
Bad_on_parse(e, k) == IF e.test \in {1, 3} THEN [e EXCEPT !.in = k] ELSE e

\* s_on_parse and c_on_parse: tests 1 and 3 collect, everything is taken.
on_parse(e, k) == IF e.test \in {1, 3} THEN [e EXCEPT !.in = @ + k] ELSE e

\* s_on_parse, s_on_dispatch
io_t_ServerData(p, k) ==
  LET e == on_parse(srv[p], k)
  IN  /\ CASE e.test = 1 /\ Whole(e) -> ServerMoves(p, k, [e EXCEPT !.test = 0], Pieces)
           [] e.test = 3 /\ Whole(e) -> ServerMoves(p, k, Shut(e), 0)
           [] OTHER -> ServerMoves(p, k, e, 0)
      /\ UNCHANGED <<tlen, split>>

\* c_on_parse, c_on_dispatch
io_t_ClientData(p, k) ==
  LET e == on_parse(cli[p], k)
  IN  /\ CASE e.test = 1 /\ Whole(e) -> ClientMoves(p, k, Shut(e), 0)
           [] e.test = 3 /\ Whole(e) -> ClientMoves(p, k, [e EXCEPT !.test = 0], Pieces)
           [] OTHER -> ClientMoves(p, k, e, 0)
      /\ UNCHANGED split

\* Every server end of test 2 decrements the one static counter; what it
\* returns, -1, is ignored by the loop.
s_on_loop(p) ==
  /\ app = "io_t" /\ srv[p].st = "open" /\ srv[p].test = 2
  /\ tick' = IF tick > 0 THEN tick - 1 ELSE 0
  /\ srv' = [srv EXCEPT ![p] = IF tick' = 0 THEN Shut(@) ELSE @]
  /\ UNCHANGED <<app, cli, net, tlen, split, tdone, over>>
-----------------------------------------------------------------------------
(* hp_poll.c *)

server_on_data(p, k) ==
  LET e == [srv[p] EXCEPT !.in = @ + k]
  IN  /\ ServerMoves(p, k, e, IF Whole(e) THEN Pieces ELSE 0)
      /\ UNCHANGED <<tlen, split>>

\* It compares what this read brought, not what it has collected.
client_on_data(p, k) ==
  LET e == [cli[p] EXCEPT !.in = @ + k]
  IN  /\ ClientMoves(p, k, IF k >= Pieces THEN [e EXCEPT !.st = "shut"] ELSE e, 0)
      /\ split' = (split \/ k < Pieces)
-----------------------------------------------------------------------------
(* hp_iocp.c *)

\* Test 3: every call writes one more character, backwards; what is shorter
\* than the word is left in the buffer.
writelchr(e) == [e EXCEPT !.left = IF @ > 0 THEN @ - 1 ELSE 0]
Writes(e) == IF e.left > 0 THEN 1 ELSE 0

s_on_data(p, k) ==
  LET e == [srv[p] EXCEPT !.in = @ + k]
  IN  /\ CASE e.test \in {1, 2} /\ Whole(e) -> ServerMoves(p, k, [e EXCEPT !.test = 0], Pieces)
           [] e.test = 3 -> ServerMoves(p, k,
                [writelchr(e) EXCEPT !.test = IF Whole(e) THEN 0 ELSE 3], Writes(e))
           [] e.test = 4 /\ tlen + k = Pieces -> ServerMoves(p, k, [e EXCEPT !.st = "gone", !.test = 0], 0)
           [] OTHER -> ServerMoves(p, k, e, 0)
      /\ tlen' = IF e.test = 4 THEN tlen + k ELSE tlen
      /\ UNCHANGED split

\* Test 2's client shuts sending and then writes: the write fails, c_on_error.
c_on_data(p, k) ==
  LET e == [cli[p] EXCEPT !.in = @ + k]
      gone == [e EXCEPT !.st = "gone", !.test = 0]
  IN  /\ CASE e.test \in {1, 2} /\ Whole(e) -> ClientMoves(p, k, gone, 0)
           [] e.test = 3 -> ClientMoves(p, k,
                IF Whole(e) THEN gone ELSE writelchr(e), Writes(e))
           [] OTHER -> ClientMoves(p, k, e, 0)
      /\ UNCHANGED split
-----------------------------------------------------------------------------
(* The loop *)

ServerReads(p, k) ==
  /\ srv[p].st = "open" /\ k \in 1..toS[p]
  /\ \/ app = "io_t" /\ io_t_ServerData(p, k)
     \/ app = "poll" /\ server_on_data(p, k)
     \/ app = "iocp" /\ s_on_data(p, k)

ClientReads(p, k) ==
  /\ cli[p].st = "open" /\ k \in 1..toC[p]
  /\ \/ app = "io_t" /\ io_t_ClientData(p, k)
     \/ app = "poll" /\ client_on_data(p, k)
     \/ app = "iocp" /\ c_on_data(p, k)

\* An end is shut, or its peer's is and all it sent has been read.
ServerEnds(p) ==
  /\ \/ srv[p].st = "shut"
     \/ srv[p].st = "open" /\ cli[p].st \in {"shut", "gone"} /\ toS[p] = 0
  /\ ServerMoves(p, toS[p], [srv[p] EXCEPT !.st = "gone"], 0)
  /\ UNCHANGED <<tlen, split>>

ClientEnds(p, test) ==
  /\ \/ cli[p].st = "shut"
     \/ cli[p].st = "open" /\ srv[p].st \in {"shut", "gone"} /\ toC[p] = 0
  /\ ClientMoves(p, toC[p], [cli[p] EXCEPT !.st = "gone", !.test = test], 0)
  /\ UNCHANGED split

s_on_delete(p) == app = "io_t" /\ ServerEnds(p)
server_on_error(p) == app = "poll" /\ ServerEnds(p)
s_on_error(p) == app = "iocp" /\ ServerEnds(p)
c_on_delete(p) == app = "io_t" /\ ClientEnds(p, cli[p].test)
client_on_error(p) == app = "poll" /\ ClientEnds(p, cli[p].test)
\* The error is what test 2 has been waiting for.
c_on_error(p) == app = "iocp" /\ ClientEnds(p, IF cli[p].test = 2 THEN 0 ELSE cli[p].test)

\* What hp_io_find, hp_iocp_find and hp_poll_size look at
Ends == {cli[p] : p \in Pairs} \cup {srv[p] : p \in Pairs}
checkiftestrunning == \E e \in Ends : Registered(e) /\ e.test # 0

\* After every pass: only the listener is left.
LoopEnds2 ==
  /\ \A e \in Ends : ~Registered(e)
  /\ over' = TRUE /\ UNCHANGED <<app, cli, srv, net, counters, tdone>>

TestDone ==
  /\ ~tdone /\ ~checkiftestrunning
  /\ tdone' = TRUE /\ UNCHANGED <<app, cli, srv, net, counters, over>>

io_t_echo_test == app = "io_t" /\ (TestDone \/ (tdone /\ LoopEnds2))
poll_echo_test == app = "poll" /\ LoopEnds2
iocp_echo_test == app = "iocp" /\ (TestDone \/ (tdone /\ LoopEnds2))
echo_test == ~over /\ (io_t_echo_test \/ poll_echo_test \/ iocp_echo_test)

EchoStep(p) ==
  /\ ~over
  /\ \/ s_on_new(p) \/ test_on_accept(p) \/ s_on_accept(p) \/ s_on_loop(p)
     \/ s_on_delete(p) \/ server_on_error(p) \/ s_on_error(p)
     \/ c_on_delete(p) \/ client_on_error(p) \/ c_on_error(p)
     \/ \E k \in 1..2 * Pieces : ServerReads(p, k) \/ ClientReads(p, k)

EchoNext == echo_test \/ \E p \in Pairs : EchoStep(p)
EchoSpec == EchoInit /\ [][EchoNext]_echoVars

\* The loop serves every descriptor that is ready.
EchoFair ==
  /\ WF_echoVars(echo_test)
  /\ \A p \in 1..MaxPairs : WF_echoVars(p \in Pairs /\ EchoStep(p))
-----------------------------------------------------------------------------
\* When the loop ends every end is gone, every test is over and both sides of
\* every pair have had the other's word, none cut short: what the asserts
\* and the log of the three echo tests are there to show.
EchoClean ==
  over => \A p \in Pairs :
    /\ cli[p].st = "gone" /\ srv[p].st = "gone"
    /\ LET silent == app = "io_t" /\ cli[p].test = 2
           oneway == app = "iocp" /\ cli[p].test = 4
       IN  /\ silent \/ srv[p].in = Pieces
           /\ silent \/ oneway \/ cli[p].in = Pieces
           /\ silent \/ oneway \/ app = "poll" \/ {cli[p].test, srv[p].test} = {0}

\* Every echo test that got a connection ends, however "hello" is cut into reads, however many pairs
\* there are and whatever an earlier test has left in the static counter of
\* s_on_loop.  Two do not: poll's when a read brings a part of "world", and
\* iocp's test 4 when tlen, which the server's ends share, passes the total
\* (hp_poll.c:481, hp_iocp.c:1194, 1207).
EchoEnds ==
  (\E p \in Pairs : srv[p].st # "backlog") ~> over \/ split \/ tlen > Pieces

\* The echo tests end, and end clean.
EchoWorks == []EchoClean /\ EchoEnds
=============================================================================
