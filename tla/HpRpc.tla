-------------------------------- MODULE HpRpc -------------------------------
(***************************************************************************)
(* The HTTP and JSON-RPC test of hp_io_t.cpp: a client and a server in one *)
(* loop, four requests one after the other (a page, two calls, a page that *)
(* does not exist), each sent when the answer to the one before has come.  *)
(*                                                                         *)
(* Request and response m are <<m, part>> in order: the two parts of the   *)
(* header, then the body, which the page requests have not.  A read may    *)
(* bring any prefix of what is in flight.  Both sides parse with sscanf,   *)
(* JSONRPC_PARSE, from the start of what they have collected.              *)
(***************************************************************************)
EXTENDS Integers, Sequences

VARIABLES
  flags,         \* httpclient::flags: 0 to 3, the request sent last; 4
  server, peer,  \* the two sides: [in, buf], what on_parse has collected and
                 \* what it has left in the read buffer
  wire,          \* wire.req, wire.resp: in flight
  cutoff         \* a read has brought a part of a message

rpcVars == <<flags, server, peer, wire, cutoff>>

Page == {0, 3}
Header(m) == <<<<m, "line">>, <<m, "head">>>>
Json(m) == <<<<m, "body">>>>
HTTP_REQ(m) == IF m \in Page THEN Header(m) ELSE Header(m) \o Json(m)
HTTP_RESP(m) == Header(m) \o Json(m)

\* test_hp_io_t_main: the first request is written before the loop.
RpcInit ==
  /\ flags = 0
  /\ server = [in |-> <<>>, buf |-> <<>>] /\ peer = server
  /\ wire = [req |-> HTTP_REQ(0), resp |-> <<>>]
  /\ cutoff = FALSE

\* Mutant: one conversion more is asked for.
Bad_JSONRPC_PARSE(in) ==
  IF Len(in) > 2 /\ SubSeq(in, 1, 2) = Header(in[1][1]) THEN 3 ELSE 0

\* sscanf matches if the header is whole and first; 0 parts: no match.
JSONRPC_PARSE(in) ==
  IF Len(in) >= 2 /\ SubSeq(in, 1, 2) = Header(in[1][1])
    THEN IF Len(in) > 2 /\ in[3] = Json(in[1][1])[1] THEN 3 ELSE 2
    ELSE 0

Parsed(in, buf) == [in |-> <<>>, buf |-> <<>>]

\* on_parse returned 0: the buffer is kept, although in has its bytes too.
NeedMore(in, buf) == [in |-> in, buf |-> buf]

\* test_http_server_on_dispatch: a call without its JSON is not answered.
test_http_server_on_dispatch(m, n) ==
  IF m \in Page \/ n = 3 THEN HTTP_RESP(m) ELSE <<>>

test_http_server_on_parse(n) ==
  /\ n \in 1..Len(wire.req)
  /\ LET buf == server.buf \o SubSeq(wire.req, 1, n)
         in == server.in \o buf
         parts == JSONRPC_PARSE(in)
         left == SubSeq(wire.req, n + 1, Len(wire.req))
     IN  /\ server' = IF parts = 0 THEN NeedMore(in, buf) ELSE Parsed(in, buf)
         /\ wire' = [req |-> left,
                     resp |-> wire.resp \o IF parts = 0 THEN <<>>
                                ELSE test_http_server_on_dispatch(in[1][1], parts)]
         /\ cutoff' = (cutoff \/ left # <<>>)
  /\ UNCHANGED <<flags, peer>>

\* A status other than 200 ends the exchange; the -1 it returns with, for
\* "HTTP client close actively", is ignored by the library.  The calls'
\* answers are asserted to have their JSON.
test_http_cli_on_dispatch(m, n) ==
  /\ flags \in {1, 2} => n = 3
  /\ flags' = IF m = 3 /\ flags < 3 THEN flags ELSE flags + 1

test_http_cli_on_parse(n) ==
  /\ n \in 1..Len(wire.resp)
  /\ LET buf == peer.buf \o SubSeq(wire.resp, 1, n)
         in == peer.in \o buf
         parts == JSONRPC_PARSE(in)
         left == SubSeq(wire.resp, n + 1, Len(wire.resp))
     IN  /\ IF parts = 0
              THEN peer' = NeedMore(in, buf) /\ UNCHANGED flags
              ELSE peer' = Parsed(in, buf)
                   /\ test_http_cli_on_dispatch(in[1][1], parts)
         /\ wire' = [resp |-> left,
                     req |-> wire.req \o IF flags' \in {flags, 4} THEN <<>>
                               ELSE HTTP_REQ(flags')]
         /\ cutoff' = (cutoff \/ left # <<>>)
  /\ UNCHANGED server

RpcNext ==
  \E n \in 1..3 : test_http_server_on_parse(n) \/ test_http_cli_on_parse(n)

RpcFair == WF_rpcVars(RpcNext)
-----------------------------------------------------------------------------
Headers(s) == {s[j][1] : j \in {i \in DOMAIN s : s[i][2] = "line"}}

\* What the client takes for the answer to its request is that answer: the
\* numbers it subtracts, the status it waits for, belong to the request it
\* sent last, however the messages were cut: no other header is in flight.
RpcInStep == Headers(wire.req) \cup Headers(wire.resp) \subseteq {flags}

\* The exchange reaches the end, flags = 4, unless a read brings a part of a
\* message: the parts collected so far are then appended a second time with
\* the rest, a body without its header never parses (hp_io_t.cpp:664, 764).
RpcCompletes == wire # [req |-> HTTP_REQ(0), resp |-> <<>>] ~> flags = 4 \/ cutoff

\* The exchange of the HTTP and JSON-RPC test stays in step and comes to its end.
RpcWorks == []RpcInStep /\ RpcCompletes
=============================================================================
