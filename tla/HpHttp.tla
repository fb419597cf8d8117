------------------------------- MODULE HpHttp -------------------------------
(***************************************************************************)
(* The HTTP server of hp_http.c on hp_io_t: hp_httpreq_on_parse gives the  *)
(* bytes of the input buffer to http_parser (external), whose callbacks    *)
(* collect the URL of the request.  The request object lives as long as    *)
(* its connection; url, url_path and flags are never reset.                *)
(*                                                                         *)
(* A request is three tokens, <<n, k>> with n the number of the request on *)
(* its connection: k = 1 method, 2 URL, 3 the rest.                        *)
(***************************************************************************)
EXTENDS Integers, Sequences, FiniteSets

CONSTANTS
  HttpConns,    \* connections
  MaxRequests   \* bound: requests of a connection

VARIABLES
  hsent,        \* hsent[c]: requests the client sent
  hin,          \* hin[c]: tokens under way
  hbuf,         \* hbuf[c]: the input buffer of hp_io_t
  req,          \* req[c]: parser's position, flags, url
  reqlist,      \* the http->reqlist
  served,       \* served[c]: URLs on_request_cb was called with
  reply,        \* reply[c]: parts of responses queued
  single        \* single[c]: every read so far was one whole request

httpVars == <<hsent, hin, hbuf, req, reqlist, served, reply, single>>
HttpRequest(n) == <<<<n, 1>>, <<n, 2>>, <<n, 3>>>>
\* hp_httpreq_init
NewRequest == [at |-> 0, flags |-> 0, url |-> <<>>]
IsOpen(c) == c \in reqlist

HttpInit ==
  /\ hsent = [c \in HttpConns |-> 0] /\ hin = [c \in HttpConns |-> <<>>]
  /\ hbuf = [c \in HttpConns |-> <<>>] /\ req = [c \in HttpConns |-> NewRequest]
  /\ reqlist = {} /\ served = [c \in HttpConns |-> <<>>]
  /\ reply = [c \in HttpConns |-> <<>>] /\ single = [c \in HttpConns |-> TRUE]

\* hp_httpreq_on_new; if hp_io_add fails, the request is freed.
hp_httpreq_on_new(c) ==
  /\ ~IsOpen(c) /\ hsent[c] = 0
  /\ \E ok \in BOOLEAN : reqlist' = IF ok THEN reqlist \cup {c} ELSE reqlist
  /\ req' = [req EXCEPT ![c] = NewRequest]
  /\ UNCHANGED <<hsent, hin, hbuf, served, reply, single>>

ClientSends(c) ==
  /\ IsOpen(c) /\ hsent[c] < MaxRequests
  /\ hsent' = [hsent EXCEPT ![c] = @ + 1]
  /\ hin' = [hin EXCEPT ![c] = @ \o HttpRequest(hsent[c] + 1)]
  /\ UNCHANGED <<hbuf, req, reqlist, served, reply, single>>

\* http_parser: the tokens of buf continue what it has seen; after an error
\* it takes nothing more.
Broken == 9
Follows(at, buf) ==
  at # Broken /\ \A k \in 1..Len(buf) : buf[k][2] = ((at + k - 1) % 3) + 1
UrlsOf(buf) ==
  LET upto[k \in 0..Len(buf)] ==
        IF k = 0 THEN <<>>
        ELSE IF buf[k][2] = 2 THEN Append(upto[k - 1], buf[k][1]) ELSE upto[k - 1]
  IN  upto
Urls(buf) == UrlsOf(buf)[Len(buf)]

\* request_url_cb, on_message_complete
Executed(r, buf) ==
  [at |-> (r.at + Len(buf)) % 3, url |-> r.url \o Urls(buf),
   flags |-> IF r.at + Len(buf) >= 3 THEN 1 ELSE r.flags]

\* Mutant: what was parsed stays in the buffer.
Bad_Kept(r, buf) == buf

\* What stays in the buffer: all of it while no request was complete
Kept(r, buf) == IF r.flags = 1 THEN <<>> ELSE buf

\* The three parts of a response; hp_io_write of any of them may fail.
http_response(c) ==
  \E parts \in 0..3 :
    reply' = [reply EXCEPT ![c] = @ \o [k \in 1..parts |-> <<Len(served[c]) + 1, k>>]]

\* on_request_cb, then the response
hp_httpreq_on_dispatch(c, r) ==
  /\ served' = [served EXCEPT ![c] = Append(@, r.url)]
  /\ http_response(c) \/ UNCHANGED reply

\* hp_httpreq_on_parse after a read.  All that was parsed is taken off the buffer
\* once flags is set; before that nothing is, and it is parsed again.
hp_httpreq_on_parse(c) ==
  /\ IsOpen(c) /\ hin[c] # <<>>
  /\ \E n \in 1..Len(hin[c]) :
       LET buf == hbuf[c] \o SubSeq(hin[c], 1, n)
           r == Executed(req[c], buf)
       IN  /\ hin' = [hin EXCEPT ![c] = SubSeq(@, n + 1, Len(@))]
           /\ single' = [single EXCEPT ![c] = @ /\ buf = HttpRequest(Head(buf)[1])]
           /\ IF ~Follows(req[c].at, buf)
                THEN /\ req' = [req EXCEPT ![c].at = Broken]
                     /\ hbuf' = [hbuf EXCEPT ![c] = <<>>]
                     /\ UNCHANGED <<served, reply>>
              ELSE /\ req' = [req EXCEPT ![c] = r]
                   /\ hbuf' = [hbuf EXCEPT ![c] = Kept(r, buf)]
                   /\ IF r.flags = 1 THEN hp_httpreq_on_dispatch(c, r)
                      ELSE UNCHANGED <<served, reply>>
  /\ UNCHANGED <<hsent, reqlist>>

hp_httpreq_on_delete(c) ==
  /\ IsOpen(c)
  /\ reqlist' = reqlist \ {c}
  /\ hin' = [hin EXCEPT ![c] = <<>>] /\ hbuf' = [hbuf EXCEPT ![c] = <<>>]
  /\ UNCHANGED <<hsent, req, served, reply, single>>

HttpNext == \E c \in HttpConns :
  \/ hp_httpreq_on_new(c) \/ ClientSends(c)
  \/ hp_httpreq_on_parse(c) \/ hp_httpreq_on_delete(c)
HttpSpec == HttpInit /\ [][HttpNext]_httpVars
-----------------------------------------------------------------------------
\* No request is served that the client has not sent, and bytes stay in the
\* buffer only while no request was complete.
HttpTypeOK ==
  \A c \in HttpConns :
    /\ Len(served[c]) <= 3 * hsent[c]
    /\ hbuf[c] # <<>> => req[c].flags = 0 /\ served[c] = <<>>

\* The first request that on_request_cb gets is complete, and has its own URL if
\* it came in a read of its own.
FirstRequestWhole ==
  \A c \in HttpConns :
    /\ served[c] # <<>> => 3 * hsent[c] - Len(hin[c]) >= 3
    /\ single[c] /\ served[c] # <<>> => served[c][1] = <<1>>

\* Requests are served when they are complete, and the first with its own URL.
HttpSound == HttpTypeOK /\ FirstRequestWhole
=============================================================================
