------------------------------ MODULE Forwarding ------------------------------
(***************************************************************************)
(* One request on its way through a forwarder - the proxy of 05 (via =     *)
(* "proxy") or forward() of 06 ("balancer") - to an origin and the answer  *)
(* back, in chunks, over two HTTP/1.1 connections that may break.  The     *)
(* origin behind the balancer is a node of 04: its RequestLoggingInterceptor *)
(* writes a line per request.  Which node the balancer picks is            *)
(* LoadBalancer's matter.                                                  *)
(***************************************************************************)
EXTENDS Naturals, Sequences

CONSTANTS MaxChunks,   \* bound on the chunks of an answer and of an upload
          BufferSize,  \* chunks a response holds before its source must wait
          Faults       \* subset of {"leave", "break", "stop"}

ASSUME ForwardingAssumption ==
  MaxChunks \in Nat /\ BufferSize \in Nat \ {0} /\ Faults \subseteq {"leave", "break", "stop"}

VARIABLES request,  \* through which forwarder, and what it asks
          client,   \* who sends the upload and reads the answer
          res,      \* the forwarder's response to the client
          conn,     \* "none", "open" or "broken": its connection to the origin
          origin    \* what the origin has received and sent

vars == <<request, client, res, conn, origin>>

\* Requests a forwarder answers itself: not GET, no absolute URL, not http
\* (05); not POST, GET or DELETE, registration still open, no nodes (06).
OwnStatus ==
  [proxy    |-> [method |-> 405, target |-> 400, protocol |-> 502],
   balancer |-> [method |-> 405, notReady |-> 503, noNodes |-> 503]]

Kinds(via) == {"forward"} \cup DOMAIN OwnStatus[via]
Framings == {"length", "chunked", "close"}

Init ==
  /\ request \in UNION {{[via |-> via, kind |-> k] : k \in Kinds(via)} : via \in {"proxy", "balancer"}}
  /\ client \in [there : {TRUE}, unsent : IF request.via = "proxy" THEN {0} ELSE 0 .. MaxChunks,
                 got : {0}, heard : {"waiting"}]
  /\ res = [status |-> 0, own |-> FALSE, taken |-> 0, ended |-> FALSE, destroyed |-> FALSE]
  /\ conn = "none"
  /\ origin = [stage |-> "unreached", upload |-> "open", body |-> 0, framing |-> "chunked",
               sent |-> 0, over |-> "no", finished |-> FALSE, log |-> <<>>]

-----------------------------------------------------------------------------
(* The forwarder *)

headersSent == res.status # 0

\* writeHead and end with a message of one chunk.
responseWithError(status) ==
  res' = [res EXCEPT !.status = status, !.own = TRUE, !.taken = 1, !.ended = TRUE]

destroy == res' = [res EXCEPT !.destroyed = TRUE]

AnswerItself ==
  /\ request.kind # "forward" /\ ~headersSent
  /\ responseWithError(OwnStatus[request.via][request.kind])
  /\ UNCHANGED <<request, client, conn, origin>>

\* httpRequest; the proxy ends it at once, the balancer pipes the upload to it.
Forward ==
  /\ request.kind = "forward" /\ conn = "none"
  /\ conn' = "open"
  /\ origin' = [origin EXCEPT !.upload = IF request.via = "proxy" THEN "whole" ELSE "open"]
  /\ UNCHANGED <<request, client, res>>

\* The exchange with the origin is over and its connection free.
Exchanged == res.ended /\ ~res.own /\ origin.upload = "whole"

onErrorAlways502 == responseWithError(502)
onErrorOnlyBeforeHead == IF headersSent THEN UNCHANGED res ELSE responseWithError(502)

\* The 'error' listener of upstreamReq.
onError == IF headersSent THEN destroy ELSE responseWithError(502)

\* Refused, reset, timed out by the system: what is on the wire is lost.
UpstreamBreaks ==
  /\ "break" \in Faults /\ conn = "open" /\ ~Exchanged
  /\ conn' = "broken" /\ onError
  /\ UNCHANGED <<request, client, origin>>

\* pipeline(req, upstreamReq), while the client is there.
PipeUpload ==
  /\ conn = "open" /\ client.there /\ origin.upload = "open" /\ client.unsent > 0
  /\ client' = [client EXCEPT !.unsent = @ - 1]
  /\ UNCHANGED <<request, res, conn, origin>>

EndUpload ==
  /\ conn = "open" /\ client.there /\ origin.upload = "open" /\ client.unsent = 0
  /\ origin' = [origin EXCEPT !.upload = "whole"]
  /\ UNCHANGED <<request, client, res, conn>>

\* ... and when it has left in the middle: upstreamReq is destroyed, which
\* emits its 'error' or, once the head is there, breaks the other pipeline.
AbortUpload ==
  /\ conn = "open" /\ ~client.there /\ origin.upload = "open"
  /\ conn' = "broken" /\ onError
  /\ UNCHANGED <<request, client, origin>>

\* The response callback: the head is committed at once.  For a client that
\* has left, the pipeline started next fails and destroys both its streams.
TakeHead ==
  /\ conn = "open" /\ origin.stage = "answering" /\ ~headersSent
  /\ res' = [res EXCEPT !.status = 200, !.destroyed = ~client.there]
  /\ conn' = IF client.there THEN conn ELSE "broken"
  /\ UNCHANGED <<request, client, origin>>

\* pipeline(upstreamRes, res)
Relaying == conn = "open" /\ headersSent /\ ~res.ended /\ ~res.destroyed

TakeChunk ==
  /\ Relaying /\ client.there
  /\ origin.sent > res.taken /\ res.taken - client.got < BufferSize
  /\ res' = [res EXCEPT !.taken = @ + 1]
  /\ UNCHANGED <<request, client, conn, origin>>

AllTaken == origin.sent = res.taken

TakeEnd ==
  /\ Relaying /\ client.there /\ AllTaken /\ origin.over = "end"
  /\ res' = [res EXCEPT !.ended = TRUE]
  /\ UNCHANGED <<request, client, conn, origin>>

\* A body that ends with its connection cannot be told from one cut short.
LooksEnded == origin.framing = "close"

TakeStopAsEnd ==
  /\ conn = "open" /\ origin.over = "stopped" /\ AllTaken /\ conn' = "broken"
  /\ IF headersSent THEN res' = [res EXCEPT !.ended = TRUE] ELSE responseWithError(502)
  /\ UNCHANGED <<request, client, origin>>

\* The origin closed its side early: before the head "socket hang up", within
\* a framed body an error of upstreamRes, which the pipeline's catch turns
\* into res.destroy.
TakeStop ==
  /\ conn = "open" /\ origin.over = "stopped" /\ conn' = "broken"
  /\ IF origin.stage = "answering"
     THEN /\ Relaying /\ client.there /\ AllTaken
          /\ IF LooksEnded THEN res' = [res EXCEPT !.ended = TRUE] ELSE destroy
     ELSE onError
  /\ UNCHANGED <<request, client, origin>>

\* The pipeline sees the client's connection closed.
NoticeLeft ==
  /\ Relaying /\ ~client.there
  /\ conn' = "broken" /\ destroy
  /\ UNCHANGED <<request, client, origin>>

-----------------------------------------------------------------------------
(* The client *)

HasLength == headersSent /\ ~res.own /\ origin.framing = "length"
HasAll == HasLength /\ client.got = origin.body

Receive ==
  /\ client.there /\ client.heard = "waiting" /\ client.got < res.taken
  /\ client' = [client EXCEPT !.got = @ + 1]
  /\ UNCHANGED <<request, res, conn, origin>>

ReceiveEnd ==
  /\ client.there /\ client.heard = "waiting" /\ headersSent /\ client.got = res.taken
  /\ HasAll \/ (~HasLength /\ res.ended)
  /\ client' = [client EXCEPT !.heard = "whole"]
  /\ UNCHANGED <<request, res, conn, origin>>

\* How much of what was buffered still arrived is up to the connection.
SeeCut ==
  /\ client.there /\ client.heard = "waiting" /\ res.destroyed /\ ~HasAll
  /\ client' = [client EXCEPT !.heard = "cut", !.there = FALSE]
  /\ UNCHANGED <<request, res, conn, origin>>

Leave ==
  /\ "leave" \in Faults /\ client.there
  /\ client' = [client EXCEPT !.there = FALSE]
  /\ UNCHANGED <<request, res, conn, origin>>

-----------------------------------------------------------------------------
(* The origin *)

Reach ==
  /\ conn = "open" /\ origin.stage = "unreached"
  /\ origin' = [origin EXCEPT !.stage = "handling"]
  /\ UNCHANGED <<request, client, res, conn>>

\* It may answer before it has the upload.
StartAnswer ==
  /\ conn = "open" /\ origin.stage = "handling" /\ origin.over = "no"
  /\ \E n \in 0 .. MaxChunks, f \in Framings :
       origin' = [origin EXCEPT !.stage = "answering", !.body = n, !.framing = f]
  /\ UNCHANGED <<request, client, res, conn>>

Answering == conn = "open" /\ origin.stage = "answering" /\ origin.over = "no"

SendChunk ==
  /\ Answering /\ origin.sent < origin.body
  /\ origin' = [origin EXCEPT !.sent = @ + 1]
  /\ UNCHANGED <<request, client, res, conn>>

SendEnd ==
  /\ Answering /\ origin.sent = origin.body
  /\ origin' = [origin EXCEPT !.over = "end"]
  /\ UNCHANGED <<request, client, res, conn>>

\* It closes the connection early: its handler destroyed the response.
Stop ==
  /\ "stop" \in Faults /\ conn = "open" /\ origin.stage # "unreached" /\ origin.over = "no"
  /\ ~(origin.stage = "answering" /\ origin.framing = "length" /\ origin.sent = origin.body)
  /\ origin' = [origin EXCEPT !.over = "stopped"]
  /\ UNCHANGED <<request, client, res, conn>>

\* RequestLoggingInterceptor of 04: res.on('finish'), res.on('close').
Logs == request.via = "balancer" /\ origin.stage # "unreached"

finishEachTime(message) == Append(origin.log, message)
finish(message) == IF origin.log = <<>> THEN <<message>> ELSE origin.log

\* All of the response has been handed to the system.
OnFinish ==
  /\ Logs /\ conn = "open" /\ origin.over = "end" /\ ~origin.finished
  /\ origin' = [origin EXCEPT !.finished = TRUE, !.log = finish("request completed")]
  /\ UNCHANGED <<request, client, res, conn>>

Closed == origin.finished \/ origin.over = "stopped" \/ conn = "broken"

\* After 'finish', or without it when the connection ends first.
OnClose ==
  /\ Logs /\ Closed
  /\ origin' = [origin EXCEPT !.log = finish("request aborted")]
  /\ UNCHANGED <<request, client, res, conn>>

-----------------------------------------------------------------------------

Forwarder == \/ AnswerItself \/ Forward \/ PipeUpload \/ EndUpload \/ AbortUpload
             \/ TakeHead \/ TakeChunk \/ TakeEnd \/ TakeStop \/ NoticeLeft
Client == Receive \/ ReceiveEnd \/ SeeCut
Origin == Reach \/ StartAnswer \/ SendChunk \/ SendEnd \/ OnFinish \/ OnClose
Next == Forwarder \/ Client \/ Origin \/ UpstreamBreaks \/ Leave \/ Stop

Spec == Init /\ [][Next]_vars

\* The forwarder's event loop runs.  Neither it nor forward() has a timeout:
\* that the client keeps sending and reading and the origin answers is assumed.
FairSpec == Spec /\ WF_vars(Forwarder) /\ WF_vars(Client) /\ WF_vars(Origin)

-----------------------------------------------------------------------------
(* Properties *)

\* "a later origin error can no longer become a clean error status": what the
\* client has been told is never taken back, the two 'error' paths and the two
\* pipelines notwithstanding.
NothingTakenBack ==
  [][/\ headersSent => res'.status = res.status /\ res'.own = res.own
     /\ res'.taken >= res.taken /\ client'.got >= client.got]_vars

\* A transfer that broke is never mistaken for a whole one: not the answer by
\* the client, unless the origin marks its end by closing, not the upload by
\* the origin.
NothingCutLooksWhole ==
  /\ client.heard = "whole" /\ ~res.own =>
       \/ client.got = origin.body
       \/ origin.framing = "close" /\ origin.over = "stopped"
  /\ origin.upload = "whole" => client.unsent = 0

\* "One structured log line per HTTP request": never two although 'close'
\* follows 'finish', and "completed" only for a response sent to its end.
OneLogLine ==
  /\ Len(origin.log) <= 1
  /\ origin.log = <<"request completed">> <=> origin.finished

\* A request comes to rest: the client has its whole answer, knows that it is
\* cut, or has left; the connection to the origin is free or closed; the node
\* has written its log line.
Settles ==
  <>[](/\ client.heard # "waiting" \/ ~client.there
       /\ conn # "open" \/ Exchanged
       /\ Logs => origin.log # <<>>)
=============================================================================
