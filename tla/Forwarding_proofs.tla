-------------------------- MODULE Forwarding_proofs --------------------------
(***************************************************************************)
(* Proofs about Forwarding: what the client and the origin can mistake for *)
(* whole, what is never taken back, and the log line, for every number of  *)
(* chunks, buffer size and set of faults.                                  *)
(***************************************************************************)
EXTENDS Forwarding, TLAPS

Asked == UNION {{[via |-> via, kind |-> k] : k \in Kinds(via)} : via \in {"proxy", "balancer"}}

\* The kinds of value the variables hold, as far as the proofs need them.
RequestShape == request \in Asked
ClientShape ==
  client \in [there : BOOLEAN, unsent : Nat, got : Nat, heard : {"waiting", "whole", "cut"}]
ResShape ==
  res \in [status : Nat, own : BOOLEAN, taken : Nat, ended : BOOLEAN, destroyed : BOOLEAN]
LogStates == {<<>>, <<"request completed">>, <<"request aborted">>}
OriginShape ==
  origin \in [stage : {"unreached", "handling", "answering"}, upload : {"open", "whole"},
              body : Nat, framing : Framings, sent : Nat,
              over : {"no", "end", "stopped"}, finished : BOOLEAN, log : LogStates]
Shape == RequestShape /\ ClientShape /\ ResShape /\ OriginShape

\* Nothing of an answer exists before its head; an answer relayed is the
\* origin's; one relayed to its end is whole, or ends where the origin closed a
\* connection that is its only mark of the end.
EndUnmarked == origin.framing = "close" /\ origin.over = "stopped"

AnswerInv ==
  /\ ~headersSent => res.taken = 0 /\ ~res.own /\ ~res.ended /\ client.heard # "whole"
  /\ headersSent /\ ~res.own => origin.stage = "answering"
  /\ origin.over = "end" => origin.stage = "answering" /\ origin.sent = origin.body
  /\ res.ended /\ ~res.own => \/ origin.over = "end" /\ res.taken = origin.body
                              \/ EndUnmarked
  /\ client.heard = "whole" /\ ~res.own => client.got = origin.body \/ EndUnmarked

\* A proxied request has no upload of its own to finish.
UploadInv ==
  /\ request.via = "proxy" => client.unsent = 0
  /\ origin.upload = "whole" => client.unsent = 0

\* A line is written only when the response is finished or its connection has
\* ended, which excludes that it finishes later.
LogInv ==
  /\ origin.log # <<>> => Closed
  /\ origin.log = <<"request completed">> <=> origin.finished

ForwardingInv == Shape /\ AnswerInv /\ UploadInv /\ LogInv

-----------------------------------------------------------------------------

LEMMA WiderClients ==
  ASSUME NEW T1, NEW T2, NEW N, NEW G, NEW H1, NEW H2, T1 \subseteq T2, N \subseteq Nat,
         G \subseteq Nat, H1 \subseteq H2,
         NEW c \in [there : T1, unsent : N, got : G, heard : H1]
  PROVE  c \in [there : T2, unsent : Nat, got : Nat, heard : H2]
OBVIOUS

LEMMA ForwardingInvInit == Init => ForwardingInv
<1> SUFFICES ASSUME Init PROVE ForwardingInv
  OBVIOUS
<1> USE ForwardingAssumption DEF Init
<1>1. RequestShape
  BY DEF RequestShape, Asked
<1>2. ClientShape
  <2> DEFINE Unsent == IF request.via = "proxy" THEN {0} ELSE 0 .. MaxChunks
  <2>1. client \in [there : {TRUE}, unsent : Unsent, got : {0}, heard : {"waiting"}]
    OBVIOUS
  <2>2. Unsent \subseteq Nat /\ {TRUE} \subseteq BOOLEAN
    OBVIOUS
  <2>3. {0} \subseteq Nat /\ {"waiting"} \subseteq {"waiting", "whole", "cut"}
    OBVIOUS
  <2> HIDE DEF Unsent
  <2> QED
    BY <2>1, <2>2, <2>3, WiderClients, Zenon DEF ClientShape
<1>3. ResShape /\ OriginShape
  BY DEF ResShape, OriginShape, Framings, LogStates
<1>4. AnswerInv
  BY DEF AnswerInv, headersSent, EndUnmarked
<1>5. UploadInv
  BY DEF UploadInv
<1>6. LogInv
  BY DEF LogInv, Closed
<1> QED
  BY <1>1, <1>2, <1>3, <1>4, <1>5, <1>6 DEF ForwardingInv, Shape

\* The statuses a forwarder answers with itself.
LEMMA OwnStatusIsStatus ==
  ASSUME request \in Asked, request.kind # "forward"
  PROVE  OwnStatus[request.via][request.kind] \in Nat \ {0}
<1>1. PICK via \in {"proxy", "balancer"} : \E k \in Kinds(via) : request = [via |-> via, kind |-> k]
  BY DEF Asked
<1>2. PICK k \in Kinds(via) : request = [via |-> via, kind |-> k]
  BY <1>1
<1>3. k \in DOMAIN OwnStatus[via]
  BY <1>2 DEF Kinds
<1>4. CASE via = "proxy"
  BY <1>2, <1>3, <1>4 DEF OwnStatus
<1>5. CASE via = "balancer"
  BY <1>2, <1>3, <1>5 DEF OwnStatus
<1> QED
  BY <1>1, <1>4, <1>5

\* An error ends the response: at once when its head is out, else with a 502.
Untouched == /\ res'.status = res.status /\ res'.own = res.own /\ res'.taken = res.taken
             /\ res'.ended = res.ended
OwnAnswer == res'.status # 0 /\ res'.own = TRUE /\ res'.taken = 1 /\ res'.ended = TRUE

LEMMA ErrorEffect ==
  ASSUME ResShape, onError
  PROVE  ResShape' /\ (Untouched \/ (~headersSent /\ OwnAnswer))
<1>1. CASE headersSent
  <2>1. res' = [res EXCEPT !.destroyed = TRUE]
    BY <1>1 DEF onError, destroy
  <2> QED
    BY <2>1 DEF ResShape, Untouched
<1>2. CASE ~headersSent
  <2>1. res' = [res EXCEPT !.status = 502, !.own = TRUE, !.taken = 1, !.ended = TRUE]
    BY <1>2 DEF onError, responseWithError
  <2>2. res' = [status |-> 502, own |-> TRUE, taken |-> 1, ended |-> TRUE,
                destroyed |-> res.destroyed]
    BY <2>1, ZenonT(30) DEF ResShape
  <2>3. ResShape'
    <3>1. res.destroyed \in BOOLEAN /\ 502 \in Nat /\ 1 \in Nat
      BY DEF ResShape
    <3> QED
      BY <2>2, <3>1, Zenon DEF ResShape
  <2>4. res'.status = 502 /\ res'.taken = 1
    BY <2>1 DEF ResShape
  <2>5. res'.own = TRUE /\ res'.ended = TRUE
    BY <2>1 DEF ResShape
  <2> QED
    BY <1>2, <2>3, <2>4, <2>5 DEF OwnAnswer
<1> QED
  BY <1>1, <1>2

LEMMA HeadEffect ==
  ASSUME ResShape, TakeHead
  PROVE  /\ ResShape' /\ res'.status = 200 /\ res'.own = res.own /\ res'.taken = res.taken
         /\ res'.ended = res.ended
<1>1. PICK left \in BOOLEAN : res' = [res EXCEPT !.status = 200, !.destroyed = left]
  <2>1. res' = [res EXCEPT !.status = 200, !.destroyed = ~client.there]
    BY DEF TakeHead
  <2>2. (~client.there) \in BOOLEAN
    OBVIOUS
  <2> QED
    BY <2>1, <2>2, Zenon
<1>2. res' = [status |-> 200, own |-> res.own, taken |-> res.taken, ended |-> res.ended,
              destroyed |-> left]
  BY <1>1 DEF ResShape
<1>3. ResShape'
  <2>1. res.own \in BOOLEAN /\ res.taken \in Nat /\ res.ended \in BOOLEAN /\ 200 \in Nat
    BY DEF ResShape
  <2> QED
    BY <1>2, <2>1, Zenon DEF ResShape
<1>4. res'.status = 200 /\ res'.taken = res.taken
  BY <1>2
<1>5. res'.own = res.own /\ res'.ended = res.ended
  BY <1>2, Zenon
<1> QED
  BY <1>3, <1>4, <1>5

LEMMA OwnEffect ==
  ASSUME RequestShape, ResShape, AnswerItself
  PROVE  ResShape' /\ OwnAnswer /\ ~headersSent
BY OwnStatusIsStatus DEF AnswerItself, responseWithError, RequestShape, ResShape, OwnAnswer

\* The response ends where its source stopped, or is destroyed.
StoppedRelay ==
  /\ res'.status = res.status /\ res'.own = res.own /\ res'.taken = res.taken
  /\ res'.ended # res.ended => LooksEnded

LEMMA StopEffect ==
  ASSUME ResShape, TakeStop
  PROVE  ResShape' /\ (Untouched \/ (~headersSent /\ OwnAnswer)
                      \/ (headersSent /\ StoppedRelay /\ origin.over = "stopped"))
<1>1. CASE origin.stage = "answering" /\ LooksEnded
  BY <1>1 DEF TakeStop, Relaying, ResShape, StoppedRelay
<1>2. CASE origin.stage = "answering" /\ ~LooksEnded
  BY <1>2 DEF TakeStop, destroy, ResShape, Untouched
<1>3. CASE origin.stage # "answering"
  BY <1>3, ErrorEffect DEF TakeStop
<1> QED
  BY <1>1, <1>2, <1>3

\* The steps by the parts they change.
LEMMA StepsByPart ==
  ASSUME Next
  PROVE  /\ UNCHANGED request
         /\ \/ UNCHANGED client
            \/ PipeUpload \/ Receive \/ ReceiveEnd \/ SeeCut \/ Leave
         /\ \/ UNCHANGED res
            \/ AnswerItself \/ AbortUpload \/ UpstreamBreaks \/ TakeHead \/ TakeChunk
            \/ TakeEnd \/ TakeStop \/ NoticeLeft
         /\ \/ UNCHANGED origin
            \/ Forward \/ EndUpload \/ Reach \/ StartAnswer \/ SendChunk \/ SendEnd
            \/ Stop \/ OnFinish \/ OnClose
BY DEF Next, Forwarder, Client, Origin, AnswerItself, Forward, PipeUpload, EndUpload,
   AbortUpload, TakeHead, TakeChunk, TakeEnd, TakeStop, NoticeLeft, UpstreamBreaks,
   Receive, ReceiveEnd, SeeCut, Leave, Reach, StartAnswer, SendChunk, SendEnd, Stop,
   OnFinish, OnClose

\* The log changes by a line at most.
LEMMA LogEffect ==
  ASSUME OriginShape, LogInv, OnFinish \/ OnClose
  PROVE  OriginShape' /\ LogInv' /\ origin' = [origin EXCEPT !.finished = origin'.finished,
                                                          !.log = origin'.log]
<1>1. CASE OnFinish
  <2>1. origin.log = <<>>
    BY <1>1 DEF OnFinish, LogInv, Closed
  <2>2. origin' = [origin EXCEPT !.finished = TRUE, !.log = <<"request completed">>]
    BY <1>1, <2>1 DEF OnFinish, finish
  <2> QED
    BY <2>2 DEF OriginShape, LogStates, LogInv, Closed
<1>2. CASE OnClose /\ origin.log = <<>>
  <2>1. origin' = [origin EXCEPT !.log = <<"request aborted">>]
    BY <1>2 DEF OnClose, finish
  <2>2. <<"request aborted">> # <<"request completed">>
    OBVIOUS
  <2>3. ~origin.finished
    BY <1>2 DEF LogInv
  <2> QED
    BY <1>2, <2>1, <2>2, <2>3 DEF OnClose, OriginShape, LogStates, LogInv, Closed
<1>3. CASE OnClose /\ origin.log # <<>>
  <2>1. UNCHANGED <<origin, conn>>
    BY <1>3 DEF OnClose, finish, OriginShape
  <2> QED
    BY <2>1 DEF OriginShape, LogInv, Closed
<1> QED
  BY <1>1, <1>2, <1>3

LEMMA ShapeStep == ForwardingInv /\ Next => Shape'
<1> SUFFICES ASSUME ForwardingInv, Next PROVE Shape'
  OBVIOUS
<1> USE DEF ForwardingInv, Shape
<1>1. RequestShape'
  BY StepsByPart DEF RequestShape
<1>2. ClientShape'
  <2> USE DEF ClientShape
  <2>1. ASSUME UNCHANGED client PROVE ClientShape'
    BY <2>1
  <2>2. ASSUME PipeUpload PROVE ClientShape'
    BY <2>2 DEF PipeUpload
  <2>3. ASSUME Receive PROVE ClientShape'
    BY <2>3 DEF Receive
  <2>4. ASSUME ReceiveEnd PROVE ClientShape'
    BY <2>4 DEF ReceiveEnd
  <2>5. ASSUME SeeCut PROVE ClientShape'
    BY <2>5 DEF SeeCut
  <2>6. ASSUME Leave PROVE ClientShape'
    BY <2>6 DEF Leave
  <2> QED
    BY <2>1, <2>2, <2>3, <2>4, <2>5, <2>6, StepsByPart
<1>3. ResShape'
  <2>1. ASSUME UNCHANGED res PROVE ResShape'
    BY <2>1 DEF ResShape
  <2>2. ASSUME AnswerItself PROVE ResShape'
    BY <2>2, OwnEffect
  <2>3. ASSUME AbortUpload \/ UpstreamBreaks PROVE ResShape'
    BY <2>3, ErrorEffect DEF AbortUpload, UpstreamBreaks
  <2>4. ASSUME TakeHead PROVE ResShape'
    BY <2>4, HeadEffect
  <2>5. ASSUME TakeChunk PROVE ResShape'
    BY <2>5 DEF TakeChunk, ResShape
  <2>6. ASSUME TakeEnd PROVE ResShape'
    BY <2>6 DEF TakeEnd, ResShape
  <2>7. ASSUME TakeStop PROVE ResShape'
    BY <2>7, StopEffect
  <2>8. ASSUME NoticeLeft PROVE ResShape'
    BY <2>8 DEF NoticeLeft, destroy, ResShape
  <2> QED
    BY <2>1, <2>2, <2>3, <2>4, <2>5, <2>6, <2>7, <2>8, StepsByPart
<1>4. OriginShape'
  <2> USE DEF OriginShape
  <2>1. ASSUME UNCHANGED origin PROVE OriginShape'
    BY <2>1
  <2>2. ASSUME Forward PROVE OriginShape'
    BY <2>2 DEF Forward
  <2>3. ASSUME EndUpload PROVE OriginShape'
    BY <2>3 DEF EndUpload
  <2>4. ASSUME Reach PROVE OriginShape'
    BY <2>4 DEF Reach
  <2>5. ASSUME StartAnswer PROVE OriginShape'
    <3>1. PICK n \in 0 .. MaxChunks, f \in Framings :
            origin' = [origin EXCEPT !.stage = "answering", !.body = n, !.framing = f]
      BY <2>5 DEF StartAnswer
    <3>2. n \in Nat
      BY ForwardingAssumption
    <3> QED
      BY <3>1, <3>2
  <2>6. ASSUME SendChunk PROVE OriginShape'
    BY <2>6 DEF SendChunk
  <2>7. ASSUME SendEnd PROVE OriginShape'
    BY <2>7 DEF SendEnd
  <2>8. ASSUME Stop PROVE OriginShape'
    BY <2>8 DEF Stop
  <2>9. ASSUME OnFinish \/ OnClose PROVE OriginShape'
    BY <2>9, LogEffect
  <2> QED
    BY <2>1, <2>2, <2>3, <2>4, <2>5, <2>6, <2>7, <2>8, <2>9, StepsByPart
<1> QED
  BY <1>1, <1>2, <1>3, <1>4

\* What is known about the answer survives every step.
LEMMA AnswerStep == ForwardingInv /\ Next => AnswerInv'
<1> SUFFICES ASSUME ForwardingInv, Next PROVE AnswerInv'
  OBVIOUS
<1> USE DEF ForwardingInv, Shape, AnswerInv, EndUnmarked, headersSent
<1>1. CASE AnswerItself
  BY <1>1, OwnEffect DEF AnswerItself, OwnAnswer
<1>2. CASE Forward
  BY <1>2 DEF Forward, OriginShape
<1>3. CASE PipeUpload
  BY <1>3 DEF PipeUpload, ClientShape
<1>4. CASE EndUpload
  BY <1>4 DEF EndUpload, OriginShape
<1>5. CASE AbortUpload \/ UpstreamBreaks
  BY <1>5, ErrorEffect DEF AbortUpload, UpstreamBreaks, Untouched, OwnAnswer
<1>6. CASE TakeHead
  BY <1>6, HeadEffect DEF TakeHead
<1>7. CASE TakeChunk
  BY <1>7 DEF TakeChunk, Relaying, ResShape
<1>8. CASE TakeEnd
  BY <1>8 DEF TakeEnd, Relaying, AllTaken, ResShape
<1>9. CASE TakeStop
  <2>1. UNCHANGED <<client, origin>>
    BY <1>9 DEF TakeStop
  <2>2. CASE Untouched
    BY <2>1, <2>2 DEF Untouched
  <2>3. CASE ~headersSent /\ OwnAnswer
    BY <2>1, <2>3 DEF OwnAnswer
  <2>4. CASE headersSent /\ StoppedRelay /\ origin.over = "stopped"
    BY <2>1, <2>4 DEF StoppedRelay, LooksEnded
  <2> QED
    BY <1>9, <2>2, <2>3, <2>4, StopEffect
<1>10. CASE NoticeLeft
  BY <1>10 DEF NoticeLeft, destroy, ResShape
<1>11. CASE Receive
  BY <1>11 DEF Receive, ClientShape
<1>12. CASE ReceiveEnd
  BY <1>12 DEF ReceiveEnd, HasAll, HasLength, ClientShape
<1>13. CASE SeeCut \/ Leave
  BY <1>13 DEF SeeCut, Leave, ClientShape
<1>14. CASE Reach
  BY <1>14 DEF Reach, OriginShape
<1>15. CASE StartAnswer
  BY <1>15 DEF StartAnswer, OriginShape
<1>16. CASE SendChunk
  BY <1>16 DEF SendChunk, Answering, OriginShape
<1>17. CASE SendEnd
  BY <1>17 DEF SendEnd, Answering, OriginShape
<1>18. CASE Stop
  BY <1>18 DEF Stop, OriginShape
<1>19. CASE OnFinish \/ OnClose
  <2>1. UNCHANGED <<res, client>>
    BY <1>19 DEF OnFinish, OnClose
  <2>2. UNCHANGED <<origin.stage, origin.over, origin.sent, origin.body, origin.framing>>
    BY <1>19, LogEffect DEF OriginShape
  <2> QED
    BY <2>1, <2>2
<1> QED
  BY <1>1, <1>2, <1>3, <1>4, <1>5, <1>6, <1>7, <1>8, <1>9, <1>10, <1>11, <1>12, <1>13,
     <1>14, <1>15, <1>16, <1>17, <1>18, <1>19
  DEF Next, Forwarder, Client, Origin

\* The upload is whole at the origin only when the client has sent it.
LEMMA UploadStep == ForwardingInv /\ Next => UploadInv'
<1> SUFFICES ASSUME ForwardingInv, Next PROVE UploadInv'
  OBVIOUS
<1> USE DEF ForwardingInv, Shape, UploadInv
<1>1. UNCHANGED request
  BY StepsByPart
<1>2. client'.unsent \in {client.unsent, 0} \/ PipeUpload
  BY StepsByPart DEF Receive, ReceiveEnd, SeeCut, Leave, ClientShape
<1>3. \/ origin'.upload = origin.upload
      \/ (Forward /\ (origin'.upload = "open" \/ request.via = "proxy"))
      \/ EndUpload
  BY StepsByPart, LogEffect DEF Forward, Reach, StartAnswer, SendChunk, SendEnd, Stop, OriginShape
<1>4. CASE PipeUpload
  BY <1>4 DEF PipeUpload
<1>5. CASE Forward \/ EndUpload
  BY <1>1, <1>3, <1>5 DEF Forward, EndUpload
<1> QED
  BY <1>1, <1>2, <1>3, <1>4, <1>5

\* A log line is final.
LEMMA LogStep == ForwardingInv /\ Next => LogInv'
<1> SUFFICES ASSUME ForwardingInv, Next PROVE LogInv'
  OBVIOUS
<1> USE DEF ForwardingInv, Shape
<1>1. CASE OnFinish \/ OnClose
  BY <1>1, LogEffect
<1>2. CASE ~(OnFinish \/ OnClose)
  <2>1. origin'.log = origin.log /\ origin'.finished = origin.finished
    BY <1>2, StepsByPart DEF Forward, EndUpload, Reach, StartAnswer, SendChunk, SendEnd, Stop, OriginShape
  <2>2. origin.over = "stopped" => origin'.over = "stopped"
    BY <1>2, StepsByPart DEF Forward, EndUpload, Reach, StartAnswer, SendChunk, SendEnd, Stop,
       Answering, OriginShape
  <2>3. conn = "broken" => conn' = "broken"
    BY DEF Next, Forwarder, Client, Origin, AnswerItself, Forward, PipeUpload, EndUpload,
       AbortUpload, TakeHead, TakeChunk, TakeEnd, TakeStop, NoticeLeft, UpstreamBreaks,
       Receive, ReceiveEnd, SeeCut, Leave, Reach, StartAnswer, SendChunk, SendEnd, Stop,
       OnFinish, OnClose
  <2> QED
    BY <2>1, <2>2, <2>3 DEF LogInv, Closed
<1> QED
  BY <1>1, <1>2

LEMMA ForwardingInvStep == ForwardingInv /\ [Next]_vars => ForwardingInv'
<1>1. ForwardingInv /\ UNCHANGED vars => ForwardingInv'
  BY ZenonT(30) DEF ForwardingInv, vars, Shape, RequestShape, ClientShape, ResShape, OriginShape, AnswerInv,
     EndUnmarked, UploadInv, LogInv, headersSent, Closed
<1> QED
  BY <1>1, ShapeStep, AnswerStep, UploadStep, LogStep DEF ForwardingInv

LEMMA ForwardingInvariant == Spec => []ForwardingInv
BY ForwardingInvInit, ForwardingInvStep, PTL DEF Spec

-----------------------------------------------------------------------------

\* However the two connections break and whoever stops first, the client takes
\* no cut answer of a framed body for a whole one, nor the origin a cut upload.
THEOREM CutIsNoticed == Spec => []NothingCutLooksWhole
<1>1. ForwardingInv => NothingCutLooksWhole
  BY DEF ForwardingInv, AnswerInv, UploadInv, EndUnmarked, NothingCutLooksWhole
<1> QED
  BY <1>1, ForwardingInvariant, PTL

\* A node writes at most one line per request, and "completed" exactly when the
\* response was handed over to its end.
THEOREM LoggedOnce == Spec => []OneLogLine
<1>1. ForwardingInv => OneLogLine
  <2>1. ASSUME NEW s \in LogStates PROVE Len(s) <= 1
    <3>1. s = <<>> \/ s = <<"request completed">> \/ s = <<"request aborted">>
      BY DEF LogStates
    <3>2. ASSUME s = <<>> PROVE Len(s) = 0
      BY <3>2
    <3>3. ASSUME s = <<"request completed">> PROVE Len(s) = 1
      BY <3>3
    <3>4. ASSUME s = <<"request aborted">> PROVE Len(s) = 1
      BY <3>4
    <3>5. 0 <= 1 /\ 1 <= 1
      OBVIOUS
    <3> QED
      BY <3>1, <3>2, <3>3, <3>4, <3>5, Zenon
  <2> QED
    BY <2>1 DEF ForwardingInv, Shape, OriginShape, LogInv, OneLogLine
<1> QED
  BY <1>1, ForwardingInvariant, PTL

\* Once a status has gone to the client no later event of either connection
\* changes it, and what was handed over stays handed over.
THEOREM AnswerStands == Spec => NothingTakenBack
<1> DEFINE Kept == /\ headersSent => res'.status = res.status /\ res'.own = res.own
                   /\ res'.taken >= res.taken /\ client'.got >= client.got
<1>1. ForwardingInv /\ [Next]_vars => [Kept]_vars
  <2> SUFFICES ASSUME ForwardingInv, Next PROVE Kept
    OBVIOUS
  <2> USE DEF ForwardingInv, Shape
  <2>1. client'.got >= client.got
    <3>1. client.got \in Nat
      BY DEF ClientShape
    <3>2. ASSUME PipeUpload PROVE client'.got = client.got
      BY <3>2 DEF PipeUpload, ClientShape
    <3>3. ASSUME Receive PROVE client'.got = client.got + 1
      BY <3>3 DEF Receive, ClientShape
    <3>4. ASSUME ReceiveEnd \/ SeeCut \/ Leave PROVE client'.got = client.got
      BY <3>4 DEF ReceiveEnd, SeeCut, Leave, ClientShape
    <3> QED
      BY <3>1, <3>2, <3>3, <3>4, StepsByPart
  <2>2. /\ headersSent => res'.status = res.status /\ res'.own = res.own
        /\ res'.taken >= res.taken
    <3>1. res.taken \in Nat /\ (~headersSent => res.taken = 0)
      BY DEF ResShape, AnswerInv
    <3>2. ASSUME Untouched PROVE <2>2!:
      BY <3>1, <3>2 DEF Untouched
    <3>3. ASSUME OwnAnswer, ~headersSent PROVE <2>2!:
      BY <3>1, <3>3 DEF OwnAnswer
    <3>4. ASSUME UNCHANGED res PROVE <2>2!:
      BY <3>1, <3>4
    <3>5. ASSUME AnswerItself PROVE <2>2!:
      BY <3>3, <3>5, OwnEffect
    <3>6. ASSUME AbortUpload \/ UpstreamBreaks PROVE <2>2!:
      BY <3>2, <3>3, <3>6, ErrorEffect DEF AbortUpload, UpstreamBreaks
    <3>7. ASSUME TakeHead PROVE <2>2!:
      BY <3>1, <3>7, HeadEffect DEF TakeHead
    <3>8. ASSUME TakeChunk \/ TakeEnd \/ NoticeLeft PROVE <2>2!:
      BY <3>1, <3>8 DEF TakeChunk, TakeEnd, NoticeLeft, destroy, ResShape
    <3>9. ASSUME TakeStop PROVE <2>2!:
      BY <3>1, <3>2, <3>3, <3>9, StopEffect DEF StoppedRelay
    <3> QED
      BY <3>4, <3>5, <3>6, <3>7, <3>8, <3>9, StepsByPart
  <2> QED
    BY <2>1, <2>2
<1> QED
  BY <1>1, ForwardingInvariant, PTL DEF Spec, NothingTakenBack
=============================================================================
