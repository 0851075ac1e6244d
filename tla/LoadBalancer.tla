----------------------------- MODULE LoadBalancer -----------------------------
(***************************************************************************)
(* 06-load-balancer with the blob servers of 04-http-blob-server that      *)
(* announce themselves to it (autoRegistration.ts): nodes register while   *)
(* the startup window is open, retrying over a network that delays, loses  *)
(* and answers late; afterwards blob requests are routed by hash over the  *)
(* registered nodes and forwarded.  The registry and the generated ids are *)
(* in memory; what a node stores is not.                                   *)
(*                                                                         *)
(* Each blob id has one client, which sends one request at a time.  A      *)
(* node's storage is the atomic store BlobStore: a put or delete happens   *)
(* at one moment, or is refused.                                           *)
(***************************************************************************)
EXTENDS Naturals, FiniteSets

CONSTANTS Nodes,        \* blob servers with MASTER_NODE_ADDRESS set
          Dests,        \* host:port
          DestOf,       \* [Nodes -> Dests]: ADVERTISED_HOST and the port
          Invalid,      \* nodes whose payload fails validateNodeRegistration
          Blobs,        \* blob ids
          HashOf,       \* [Blobs -> Nat]: the first 32 bits of sha256(id)
          MaxAttempts,  \* [Nodes -> bound on the attempts that fit in retryForMs]
          MaxId,        \* bound on the ids randomUUID may hand out
          Events        \* what may go wrong

EventNames == {"attemptFails", "upstreamFails", "refused", "crash"}

ASSUME NodesAssumption ==
  /\ IsFiniteSet(Nodes) /\ IsFiniteSet(Dests) /\ Dests # {} /\ Invalid \subseteq Nodes
  /\ DestOf \in [Nodes -> Dests] /\ HashOf \in [Blobs -> Nat]
  /\ MaxAttempts \in [Nodes -> Nat \ {0}] /\ MaxId \in Nat /\ Events \subseteq EventNames

VARIABLES up,        \* the load balancer is running
          open,      \* isRegistrationOpen
          registry,  \* [Dests -> id]: NodeRegistry.nodes, Absent when unset
          issued,    \* ids randomUUID has handed out: it repeats none
          phase,     \* [Nodes -> where registerWithMaster is]
          attempts,  \* [Nodes -> attempts made]
          assigned,  \* [Nodes -> the id it logged]
          inbox,     \* attempts the load balancer has not handled
          reply,     \* [Nodes -> the answer on its way to the last attempt]
          request,   \* [Blobs -> the client's request being forwarded]
          held,      \* [Dests -> blobs stored there]
          late,      \* forwarded writes whose connection broke: may still happen
          known      \* [Blobs -> what its client was told last]

lbVars == <<up, open, registry, issued>>
nodeVars == <<phase, attempts, assigned, inbox, reply>>
blobVars == <<request, held, late, known>>
vars == <<lbVars, nodeVars, blobVars>>

Absent == 0
NoReply == [status |-> 0, id |-> Absent]
Idle == [kind |-> "none", dest |-> CHOOSE d \in Dests : TRUE, stage |-> "idle",
         sure |-> TRUE]

Init ==
  /\ up = FALSE /\ open = FALSE
  /\ registry = [d \in Dests |-> Absent] /\ issued = {}
  /\ phase = [n \in Nodes |-> "sleep"] /\ attempts = [n \in Nodes |-> 0]
  /\ assigned = [n \in Nodes |-> Absent]
  /\ inbox = {} /\ reply = [n \in Nodes |-> NoReply]
  /\ request = [b \in Blobs |-> Idle] /\ held = [d \in Dests |-> {}]
  /\ late = {} /\ known = [b \in Blobs |-> "unknown"]

-----------------------------------------------------------------------------
(* The load balancer's life *)

\* A fresh NodeRegistry and a fresh REGISTRATION_STARTED_AT.
StartLb ==
  /\ ~up
  /\ up' = TRUE /\ open' = TRUE
  /\ registry' = [d \in Dests |-> Absent]
  /\ UNCHANGED <<issued, nodeVars, blobVars>>

\* registrationDurationSeconds have passed since startedAt.
CloseWindow ==
  /\ up /\ open
  /\ open' = FALSE
  /\ UNCHANGED <<up, registry, issued, nodeVars, blobVars>>

\* A write in flight at a node may still be carried out there.
Interrupted(b) ==
  IF request[b].stage = "sent" /\ request[b].kind # "get"
  THEN {[kind |-> request[b].kind, dest |-> request[b].dest, blob |-> b]} ELSE {}

CrashLb ==
  /\ "crash" \in Events
  /\ up
  /\ up' = FALSE /\ open' = FALSE
  /\ inbox' = {}
  /\ request' = [b \in Blobs |-> Idle]
  /\ late' = late \cup UNION {Interrupted(b) : b \in Blobs}
  /\ UNCHANGED <<registry, issued, phase, attempts, assigned, reply, held, known>>

-----------------------------------------------------------------------------
(* Registration *)

Listed == {d \in Dests : registry[d] # Absent}

\* registerWithMaster's loop: attempt at once, then after every retryDelayMs.
Attempt(n) ==
  /\ phase[n] = "sleep" /\ attempts[n] < MaxAttempts[n]
  /\ phase' = [phase EXCEPT ![n] = "waiting"]
  /\ attempts' = [attempts EXCEPT ![n] = @ + 1]
  /\ inbox' = IF up THEN inbox \cup {<<n, attempts[n] + 1>>} ELSE inbox
  /\ reply' = [reply EXCEPT ![n] = NoReply]
  /\ UNCHANGED <<lbVars, assigned, blobVars>>

\* In no order: a new id may sort before or after those handed out earlier.
upsertFresh(d) ==
  \E id \in (1 .. MaxId) \ issued :
    issued' = issued \cup {id} /\ registry' = [registry EXCEPT ![d] = id]

upsertSharing(d) ==
  /\ registry' = [registry EXCEPT ![d] = IF registry[d] = Absent THEN 1 ELSE registry[d]]
  /\ issued' = {1}

\* The destination is the key: a known one keeps its id.
upsert(d) ==
  IF registry[d] # Absent
  THEN UNCHANGED <<registry, issued>>
  ELSE upsertFresh(d)

\* An answer reaches the node only while it waits for this very attempt.
Answer(n, a, status, id) ==
  reply' = IF phase[n] = "waiting" /\ attempts[n] = a
           THEN [reply EXCEPT ![n] = [status |-> status, id |-> id]] ELSE reply

registerAnyTime(n, a) ==
  IF n \in Invalid THEN Answer(n, a, 400, Absent) /\ UNCHANGED <<registry, issued>>
  ELSE upsert(DestOf[n]) /\ Answer(n, a, 200, registry'[DestOf[n]])

register(n, a) ==
  CASE ~open         -> Answer(n, a, 403, Absent) /\ UNCHANGED <<registry, issued>>
    [] n \in Invalid /\ open -> Answer(n, a, 400, Absent) /\ UNCHANGED <<registry, issued>>
    [] OTHER -> upsert(DestOf[n]) /\ Answer(n, a, 200, registry'[DestOf[n]])

HandleRegistration(n, a) ==
  /\ up /\ <<n, a>> \in inbox
  /\ inbox' = inbox \ {<<n, a>>}
  /\ register(n, a)
  /\ UNCHANGED <<up, open, phase, attempts, assigned, blobVars>>

\* 200 with an id, or a 4xx that is not retried.
ReceiveReply(n) ==
  /\ phase[n] = "waiting" /\ reply[n] # NoReply
  /\ phase' = [phase EXCEPT ![n] = IF reply[n].status = 200 THEN "registered" ELSE "rejected"]
  /\ assigned' = [assigned EXCEPT ![n] = reply[n].id]
  /\ reply' = [reply EXCEPT ![n] = NoReply]
  /\ UNCHANGED <<lbVars, attempts, inbox, blobVars>>

\* The load balancer was not listening when the node connected.
Refused(n) == reply[n] = NoReply /\ <<n, attempts[n]>> \notin inbox

AttemptFailsWhenRefused(n) ==
  /\ phase[n] = "waiting" /\ Refused(n)
  /\ \/ phase' = [phase EXCEPT ![n] = "gaveUp"]
     \/ attempts[n] < MaxAttempts[n] /\ phase' = [phase EXCEPT ![n] = "sleep"]
  /\ UNCHANGED <<lbVars, attempts, assigned, inbox, reply, blobVars>>

\* Connection refused or broken, or attemptTimeoutMs: the request may still be
\* on its way, and so may its answer.  Past the deadline the node gives up.
AttemptFails(n) ==
  /\ phase[n] = "waiting" /\ ("attemptFails" \in Events \/ Refused(n))
  /\ \/ phase' = [phase EXCEPT ![n] = "gaveUp"]
     \/ attempts[n] < MaxAttempts[n] /\ phase' = [phase EXCEPT ![n] = "sleep"]
  /\ reply' = [reply EXCEPT ![n] = NoReply]
  /\ UNCHANGED <<lbVars, attempts, assigned, inbox, blobVars>>

-----------------------------------------------------------------------------
(* Routing and forwarding *)

Ready == up /\ ~open /\ Listed # {}

\* Sorted by id, the one at position hash mod count.
pickNode(b) ==
  CHOOSE d \in Listed :
    Cardinality({e \in Listed : registry[e] < registry[d]})
      = HashOf[b] % Cardinality(Listed)

routeAnywhere(b) == Listed
route(b) == {pickNode(b)}

Pending(b) == \E x \in late : x.blob = b

\* handle(): 503 unless Ready; else the request goes to the routed node.  The
\* client of a write knows nothing until it is answered, and is sure of the
\* outcome when no earlier write of its own may still be executed.
Send(b) ==
  /\ Ready /\ request[b] = Idle
  /\ \E kind \in {"put", "get", "delete"}, d \in route(b) :
       /\ request' = [request EXCEPT ![b] = 
                      [kind |-> kind, dest |-> d, stage |-> "sent", sure |-> ~Pending(b)]]
       /\ known' = IF kind = "get" THEN known ELSE [known EXCEPT ![b] = "unknown"]
  /\ UNCHANGED <<lbVars, nodeVars, held, late>>

Stored(kind, d, b) ==
  held' = CASE kind = "put"    -> [held EXCEPT ![d] = @ \cup {b}]
            [] kind = "delete" -> [held EXCEPT ![d] = @ \ {b}]
            [] kind = "get"    -> held

\* The node carries out the request, or refuses it.
NodeExecutes(b) ==
  /\ request[b].stage = "sent"
  /\ LET r == request[b] IN
       \/ Stored(r.kind, r.dest, b) /\ request' = [request EXCEPT ![b].stage = "done"]
       \/ "refused" \in Events /\ r.kind = "put"
          /\ UNCHANGED held /\ request' = [request EXCEPT ![b].stage = "refused"]
  /\ UNCHANGED <<lbVars, nodeVars, late, known>>

\* The node's answer is piped back.
Relay(b) ==
  /\ request[b].stage \in {"done", "refused"}
  /\ known' = IF request[b].stage = "refused" \/ request[b].kind = "get" \/ ~request[b].sure
              THEN known
              ELSE [known EXCEPT ![b] = IF request[b].kind = "put" THEN "stored" ELSE "deleted"]
  /\ request' = [request EXCEPT ![b] = Idle]
  /\ UNCHANGED <<lbVars, nodeVars, held, late>>

\* upstreamReq's 'error': 502, or a torn response when headers were sent.
UpstreamFails(b) ==
  /\ "upstreamFails" \in Events
  /\ request[b] # Idle
  /\ request' = [request EXCEPT ![b] = Idle]
  /\ late' = late \cup Interrupted(b)
  /\ UNCHANGED <<lbVars, nodeVars, held, known>>

\* A node finishes, or drops, what it was sent before the connection broke.
LateExecution(x) ==
  /\ late' = late \ {x}
  /\ Stored(x.kind, x.dest, x.blob) \/ UNCHANGED held
  /\ UNCHANGED <<lbVars, nodeVars, request, known>>

-----------------------------------------------------------------------------
Register == \E n \in Nodes : \/ Attempt(n) \/ ReceiveReply(n) \/ AttemptFails(n)
                             \/ \E a \in 1 .. MaxAttempts[n] : HandleRegistration(n, a)
Forward == \/ \E b \in Blobs : Send(b) \/ NodeExecutes(b) \/ Relay(b) \/ UpstreamFails(b)
           \/ \E x \in late : LateExecution(x)
Next == StartLb \/ CloseWindow \/ CrashLb \/ Register \/ Forward

Spec == Init /\ [][Next]_vars

\* Timers fire and fetch settles on every node.  Neither the load balancer nor
\* the network owes it anything.
FairSpec == /\ Spec
            /\ \A n \in Nodes : WF_vars(Attempt(n) \/ ReceiveReply(n) \/ AttemptFails(n))

-----------------------------------------------------------------------------
(* Properties *)

Requests == [kind : {"none", "put", "get", "delete"}, dest : Dests,
             stage : {"idle", "sent", "done", "refused"}, sure : BOOLEAN]

TypeOK ==
  /\ up \in BOOLEAN /\ open \in BOOLEAN
  /\ issued \subseteq 1 .. MaxId /\ registry \in [Dests -> issued \cup {Absent}]
  /\ \A d, e \in Listed : registry[d] = registry[e] => d = e
  /\ phase \in [Nodes -> {"sleep", "waiting", "registered", "rejected", "gaveUp"}]
  /\ attempts \in [Nodes -> Nat] /\ (\A n \in Nodes : attempts[n] <= MaxAttempts[n])
  /\ assigned \in [Nodes -> 0 .. MaxId]
  /\ \A x \in inbox : x[1] \in Nodes /\ x[2] \in 1 .. attempts[x[1]]
  /\ reply \in [Nodes -> [status : {0, 200, 400, 403}, id : 0 .. MaxId]]
  /\ request \in [Blobs -> Requests] /\ held \in [Dests -> SUBSET Blobs]
  /\ late \subseteq [kind : {"put", "delete"}, dest : Dests, blob : Blobs]
  /\ known \in [Blobs -> {"unknown", "stored", "deleted"}]

\* Routing is a pure function of the blob id as long as the load balancer
\* lives: once it routes, no late or retried registration changes where a
\* blob belongs.
RoutingFrozen ==
  [][Ready /\ Ready' => \A b \in Blobs : pickNode(b)' = pickNode(b)]_vars

\* "a later GET/DELETE for a blob id must land on the exact node its POST
\* did": what a client was told it stored (deleted) is (is not) where its next
\* request will be routed.
FoundWhereStored ==
  Ready => \A b \in Blobs :
    /\ known[b] = "stored" => b \in held[pickNode(b)]
    /\ known[b] = "deleted" => b \notin held[pickNode(b)]

\* What registration told a node is what the load balancer does: the id it
\* logged is the id it is listed under, whichever of its attempts was handled
\* first; "refused this payload" means it is not listed - when its only attempt
\* was refused and it shares its destination with nobody.
OutcomeMatchesRegistry ==
  \A n \in Nodes :
    /\ phase[n] = "registered" => registry[DestOf[n]] = assigned[n]
    /\ phase[n] = "rejected" /\ attempts[n] = 1
         /\ (\A m \in Nodes : DestOf[m] = DestOf[n] => m = n)
       => registry[DestOf[n]] = Absent

\* registerWithMaster ends, whatever the load balancer does.
EveryNodeSettles ==
  \A n \in Nodes : <>[](phase[n] \in {"registered", "rejected", "gaveUp"})
=============================================================================
