------------------------- MODULE LoadBalancer_proofs -------------------------
(***************************************************************************)
(* Proofs about LoadBalancer, for any number of nodes, destinations, blobs *)
(* and attempts: types and unique ids, what registration tells a node,     *)
(* that routing is frozen, and that a blob is found where it was stored.   *)
(***************************************************************************)
EXTENDS LoadBalancer, FiniteSetTheorems, TLAPS

TypeLb ==
  /\ up \in BOOLEAN /\ open \in BOOLEAN
  /\ issued \subseteq 1 .. MaxId /\ registry \in [Dests -> issued \cup {Absent}]
  /\ \A d, e \in Listed : registry[d] = registry[e] => d = e

Phases == {"sleep", "waiting", "registered", "rejected", "gaveUp"}
Replies == [status : {0, 200, 400, 403}, id : 0 .. MaxId]

TypeNodes ==
  /\ phase \in [Nodes -> Phases]
  /\ attempts \in [Nodes -> Nat] /\ (\A n \in Nodes : attempts[n] <= MaxAttempts[n])
  /\ assigned \in [Nodes -> 0 .. MaxId]
  /\ \A x \in inbox : x[1] \in Nodes /\ x[2] \in 1 .. attempts[x[1]]
  /\ reply \in [Nodes -> Replies]

TypeBlobs ==
  /\ request \in [Blobs -> Requests] /\ held \in [Dests -> SUBSET Blobs]
  /\ late \subseteq [kind : {"put", "delete"}, dest : Dests, blob : Blobs]
  /\ known \in [Blobs -> {"unknown", "stored", "deleted"}]

LEMMA TypeParts == TypeOK <=> TypeLb /\ TypeNodes /\ TypeBlobs
BY DEF TypeOK, TypeLb, TypeNodes, TypeBlobs, Phases, Replies

LEMMA TypePartsAfter == TypeLb' /\ TypeNodes' /\ TypeBlobs' => TypeOK'
BY DEF TypeOK, TypeLb, TypeNodes, TypeBlobs, Phases, Replies, Listed

-----------------------------------------------------------------------------
(* pickNode *)

Below(d) == {e \in Listed : registry[e] < registry[d]}

LEMMA ListedFinite ==
  IsFiniteSet(Listed) /\ Cardinality(Listed) \in Nat /\ (Listed = {} <=> Cardinality(Listed) = 0)
<1>1. Listed \in SUBSET Dests
  BY DEF Listed
<1> QED
  BY <1>1, FS_Subset, FS_CardinalityType, FS_EmptySet, NodesAssumption

LEMMA IdsAreNumbers ==
  ASSUME TypeLb, NEW d \in Listed
  PROVE  d \in Dests /\ registry[d] \in Nat /\ registry[d] # Absent
<1>1. d \in Dests /\ registry[d] # Absent
  BY DEF Listed
<1>2. registry[d] \in issued
  BY <1>1 DEF TypeLb
<1>3. registry[d] \in 1 .. MaxId
  BY <1>2 DEF TypeLb
<1> QED
  BY <1>1, <1>3, NodesAssumption

\* Sorting by distinct ids gives each registered node a position of its own.
LEMMA PositionsDiffer ==
  ASSUME TypeLb
  PROVE  [d \in Listed |-> Cardinality(Below(d))]
           \in Injection(Listed, 0 .. Cardinality(Listed) - 1)
<1> DEFINE n == Cardinality(Listed)
           rank == [d \in Listed |-> Cardinality(Below(d))]
<1>1. ASSUME NEW d \in Listed
      PROVE  /\ IsFiniteSet(Below(d)) /\ Cardinality(Below(d)) \in Nat
             /\ Cardinality(Below(d)) < n
  <2>1. Below(d) \in SUBSET (Listed \ {d})
    BY IdsAreNumbers DEF Below
  <2>2. IsFiniteSet(Listed \ {d}) /\ Cardinality(Listed \ {d}) = n - 1
    BY FS_RemoveElement, ListedFinite
  <2>3. IsFiniteSet(Below(d)) /\ Cardinality(Below(d)) <= n - 1
    BY <2>1, <2>2, FS_Subset
  <2>4. Cardinality(Below(d)) \in Nat
    BY <2>3, FS_CardinalityType
  <2> QED
    BY <2>3, <2>4, ListedFinite
<1>2. ASSUME NEW d \in Listed, NEW e \in Listed, registry[d] < registry[e]
      PROVE  Cardinality(Below(d)) < Cardinality(Below(e))
  <2>1. Below(d) \in SUBSET Below(e) /\ d \in Below(e) /\ d \notin Below(d)
    BY <1>2, IdsAreNumbers DEF Below
  <2>2. Cardinality(Below(d)) <= Cardinality(Below(e)) /\ Below(d) # Below(e)
    BY <1>1, <2>1, FS_Subset
  <2>3. Cardinality(Below(d)) # Cardinality(Below(e))
    BY <1>1, <2>1, <2>2, FS_Subset
  <2> QED
    BY <1>1, <2>2, <2>3
<1>3. rank \in [Listed -> 0 .. n - 1]
  <2>1. \A d \in Listed : Cardinality(Below(d)) \in 0 .. n - 1
    BY <1>1, ListedFinite
  <2> QED
    BY <2>1
<1>4. ASSUME NEW d \in Listed, NEW e \in Listed, rank[d] = rank[e] PROVE d = e
  <2>1. Cardinality(Below(d)) = Cardinality(Below(e))
    BY <1>4
  <2>2. registry[d] = registry[e]
    BY <1>1, <1>2, <2>1, IdsAreNumbers
  <2> QED
    BY <2>2 DEF TypeLb
<1> QED
  BY <1>3, <1>4 DEF Injection, IsInjective

\* Every hash has a registered node.
LEMMA PickNodeListed ==
  ASSUME TypeLb, Listed # {}, NEW b \in Blobs
  PROVE  pickNode(b) \in Listed
<1> DEFINE n == Cardinality(Listed)
           rank == [d \in Listed |-> Cardinality(Below(d))]
<1>1. n \in Nat \ {0} /\ HashOf[b] \in Nat
  BY ListedFinite, NodesAssumption
<1>2. HashOf[b] % n \in 0 .. n - 1
  BY <1>1
<1>3. IsFiniteSet(0 .. n - 1) /\ Cardinality(0 .. n - 1) = n
  <2>1. 0 \in Int /\ n - 1 \in Int /\ ~(0 > n - 1) /\ (n - 1) - 0 + 1 = n
    BY <1>1
  <2> HIDE DEF n
  <2> QED
    BY <2>1, FS_Interval
<1>4. rank \in Surjection(Listed, 0 .. n - 1)
  BY <1>3, PositionsDiffer, FS_Injection
<1>5. PICK d \in Listed : rank[d] = HashOf[b] % n
  BY <1>2, <1>4 DEF Surjection
<1>6. Cardinality(Below(d)) = HashOf[b] % n
  BY <1>5
<1> QED
  BY <1>6 DEF pickNode, Below

-----------------------------------------------------------------------------
(* Types *)

LEMMA IdleTyped == Idle \in Requests
<1>1. (CHOOSE d \in Dests : TRUE) \in Dests
  BY NodesAssumption
<1>2. TRUE \in BOOLEAN
  OBVIOUS
<1> QED
  BY <1>1, <1>2, Zenon DEF Idle, Requests

LEMMA TypeInit == Init => TypeOK
<1> SUFFICES ASSUME Init PROVE TypeOK
  OBVIOUS
<1>1. TypeLb
  BY DEF Init, TypeLb, Listed
<1>2. TypeNodes
  BY NodesAssumption DEF Init, TypeNodes, Phases, Replies, NoReply, Absent
<1>3. TypeBlobs
  BY IdleTyped DEF Init, TypeBlobs
<1> QED
  BY <1>1, <1>2, <1>3, TypeParts

\* What handling an attempt does: refuses it, finds its destination known, or
\* lists it under a new id; and answers accordingly.
Replied(n, a, status) ==
  reply' = IF phase[n] = "waiting" /\ attempts[n] = a
           THEN [reply EXCEPT ![n] = [status |-> status,
                   id |-> IF status = 200 THEN registry'[DestOf[n]] ELSE Absent]]
           ELSE reply

Refuses(n, a) ==
  /\ UNCHANGED <<registry, issued>>
  /\ Replied(n, a, 400) \/ Replied(n, a, 403)
Finds(n, a) ==
  /\ open /\ registry[DestOf[n]] # Absent /\ UNCHANGED <<registry, issued>>
  /\ Replied(n, a, 200)
Lists(n, a) ==
  /\ open /\ registry[DestOf[n]] = Absent
  /\ \E id \in (1 .. MaxId) \ issued :
       issued' = issued \cup {id} /\ registry' = [registry EXCEPT ![DestOf[n]] = id]
  /\ Replied(n, a, 200)

LEMMA HandlingEffect ==
  ASSUME NEW n \in Nodes, NEW a, HandleRegistration(n, a)
  PROVE  Refuses(n, a) \/ Finds(n, a) \/ Lists(n, a)
<1>1. register(n, a)
  BY DEF HandleRegistration
<1>2. CASE ~open
  BY <1>1, <1>2 DEF register, Answer, Refuses, Replied
<1>3. CASE open /\ n \in Invalid
  BY <1>1, <1>3 DEF register, Answer, Refuses, Replied
<1>4. CASE open /\ n \notin Invalid
  <2>1. upsert(DestOf[n]) /\ Answer(n, a, 200, registry'[DestOf[n]])
    BY <1>1, <1>4 DEF register
  <2>2. Replied(n, a, 200)
    BY <2>1 DEF Answer, Replied
  <2>3. CASE registry[DestOf[n]] # Absent
    BY <1>4, <2>1, <2>2, <2>3 DEF upsert, Finds
  <2>4. CASE registry[DestOf[n]] = Absent
    BY <1>4, <2>1, <2>2, <2>4 DEF upsert, upsertFresh, Lists
  <2> QED
    BY <2>3, <2>4
<1> QED
  BY <1>2, <1>3, <1>4

\* The steps by the parts they change.
ChangesNodes(n) == Attempt(n) \/ ReceiveReply(n) \/ AttemptFails(n)
ChangesBlobs(b) == Send(b) \/ NodeExecutes(b) \/ Relay(b) \/ UpstreamFails(b)

LEMMA StepsByPart ==
  ASSUME Next
  PROVE  \/ UNCHANGED <<nodeVars, blobVars>> /\ (StartLb \/ CloseWindow)
         \/ CrashLb
         \/ UNCHANGED <<lbVars, blobVars>> /\ \E n \in Nodes : ChangesNodes(n)
         \/ UNCHANGED blobVars
            /\ \E n \in Nodes : \E a \in 1 .. MaxAttempts[n] : HandleRegistration(n, a)
         \/ UNCHANGED <<lbVars, nodeVars>>
            /\ ((\E b \in Blobs : ChangesBlobs(b)) \/ \E x \in late : LateExecution(x))
<1>1. ASSUME NEW n \in Nodes, ChangesNodes(n) PROVE UNCHANGED <<lbVars, blobVars>>
  BY <1>1 DEF ChangesNodes, Attempt, ReceiveReply, AttemptFails
<1>2. ASSUME NEW n \in Nodes, NEW a, HandleRegistration(n, a) PROVE UNCHANGED blobVars
  BY <1>2 DEF HandleRegistration
<1>3. ASSUME NEW b \in Blobs, ChangesBlobs(b) PROVE UNCHANGED <<lbVars, nodeVars>>
  BY <1>3 DEF ChangesBlobs, Send, NodeExecutes, Relay, UpstreamFails
<1>4. ASSUME NEW x \in late, LateExecution(x) PROVE UNCHANGED <<lbVars, nodeVars>>
  BY <1>4 DEF LateExecution
<1>5. StartLb \/ CloseWindow => UNCHANGED <<nodeVars, blobVars>>
  BY DEF StartLb, CloseWindow
<1> QED
  BY <1>1, <1>2, <1>3, <1>4, <1>5 DEF Next, Register, Forward, ChangesNodes, ChangesBlobs

\* A new id is none of those listed.
LEMMA FreshIdTyped ==
  ASSUME TypeLb, NEW n \in Nodes, NEW a, Lists(n, a), UNCHANGED <<up, open>>
  PROVE  TypeLb'
<1> DEFINE d == DestOf[n]
<1>1. d \in Dests
  BY NodesAssumption
<1>2. PICK id \in (1 .. MaxId) \ issued :
        issued' = issued \cup {id} /\ registry' = [registry EXCEPT ![d] = id]
  BY DEF Lists
<1>3. /\ registry'[d] = id /\ id # Absent
      /\ \A e \in Dests : e # d => registry'[e] = registry[e]
      /\ \A e \in Dests : registry[e] # Absent => registry[e] \in issued
  BY <1>1, <1>2 DEF TypeLb, Absent
<1>4. \A e \in Listed' : e \in Dests /\ (e # d => e \in Listed)
  BY <1>3 DEF Listed
<1>5. \A e, f \in Listed' : registry'[e] = registry'[f] => e = f
  <2> SUFFICES ASSUME NEW e \in Listed', NEW f \in Listed', registry'[e] = registry'[f]
               PROVE  e = f
    OBVIOUS
  <2>1. CASE e # d /\ f # d
    BY <1>3, <1>4, <2>1 DEF TypeLb
  <2>2. CASE e = d \/ f = d
    BY <1>2, <1>3, <1>4, <2>2 DEF Listed
  <2> QED
    BY <2>1, <2>2
<1>6. issued' \subseteq 1 .. MaxId /\ registry' \in [Dests -> issued' \cup {Absent}]
  BY <1>2 DEF TypeLb
<1> QED
  BY <1>5, <1>6 DEF TypeLb

LEMMA TypeLbStep == TypeLb /\ Next => TypeLb'
<1> SUFFICES ASSUME TypeLb, Next PROVE TypeLb'
  OBVIOUS
<1>1. CASE UNCHANGED lbVars
  BY <1>1 DEF lbVars, TypeLb, Listed
<1>2. CASE StartLb
  BY <1>2 DEF StartLb, TypeLb, Listed
<1>3. CASE CloseWindow \/ CrashLb
  BY <1>3 DEF CloseWindow, CrashLb, TypeLb, Listed
<1>4. ASSUME NEW n \in Nodes, NEW a, HandleRegistration(n, a) PROVE TypeLb'
  <2>1. UNCHANGED <<up, open>>
    BY <1>4 DEF HandleRegistration
  <2>2. CASE UNCHANGED <<registry, issued>>
    BY <2>1, <2>2 DEF TypeLb, Listed
  <2> QED
    BY <1>4, <2>1, <2>2, HandlingEffect, FreshIdTyped DEF Refuses, Finds
<1> QED
  BY <1>1, <1>2, <1>3, <1>4, StepsByPart

LEMMA IdInRange ==
  ASSUME NEW ids, NEW id, ids \subseteq 1 .. MaxId, id \in ids \cup {Absent}
  PROVE  id \in 0 .. MaxId
<1>1. MaxId \in Nat
  BY NodesAssumption
<1> QED
  BY <1>1 DEF Absent

LEMMA ListedIdInRange ==
  ASSUME TypeLb', NEW n \in Nodes
  PROVE  registry'[DestOf[n]] \in 0 .. MaxId
<1>1. DestOf[n] \in Dests
  BY NodesAssumption
<1>2. registry'[DestOf[n]] \in issued' \cup {Absent} /\ issued' \subseteq 1 .. MaxId
  BY <1>1 DEF TypeLb
<1> QED
  BY <1>2, IdInRange

LEMMA RepliedTyped ==
  ASSUME TypeLb', TypeNodes, NEW n \in Nodes, NEW a, NEW status \in {200, 400, 403},
         Replied(n, a, status)
  PROVE  reply' \in [Nodes -> Replies]
<1>1. registry'[DestOf[n]] \in 0 .. MaxId
  BY ListedIdInRange
<1>0. Absent \in 0 .. MaxId
  BY NodesAssumption DEF Absent
<1>2. [status |-> status, id |-> IF status = 200 THEN registry'[DestOf[n]] ELSE Absent]
        \in Replies
  BY <1>0, <1>1 DEF Replies
<1> QED
  BY <1>2 DEF Replied, TypeNodes

LEMMA TypeNodesStep == TypeOK /\ TypeLb' /\ Next => TypeNodes'
<1> SUFFICES ASSUME TypeOK, TypeLb', Next PROVE TypeNodes'
  OBVIOUS
<1> USE TypeParts
<1>1. CASE UNCHANGED nodeVars
  BY <1>1 DEF nodeVars, TypeNodes
<1>2. CASE CrashLb
  BY <1>2 DEF CrashLb, TypeNodes
<1>3. ASSUME NEW n \in Nodes, Attempt(n) PROVE TypeNodes'
  <2>1. NoReply \in Replies
    BY NodesAssumption DEF NoReply, Replies, Absent
  <2>2. attempts' \in [Nodes -> Nat] /\ \A m \in Nodes : attempts'[m] <= MaxAttempts[m]
    <3>1. MaxAttempts[n] \in Nat /\ attempts[n] \in Nat /\ attempts[n] < MaxAttempts[n]
      BY <1>3, NodesAssumption DEF Attempt, TypeNodes
    <3>2. attempts[n] + 1 \in Nat /\ attempts[n] + 1 <= MaxAttempts[n]
      BY <3>1
    <3>3. attempts' = [attempts EXCEPT ![n] = attempts[n] + 1]
      BY <1>3 DEF Attempt
    <3> QED
      BY <3>2, <3>3 DEF TypeNodes
  <2>3. \A x \in inbox' : x[1] \in Nodes /\ x[2] \in 1 .. attempts'[x[1]]
    <3> SUFFICES ASSUME NEW x \in inbox'
                 PROVE  x[1] \in Nodes /\ x[2] \in 1 .. attempts'[x[1]]
      OBVIOUS
    <3>1. CASE x \in inbox
      BY <1>3, <3>1 DEF Attempt, TypeNodes
    <3>2. CASE x = <<n, attempts[n] + 1>>
      BY <1>3, <3>2 DEF Attempt, TypeNodes
    <3> QED
      BY <1>3, <3>1, <3>2 DEF Attempt
  <2>4. phase' \in [Nodes -> Phases] /\ assigned' = assigned
    BY <1>3 DEF Attempt, TypeNodes, Phases
  <2>5. reply' \in [Nodes -> Replies]
    BY <1>3, <2>1 DEF Attempt, TypeNodes
  <2> QED
    BY <2>2, <2>3, <2>4, <2>5 DEF TypeNodes
<1>4. ASSUME NEW n \in Nodes, ReceiveReply(n) PROVE TypeNodes'
  <2>1. NoReply \in Replies /\ reply[n].id \in 0 .. MaxId
    BY NodesAssumption DEF NoReply, Replies, Absent, TypeNodes
  <2>2. phase' \in [Nodes -> Phases]
    BY <1>4 DEF ReceiveReply, TypeNodes, Phases
  <2>3. reply' \in [Nodes -> Replies] /\ assigned' \in [Nodes -> 0 .. MaxId]
    BY <1>4, <2>1 DEF ReceiveReply, TypeNodes
  <2> QED
    BY <1>4, <2>2, <2>3 DEF ReceiveReply, TypeNodes
<1>5. ASSUME NEW n \in Nodes, AttemptFails(n) PROVE TypeNodes'
  <2>1. NoReply \in Replies
    BY NodesAssumption DEF NoReply, Replies, Absent
  <2>2. phase' \in [Nodes -> Phases]
    BY <1>5 DEF AttemptFails, TypeNodes, Phases
  <2>3. reply' \in [Nodes -> Replies]
    BY <1>5, <2>1 DEF AttemptFails, TypeNodes
  <2> QED
    BY <1>5, <2>2, <2>3 DEF AttemptFails, TypeNodes
<1>6. ASSUME NEW n \in Nodes, NEW a, HandleRegistration(n, a) PROVE TypeNodes'
  <2>1. reply' \in [Nodes -> Replies]
    BY <1>6, HandlingEffect, RepliedTyped DEF Refuses, Finds, Lists
  <2>2. inbox' \subseteq inbox /\ UNCHANGED <<phase, attempts, assigned>>
    BY <1>6 DEF HandleRegistration
  <2> QED
    BY <2>1, <2>2 DEF TypeNodes
<1> QED
  BY <1>1, <1>2, <1>3, <1>4, <1>5, <1>6, StepsByPart DEF ChangesNodes

-----------------------------------------------------------------------------
(* Blobs *)

LEMMA IdleStage == Idle.stage = "idle" /\ Idle.kind = "none"
BY DEF Idle

RequestInv == \A b \in Blobs : request[b].stage # "idle" => request[b].kind # "none"

LEMMA InterruptedTyped ==
  ASSUME TypeBlobs, RequestInv, NEW b \in Blobs
  PROVE  Interrupted(b) \subseteq [kind : {"put", "delete"}, dest : Dests, blob : Blobs]
<1>1. request[b] \in Requests
  BY DEF TypeBlobs
<1>2. ASSUME request[b].stage = "sent", request[b].kind # "get"
      PROVE  [kind |-> request[b].kind, dest |-> request[b].dest, blob |-> b]
               \in [kind : {"put", "delete"}, dest : Dests, blob : Blobs]
  <2>1. request[b].kind \in {"put", "delete"} /\ request[b].dest \in Dests
    BY <1>1, <1>2 DEF Requests, RequestInv
  <2> QED
    BY <2>1
<1> QED
  BY <1>2 DEF Interrupted

\* The requests a client sends.
Sent(kind, d, sure) == [kind |-> kind, dest |-> d, stage |-> "sent", sure |-> sure]

LEMMA SendEffect ==
  ASSUME TypeLb, NEW b \in Blobs, Send(b)
  PROVE  \E kind \in {"put", "get", "delete"}, sure \in BOOLEAN :
           /\ sure <=> ~Pending(b)
           /\ Ready /\ request[b] = Idle /\ pickNode(b) \in Dests
           /\ request' = [request EXCEPT ![b] = Sent(kind, pickNode(b), sure)]
           /\ Sent(kind, pickNode(b), sure) \in Requests
           /\ known' = IF kind = "get" THEN known ELSE [known EXCEPT ![b] = "unknown"]
           /\ UNCHANGED <<lbVars, nodeVars, held, late>>
<1>1. PICK kind \in {"put", "get", "delete"}, d \in route(b) :
        /\ request' = [request EXCEPT ![b] =
             [kind |-> kind, dest |-> d, stage |-> "sent", sure |-> ~Pending(b)]]
        /\ known' = IF kind = "get" THEN known ELSE [known EXCEPT ![b] = "unknown"]
  BY DEF Send
<1>2. d = pickNode(b)
  BY DEF route
<1>3. PICK sure \in BOOLEAN : sure = ~Pending(b)
  <2>1. (~Pending(b)) \in BOOLEAN
    OBVIOUS
  <2> QED
    BY <2>1, Zenon
<1>4. request' = [request EXCEPT ![b] = Sent(kind, pickNode(b), sure)]
  BY <1>1, <1>2, <1>3, Zenon DEF Sent
<1>5. pickNode(b) \in Dests
  BY PickNodeListed DEF Send, Ready, Listed
<1>6. Sent(kind, pickNode(b), sure) \in Requests
  BY <1>5, Zenon DEF Sent, Requests
<1>7. Ready /\ request[b] = Idle /\ UNCHANGED <<lbVars, nodeVars, held, late>>
  BY DEF Send
<1> QED
  BY <1>1, <1>3, <1>4, <1>5, <1>6, <1>7, Zenon

LEMMA StoredTyped ==
  ASSUME TypeBlobs, NEW b \in Blobs, NEW d \in Dests, NEW kind \in {"put", "get", "delete"},
         Stored(kind, d, b)
  PROVE  /\ held' \in [Dests -> SUBSET Blobs]
         /\ \A e \in Dests, c \in Blobs : c # b => (c \in held'[e] <=> c \in held[e])
         /\ kind = "put" => b \in held'[d]
         /\ kind = "delete" => b \notin held'[d]
         /\ kind = "get" => held' = held
<1>1. CASE kind = "put"
  <2>1. held' = [held EXCEPT ![d] = @ \cup {b}]
    BY <1>1 DEF Stored
  <2> QED
    BY <1>1, <2>1 DEF TypeBlobs
<1>2. CASE kind = "delete"
  <2>1. held' = [held EXCEPT ![d] = @ \ {b}]
    BY <1>2 DEF Stored
  <2> QED
    BY <1>2, <2>1 DEF TypeBlobs
<1>3. CASE kind = "get"
  <2>1. held' = held
    BY <1>3 DEF Stored
  <2> QED
    BY <1>3, <2>1 DEF TypeBlobs
<1> QED
  BY <1>1, <1>2, <1>3

LEMMA ExecuteEffect ==
  ASSUME TypeBlobs, RequestInv, NEW b \in Blobs, NodeExecutes(b)
  PROVE  /\ request[b].stage = "sent" /\ request[b] \in Requests
         /\ request[b].kind \in {"put", "get", "delete"}
         /\ UNCHANGED <<late, known>>
         /\ \/ /\ Stored(request[b].kind, request[b].dest, b)
               /\ request' = [request EXCEPT ![b].stage = "done"]
            \/ UNCHANGED held /\ request' = [request EXCEPT ![b].stage = "refused"]
<1>1. request[b].stage = "sent" /\ request[b] \in Requests
  BY DEF NodeExecutes, TypeBlobs
<1>2. request[b].kind \in {"put", "get", "delete"}
  BY <1>1 DEF RequestInv, Requests
<1> QED
  BY <1>1, <1>2 DEF NodeExecutes

LEMMA StageSet ==
  ASSUME TypeBlobs, NEW b \in Blobs, NEW stage \in {"done", "refused"},
         request' = [request EXCEPT ![b].stage = stage]
  PROVE  /\ request' \in [Blobs -> Requests]
         /\ request'[b].stage = stage /\ request'[b].kind = request[b].kind
         /\ request'[b].dest = request[b].dest /\ request'[b].sure = request[b].sure
         /\ \A c \in Blobs : c # b => request'[c] = request[c]
<1>1. request[b] \in Requests
  BY DEF TypeBlobs
<1>2. [request[b] EXCEPT !.stage = stage] \in Requests
  BY <1>1 DEF Requests
<1>3. request' = [request EXCEPT ![b] = [request[b] EXCEPT !.stage = stage]]
  OBVIOUS
<1> HIDE DEF TypeBlobs
<1>4. request'[b] = [request[b] EXCEPT !.stage = stage]
  BY <1>3 DEF TypeBlobs
<1> QED
  BY <1>1, <1>2, <1>3, <1>4 DEF TypeBlobs, Requests

LEMMA RelayEffect ==
  ASSUME TypeBlobs, NEW b \in Blobs, Relay(b)
  PROVE  /\ request[b].stage \in {"done", "refused"}
         /\ request' = [request EXCEPT ![b] = Idle] /\ UNCHANGED <<held, late>>
         /\ \/ UNCHANGED known
            \/ /\ request[b].stage = "done" /\ request[b].sure
               /\ \/ request[b].kind = "put" /\ known' = [known EXCEPT ![b] = "stored"]
                  \/ request[b].kind # "put" /\ request[b].kind # "get"
                     /\ known' = [known EXCEPT ![b] = "deleted"]
<1>1. CASE request[b].stage = "refused" \/ request[b].kind = "get" \/ ~request[b].sure
  BY <1>1 DEF Relay
<1>2. CASE ~(request[b].stage = "refused" \/ request[b].kind = "get" \/ ~request[b].sure)
  BY <1>2 DEF Relay
<1> QED
  BY <1>1, <1>2

BlobTypes == TypeBlobs /\ RequestInv

LEMMA BlobTypesStep == TypeOK /\ RequestInv /\ Next => BlobTypes'
<1> SUFFICES ASSUME TypeOK, RequestInv, Next PROVE BlobTypes'
  OBVIOUS
<1> USE TypeParts, IdleTyped, IdleStage DEF BlobTypes
<1>1. CASE UNCHANGED blobVars
  BY <1>1 DEF blobVars, TypeBlobs, RequestInv
<1>2. CASE CrashLb
  <2>1. late' \subseteq [kind : {"put", "delete"}, dest : Dests, blob : Blobs]
    BY <1>2, InterruptedTyped DEF CrashLb, TypeBlobs
  <2> QED
    BY <1>2, <2>1 DEF CrashLb, TypeBlobs, RequestInv
<1>3. ASSUME NEW b \in Blobs, Send(b) PROVE BlobTypes'
  <2>1. PICK kind \in {"put", "get", "delete"}, sure \in BOOLEAN :
          /\ request' = [request EXCEPT ![b] = Sent(kind, pickNode(b), sure)]
          /\ Sent(kind, pickNode(b), sure) \in Requests
          /\ known' = IF kind = "get" THEN known ELSE [known EXCEPT ![b] = "unknown"]
          /\ UNCHANGED <<held, late>>
    BY <1>3, SendEffect
  <2>2. Sent(kind, pickNode(b), sure).kind # "none"
    BY DEF Sent
  <2> QED
    BY <2>1, <2>2 DEF TypeBlobs, RequestInv
<1>4. ASSUME NEW b \in Blobs, NodeExecutes(b) PROVE BlobTypes'
  <2>1. request' \in [Blobs -> Requests] /\ RequestInv'
    BY <1>4, ExecuteEffect, StageSet DEF RequestInv
  <2>2. held' \in [Dests -> SUBSET Blobs]
    BY <1>4, ExecuteEffect, StoredTyped DEF TypeBlobs, Requests
  <2> QED
    BY <1>4, <2>1, <2>2, ExecuteEffect DEF TypeBlobs
<1>5. ASSUME NEW b \in Blobs, Relay(b) PROVE BlobTypes'
  BY <1>5, RelayEffect DEF TypeBlobs, RequestInv
<1>6. ASSUME NEW b \in Blobs, UpstreamFails(b) PROVE BlobTypes'
  BY <1>6, InterruptedTyped DEF UpstreamFails, TypeBlobs, RequestInv
<1>7. ASSUME NEW x \in late, LateExecution(x) PROVE BlobTypes'
  <2>1. x.kind \in {"put", "delete"} /\ x.dest \in Dests /\ x.blob \in Blobs
    BY DEF TypeBlobs
  <2>2. held' \in [Dests -> SUBSET Blobs]
    BY <1>7, <2>1, StoredTyped DEF LateExecution, TypeBlobs
  <2> QED
    BY <1>7, <2>2 DEF LateExecution, TypeBlobs, RequestInv
<1> QED
  BY <1>1, <1>2, <1>3, <1>4, <1>5, <1>6, <1>7, StepsByPart DEF ChangesBlobs, CrashLb

Typed == TypeOK /\ RequestInv

LEMMA TypedInit == Init => Typed
BY TypeInit, IdleStage DEF Typed, RequestInv, Init

LEMMA TypedStep == Typed /\ [Next]_vars => Typed'
<1>1. Typed /\ UNCHANGED vars => Typed'
  BY DEF Typed, vars, lbVars, nodeVars, blobVars, TypeOK, Listed, RequestInv
<1>2. Typed /\ Next => Typed'
  BY TypeParts, TypeLbStep, TypeNodesStep, BlobTypesStep, TypePartsAfter DEF Typed, BlobTypes
<1> QED
  BY <1>1, <1>2

LEMMA TypedInvariant == Spec => []Typed
BY TypedInit, TypedStep, PTL DEF Spec

\* Ids are unique and every registration, request and answer one of its kind,
\* whatever fails or crashes.
THEOREM LoadBalancerTypeCorrect == Spec => []TypeOK
BY TypedInvariant, PTL DEF Typed

\* Once the load balancer routes no registration, however late, changes where a
\* blob belongs.
THEOREM RoutingStaysFrozen == Spec => RoutingFrozen
<1> DEFINE Frozen == Ready /\ Ready' => \A b \in Blobs : pickNode(b)' = pickNode(b)
<1>1. [Next]_vars => [Frozen]_vars
  <2> SUFFICES ASSUME Next, Ready PROVE \A b \in Blobs : pickNode(b)' = pickNode(b)
    OBVIOUS
  <2>1. registry' = registry
    <3>1. ASSUME NEW n \in Nodes, NEW a, HandleRegistration(n, a) PROVE registry' = registry
      BY <3>1, HandlingEffect DEF Refuses, Finds, Lists, Ready
    <3> QED
      BY <3>1, StepsByPart DEF Ready, StartLb, CloseWindow, CrashLb, lbVars
  <2> QED
    BY <2>1 DEF pickNode, Listed
<1> QED
  BY <1>1, PTL DEF Spec, RoutingFrozen

-----------------------------------------------------------------------------
(* One life of the load balancer *)

\* Before it starts nobody has been listed, answered or routed to.
LifeInv ==
  ~up => /\ ~open /\ (\A d \in Dests : registry[d] = Absent) /\ inbox = {}
         /\ \A n \in Nodes : reply[n] = NoReply /\ phase[n] \notin {"registered", "rejected"}

\* An answer under way, and what the node made of one, agree with the registry;
\* each attempt is answered once.
Told(n) ==
  /\ reply[n].status = 0 => reply[n] = NoReply
  /\ reply[n].status = 200 => registry[DestOf[n]] # Absent /\ reply[n].id = registry[DestOf[n]]
  /\ phase[n] = "registered" => registry[DestOf[n]] # Absent /\ assigned[n] = registry[DestOf[n]]
  /\ reply[n] # NoReply => phase[n] = "waiting"
  /\ reply[n] # NoReply \/ phase[n] = "rejected" => <<n, attempts[n]>> \notin inbox

AnswerInv == \A n \in Nodes : Told(n)

\* A node that is alone at its destination is not listed before an attempt of
\* its own has been handled, nor by one that was refused.
Alone(n) == \A m \in Nodes : DestOf[m] = DestOf[n] => m = n
OnlyAttempt(n) == attempts[n] = 1 /\ (\/ <<n, 1>> \in inbox \/ phase[n] = "rejected"
                                      \/ reply[n].status \in {400, 403})
FirstInv ==
  \A n \in Nodes : Alone(n) /\ (attempts[n] = 0 \/ OnlyAttempt(n)) => registry[DestOf[n]] = Absent

RegistrationInv == LifeInv /\ AnswerInv /\ FirstInv

LEMMA RegistrationInit == Init => RegistrationInv
<1> SUFFICES ASSUME Init PROVE RegistrationInv
  OBVIOUS
<1>1. \A n \in Nodes : DestOf[n] \in Dests
  BY NodesAssumption
<1>2. NoReply.status = 0
  BY DEF NoReply
<1> QED
  BY <1>1, <1>2 DEF Init, RegistrationInv, LifeInv, AnswerInv, Told, FirstInv

LEMMA NoReplyStatus == NoReply.status = 0
BY DEF NoReply

LEMMA TypedStatus ==
  ASSUME TypeOK, NEW n \in Nodes
  PROVE  reply[n].status \in {0, 200, 400, 403} /\ attempts[n] \in Nat /\ DestOf[n] \in Dests
<1>1. reply[n] \in Replies
  BY TypeParts DEF TypeNodes
<1> QED
  BY <1>1, TypeParts, NodesAssumption DEF Replies, TypeNodes

LEMMA LifeStep ==
  ASSUME Typed, RegistrationInv, Next, ~CrashLb
  PROVE  LifeInv'
<1>1. CASE UNCHANGED <<lbVars, nodeVars>>
  BY <1>1 DEF lbVars, nodeVars, RegistrationInv, LifeInv
<1>2. CASE StartLb \/ CloseWindow
  BY <1>2 DEF StartLb, CloseWindow, LifeInv, RegistrationInv
<1>3. ASSUME NEW n \in Nodes, NEW a, HandleRegistration(n, a) PROVE LifeInv'
  BY <1>3 DEF HandleRegistration, LifeInv
<1>4. ASSUME NEW n \in Nodes, ChangesNodes(n), UNCHANGED lbVars, ~up PROVE LifeInv'
  <2> USE DEF RegistrationInv, LifeInv, lbVars
  <2>1. CASE Attempt(n)
    BY <1>4, <2>1, TypeParts DEF Attempt, Typed, TypeNodes
  <2>2. CASE ReceiveReply(n)
    BY <1>4, <2>2 DEF ReceiveReply
  <2>3. CASE AttemptFails(n)
    BY <1>4, <2>3, TypeParts DEF AttemptFails, Typed, TypeNodes
  <2> QED
    BY <1>4, <2>1, <2>2, <2>3 DEF ChangesNodes
<1>5. ASSUME UNCHANGED lbVars, up PROVE LifeInv'
  BY <1>5 DEF lbVars, LifeInv
<1> QED
  BY <1>1, <1>2, <1>3, <1>4, <1>5, StepsByPart DEF RegistrationInv

\* The registry after an attempt was handled.
LEMMA RegistryGrows ==
  ASSUME TypeOK, NEW n \in Nodes, NEW a, HandleRegistration(n, a)
  PROVE  /\ \A d \in Dests : registry[d] # Absent => registry'[d] = registry[d]
         /\ \A d \in Dests : d # DestOf[n] => registry'[d] = registry[d]
         /\ Finds(n, a) \/ Lists(n, a) => registry'[DestOf[n]] # Absent
<1> USE TypeParts
<1>1. DestOf[n] \in Dests /\ registry \in [Dests -> issued \cup {Absent}]
  BY NodesAssumption DEF TypeLb
<1>2. CASE Refuses(n, a) \/ Finds(n, a)
  BY <1>1, <1>2 DEF Refuses, Finds, Lists
<1>3. CASE Lists(n, a)
  <2>1. PICK id \in (1 .. MaxId) \ issued : registry' = [registry EXCEPT ![DestOf[n]] = id]
    BY <1>3 DEF Lists
  <2>2. id # Absent
    BY DEF Absent
  <2> QED
    BY <1>1, <1>3, <2>1, <2>2 DEF Lists
<1> QED
  BY <1>2, <1>3, HandlingEffect

\* The answers after an attempt was handled.
LEMMA AnswersGiven ==
  ASSUME TypeOK, TypeLb', NEW n \in Nodes, NEW a, HandleRegistration(n, a)
  PROVE  /\ \A m \in Nodes : m # n => reply'[m] = reply[m]
         /\ \/ reply'[n] = reply[n]
            \/ /\ phase[n] = "waiting" /\ attempts[n] = a
               /\ \/ Refuses(n, a) /\ reply'[n].status \in {400, 403}
                  \/ /\ Finds(n, a) \/ Lists(n, a)
                     /\ reply'[n].status = 200 /\ reply'[n].id = registry'[DestOf[n]]
<1>1. reply \in [Nodes -> Replies]
  BY TypeParts DEF TypeNodes
<1>2. ASSUME NEW status \in {200, 400, 403}, Replied(n, a, status)
      PROVE  /\ \A m \in Nodes : m # n => reply'[m] = reply[m]
             /\ \/ reply'[n] = reply[n]
                \/ /\ phase[n] = "waiting" /\ attempts[n] = a /\ reply'[n].status = status
                   /\ status = 200 => reply'[n].id = registry'[DestOf[n]]
  <2>1. CASE phase[n] = "waiting" /\ attempts[n] = a
    <3> DEFINE answer == [status |-> status,
                          id |-> IF status = 200 THEN registry'[DestOf[n]] ELSE Absent]
    <3>1. reply' = [reply EXCEPT ![n] = answer]
      BY <1>2, <2>1 DEF Replied
    <3>2. reply'[n] = answer /\ \A m \in Nodes : m # n => reply'[m] = reply[m]
      BY <1>1, <3>1
    <3> QED
      BY <2>1, <3>2
  <2>2. CASE ~(phase[n] = "waiting" /\ attempts[n] = a)
    BY <1>2, <2>2 DEF Replied
  <2> QED
    BY <2>1, <2>2
<1>3. CASE Refuses(n, a)
  BY <1>2, <1>3 DEF Refuses
<1>4. CASE Finds(n, a) \/ Lists(n, a)
  <2>1. Replied(n, a, 200)
    BY <1>4 DEF Finds, Lists
  <2> QED
    BY <1>2, <1>4, <2>1
<1> QED
  BY <1>3, <1>4, HandlingEffect

LEMMA AnswerStep ==
  ASSUME Typed, TypeLb', RegistrationInv, Next, ~CrashLb
  PROVE  AnswerInv'
<1> USE NoReplyStatus, TypeParts DEF Typed
<1>1. CASE UNCHANGED <<lbVars, nodeVars>>
  BY <1>1 DEF lbVars, nodeVars, RegistrationInv, AnswerInv, Told
<1>2. CASE CloseWindow
  BY <1>2 DEF CloseWindow, nodeVars, RegistrationInv, AnswerInv, Told
<1>3. CASE StartLb
  <2>1. \A n \in Nodes : reply'[n] = NoReply /\ phase'[n] \notin {"registered", "rejected"}
    BY <1>3 DEF StartLb, nodeVars, RegistrationInv, LifeInv
  <2> QED
    BY <2>1 DEF AnswerInv, Told
<1>4. ASSUME NEW n \in Nodes, NEW a, HandleRegistration(n, a) PROVE AnswerInv'
  <2>1. /\ UNCHANGED <<phase, attempts, assigned>> /\ inbox' = inbox \ {<<n, a>>}
        /\ <<n, a>> \in inbox
    BY <1>4 DEF HandleRegistration
  <2>2. \A m \in Nodes : registry[DestOf[m]] # Absent => registry'[DestOf[m]] = registry[DestOf[m]]
    BY <1>4, RegistryGrows, NodesAssumption
  <2> SUFFICES ASSUME NEW m \in Nodes PROVE Told(m)'
    BY DEF AnswerInv, Told
  <2>3. CASE reply'[m] = reply[m]
    BY <2>1, <2>2, <2>3 DEF RegistrationInv, AnswerInv, Told
  <2>4. CASE reply'[m] # reply[m]
    <3>1. m = n /\ phase[n] = "waiting" /\ attempts[n] = a
      BY <1>4, <2>4, AnswersGiven
    <3>2. CASE reply'[n].status \in {400, 403}
      BY <2>1, <3>1, <3>2 DEF RegistrationInv, AnswerInv, Told
    <3>3. CASE /\ Finds(n, a) \/ Lists(n, a)
               /\ reply'[n].status = 200 /\ reply'[n].id = registry'[DestOf[n]]
      BY <1>4, <2>1, <3>1, <3>3, RegistryGrows DEF RegistrationInv, AnswerInv, Told
    <3> QED
      BY <1>4, <2>4, <3>1, <3>2, <3>3, AnswersGiven
  <2> QED
    BY <2>3, <2>4
<1>5. ASSUME NEW n \in Nodes, ChangesNodes(n), UNCHANGED lbVars PROVE AnswerInv'
  <2> SUFFICES ASSUME NEW m \in Nodes PROVE Told(m)'
    BY DEF AnswerInv, Told
  <2>0. registry' = registry
    BY <1>5 DEF lbVars
  <2>1. CASE Attempt(n) /\ m = n
    <3>1. reply'[n] = NoReply /\ phase'[n] = "waiting"
      BY <2>1 DEF Attempt, TypeNodes
    <3> QED
      BY <2>1, <3>1 DEF Told
  <2>2. CASE ReceiveReply(n) /\ m = n
    <3>1. /\ reply'[n] = NoReply /\ assigned'[n] = reply[n].id /\ UNCHANGED <<inbox, attempts>>
          /\ phase'[n] = IF reply[n].status = 200 THEN "registered" ELSE "rejected"
          /\ reply[n] # NoReply
      BY <2>2 DEF ReceiveReply, TypeNodes
    <3> QED
      BY <2>0, <2>2, <3>1 DEF RegistrationInv, AnswerInv, Told
  <2>3. CASE AttemptFails(n) /\ m = n
    <3>1. reply'[n] = NoReply /\ phase'[n] \in {"gaveUp", "sleep"}
      BY <2>3 DEF AttemptFails, TypeNodes
    <3> QED
      BY <2>3, <3>1 DEF Told
  <2>4. CASE m # n
    <3>1. /\ phase'[m] = phase[m] /\ reply'[m] = reply[m] /\ attempts'[m] = attempts[m]
          /\ assigned'[m] = assigned[m]
          /\ <<m, attempts[m]>> \in inbox' => <<m, attempts[m]>> \in inbox
      BY <1>5, <2>4 DEF ChangesNodes, Attempt, ReceiveReply, AttemptFails, TypeNodes
    <3>2. Told(m)
      BY DEF RegistrationInv, AnswerInv
    <3> QED
      BY <2>0, <3>1, <3>2 DEF Told
  <2> QED
    BY <1>5, <2>1, <2>2, <2>3, <2>4 DEF ChangesNodes
<1> QED
  BY <1>1, <1>2, <1>3, <1>4, <1>5, StepsByPart

LEMMA FirstStep ==
  ASSUME Typed, TypeLb', RegistrationInv, Next, ~CrashLb
  PROVE  FirstInv'
<1> USE NoReplyStatus, TypeParts DEF Typed
<1>1. CASE UNCHANGED <<lbVars, nodeVars>>
  BY <1>1 DEF lbVars, nodeVars, RegistrationInv, FirstInv, OnlyAttempt
<1>2. CASE CloseWindow
  BY <1>2 DEF CloseWindow, nodeVars, RegistrationInv, FirstInv, OnlyAttempt
<1>3. CASE StartLb
  <2>1. \A d \in Dests : registry'[d] = Absent
    BY <1>3 DEF StartLb
  <2> QED
    BY <2>1, NodesAssumption DEF FirstInv
<1>4. ASSUME NEW n \in Nodes, NEW a, HandleRegistration(n, a) PROVE FirstInv'
  <2>1. /\ UNCHANGED <<phase, attempts>> /\ inbox' = inbox \ {<<n, a>>} /\ <<n, a>> \in inbox
    BY <1>4 DEF HandleRegistration
  <2> SUFFICES ASSUME NEW m \in Nodes, Alone(m), attempts[m] = 0 \/ OnlyAttempt(m)'
               PROVE  registry'[DestOf[m]] = Absent
    BY <2>1 DEF FirstInv, Alone
  <2>2. CASE m # n
    <3>1. registry'[DestOf[m]] = registry[DestOf[m]]
      BY <1>4, <2>2, RegistryGrows, NodesAssumption DEF Alone
    <3>2. reply'[m] = reply[m]
      BY <1>4, <2>2, AnswersGiven
    <3> QED
      BY <2>1, <3>1, <3>2 DEF OnlyAttempt, RegistrationInv, FirstInv
  <2>3. CASE m = n
    <3>1. a \in 1 .. attempts[n]
      BY <2>1 DEF TypeNodes
    <3>2. attempts[n] = 1 /\ a = 1
      BY <2>1, <2>3, <3>1, TypedStatus DEF OnlyAttempt
    <3>3. registry[DestOf[n]] = Absent
      BY <2>1, <2>3, <3>2 DEF OnlyAttempt, RegistrationInv, FirstInv
    <3>4. /\ <<n, 1>> \notin inbox' /\ phase[n] # "rejected" /\ reply[n] = NoReply
      BY <2>1, <3>2 DEF RegistrationInv, AnswerInv, Told
    <3>5. reply'[n].status \in {400, 403}
      BY <2>1, <2>3, <3>2, <3>4 DEF OnlyAttempt
    <3>6. Refuses(n, a)
      BY <1>4, <3>4, <3>5, AnswersGiven
    <3> QED
      BY <2>3, <3>3, <3>6 DEF Refuses
  <2> QED
    BY <2>2, <2>3
<1>5. ASSUME NEW n \in Nodes, ChangesNodes(n), UNCHANGED lbVars PROVE FirstInv'
  <2> SUFFICES ASSUME NEW m \in Nodes, Alone(m), attempts'[m] = 0 \/ OnlyAttempt(m)'
               PROVE  registry[DestOf[m]] = Absent
    BY <1>5 DEF FirstInv, Alone, lbVars
  <2>1. CASE Attempt(n) /\ m = n
    <3>1. attempts'[n] = attempts[n] + 1
      BY <2>1 DEF Attempt, TypeNodes
    <3> QED
      BY <2>1, <3>1, TypedStatus DEF OnlyAttempt, RegistrationInv, FirstInv
  <2>2. CASE ReceiveReply(n) /\ m = n
    <3>1. /\ reply'[n] = NoReply /\ UNCHANGED <<inbox, attempts>>
          /\ phase'[n] = IF reply[n].status = 200 THEN "registered" ELSE "rejected"
          /\ reply[n] # NoReply
      BY <2>2 DEF ReceiveReply, TypeNodes
    <3>2. reply[n].status = 200 \/ reply[n].status \in {400, 403}
      <4>1. reply[n].status # 0
        BY <3>1 DEF RegistrationInv, AnswerInv, Told
      <4> QED
        BY <4>1, TypedStatus
    <3> QED
      BY <2>2, <3>1, <3>2 DEF OnlyAttempt, RegistrationInv, FirstInv
  <2>3. CASE AttemptFails(n) /\ m = n
    <3>1. reply'[n] = NoReply /\ phase'[n] \in {"gaveUp", "sleep"} /\ UNCHANGED <<inbox, attempts>>
      BY <2>3 DEF AttemptFails, TypeNodes
    <3> QED
      BY <2>3, <3>1 DEF OnlyAttempt, RegistrationInv, FirstInv
  <2>4. CASE m # n
    <3>1. /\ phase'[m] = phase[m] /\ reply'[m] = reply[m] /\ attempts'[m] = attempts[m]
          /\ <<m, 1>> \in inbox' => <<m, 1>> \in inbox
      BY <1>5, <2>4 DEF ChangesNodes, Attempt, ReceiveReply, AttemptFails, TypeNodes
    <3> QED
      BY <3>1 DEF OnlyAttempt, RegistrationInv, FirstInv
  <2> QED
    BY <1>5, <2>1, <2>2, <2>3, <2>4 DEF ChangesNodes
<1> QED
  BY <1>1, <1>2, <1>3, <1>4, <1>5, StepsByPart

-----------------------------------------------------------------------------

OneLife == "crash" \notin Events

\* As long as the load balancer lives, a node that believes it is registered is
\* listed under the very id it was told, and one whose only attempt was refused
\* is not listed.
THEOREM RegistrationTold == OneLife /\ Spec => []OutcomeMatchesRegistry
<1> SUFFICES ASSUME OneLife PROVE Spec => []OutcomeMatchesRegistry
  OBVIOUS
<1>1. Typed /\ RegistrationInv /\ [Next]_vars => RegistrationInv'
  <2>1. Typed /\ RegistrationInv /\ UNCHANGED vars => RegistrationInv'
    BY DEF vars, lbVars, nodeVars, RegistrationInv, LifeInv, AnswerInv, Told, FirstInv, OnlyAttempt
  <2>2. ASSUME Typed, RegistrationInv, Next PROVE RegistrationInv'
    <3>1. ~CrashLb
      BY DEF CrashLb, OneLife
    <3>2. TypeLb'
      BY <2>2, TypeLbStep, TypeParts DEF Typed
    <3> QED
      BY <2>2, <3>1, <3>2, LifeStep, AnswerStep, FirstStep DEF RegistrationInv
  <2> QED
    BY <2>1, <2>2
<1>2. RegistrationInv => OutcomeMatchesRegistry
  BY DEF RegistrationInv, AnswerInv, Told, FirstInv, OnlyAttempt, Alone, OutcomeMatchesRegistry
<1> QED
  BY <1>1, <1>2, RegistrationInit, TypedInvariant, PTL DEF Spec

\* A request goes where its blob is routed.  What a client knows of a blob, or
\* will be told of it, is true of that node, and no write of its own that was
\* cut off may change it any more.
Sound(b) ==
  /\ request[b].stage # "idle" => Ready /\ request[b].dest = pickNode(b)
  /\ request[b].stage # "idle" /\ request[b].sure =>
       /\ ~Pending(b)
       /\ request[b].stage = "done" /\ request[b].kind = "put" => b \in held[pickNode(b)]
       /\ request[b].stage = "done" /\ request[b].kind = "delete" => b \notin held[pickNode(b)]
  /\ known[b] # "unknown" =>
       Ready /\ ~Pending(b) /\ (request[b].stage = "idle" \/ request[b].kind = "get")
  /\ known[b] = "stored" => b \in held[pickNode(b)]
  /\ known[b] = "deleted" => b \notin held[pickNode(b)]

SoundInv == \A b \in Blobs : Sound(b)

LEMMA ReadyStays ==
  ASSUME Next, ~CrashLb, Ready, NEW b \in Blobs
  PROVE  Ready' /\ pickNode(b)' = pickNode(b)
<1>1. registry' = registry /\ up' = up /\ open' = open
  <2>1. ASSUME NEW n \in Nodes, NEW a, HandleRegistration(n, a)
        PROVE  registry' = registry /\ up' = up /\ open' = open
    BY <2>1, HandlingEffect DEF Refuses, Finds, Lists, Ready, HandleRegistration
  <2> QED
    BY <2>1, StepsByPart DEF Ready, StartLb, CloseWindow, lbVars
<1> QED
  BY <1>1 DEF Ready, pickNode, Listed

\* A step that does not touch a blob leaves what is said of it.
LEMMA Untouched ==
  ASSUME Next, ~CrashLb, NEW b \in Blobs, Sound(b),
         request'[b] = request[b], known'[b] = known[b], Pending(b)' => Pending(b),
         \A d \in Dests : b \in held'[d] <=> b \in held[d],
         Ready => pickNode(b) \in Dests
  PROVE  Sound(b)'
<1>1. CASE Ready
  BY <1>1, ReadyStays DEF Sound
<1>2. CASE ~Ready
  BY <1>2 DEF Sound
<1> QED
  BY <1>1, <1>2

LEMMA SoundStep ==
  ASSUME Typed, SoundInv, Next, ~CrashLb
  PROVE  SoundInv'
<1> USE TypeParts DEF Typed
<1>0. ASSUME NEW b \in Blobs, Ready PROVE pickNode(b) \in Dests
  BY <1>0, PickNodeListed DEF Ready, Listed
<1>1. CASE UNCHANGED blobVars
  BY <1>0, <1>1, Untouched DEF blobVars, SoundInv, Pending
<1>2. ASSUME NEW b \in Blobs, ChangesBlobs(b) PROVE SoundInv'
  <2>0. UNCHANGED <<lbVars, nodeVars>> /\ Sound(b) /\ request[b] \in Requests
    BY <1>2, TypeParts
       DEF ChangesBlobs, Send, NodeExecutes, Relay, UpstreamFails, SoundInv, TypeBlobs
  <2>1. CASE Send(b)
    <3>1. PICK kind \in {"put", "get", "delete"}, sure \in BOOLEAN :
            /\ sure <=> ~Pending(b)
            /\ Ready /\ request[b] = Idle
            /\ request' = [request EXCEPT ![b] = Sent(kind, pickNode(b), sure)]
            /\ known' = IF kind = "get" THEN known ELSE [known EXCEPT ![b] = "unknown"]
            /\ UNCHANGED <<held, late>>
      BY <2>1, SendEffect
    <3>2. ASSUME NEW c \in Blobs, c # b PROVE Sound(c)'
      <4>1. request'[c] = request[c] /\ known'[c] = known[c] /\ (Pending(c)' => Pending(c))
        BY <3>1, <3>2 DEF TypeBlobs, Pending
      <4> QED
        BY <1>0, <3>1, <4>1, Untouched DEF SoundInv
    <3>3. /\ request'[b].kind = kind /\ request'[b].dest = pickNode(b)
          /\ request'[b].stage = "sent" /\ (request'[b].sure <=> ~Pending(b))
      <4>1. request'[b] = Sent(kind, pickNode(b), sure)
        BY <3>1 DEF TypeBlobs
      <4>2. request'[b].kind = kind /\ request'[b].dest = pickNode(b)
            /\ request'[b].stage = "sent" /\ request'[b].sure = sure
        BY <4>1 DEF Sent
      <4> QED
        BY <3>1, <4>2, Zenon
    <3>4. IF kind = "get" THEN known'[b] = known[b] ELSE known'[b] = "unknown"
      BY <3>1 DEF TypeBlobs
    <3>5. Pending(b)' <=> Pending(b)
      BY <3>1 DEF Pending
    <3>6. Sound(b)'
      BY <2>0, <3>1, <3>3, <3>4, <3>5, ReadyStays DEF Sound
    <3> QED
      BY <3>2, <3>6 DEF SoundInv
  <2>2. CASE NodeExecutes(b)
    <3>1. PICK stage \in {"done", "refused"} :
            /\ request' = [request EXCEPT ![b].stage = stage]
            /\ IF stage = "done" THEN Stored(request[b].kind, request[b].dest, b)
               ELSE held' = held
            /\ request[b].stage = "sent" /\ request[b].kind \in {"put", "get", "delete"}
            /\ UNCHANGED <<late, known>>
      BY <2>2, ExecuteEffect
    <3>2. /\ request'[b].stage = stage /\ request'[b].kind = request[b].kind
          /\ request'[b].dest = request[b].dest /\ request'[b].sure = request[b].sure
          /\ \A c \in Blobs : c # b => request'[c] = request[c]
      BY <3>1, StageSet
    <3>3. request[b].dest \in Dests /\ request[b].dest = pickNode(b) /\ Ready
      BY <2>0, <3>1 DEF Requests, Sound
    <3>4. \A e \in Dests, c \in Blobs : c # b => (c \in held'[e] <=> c \in held[e])
      BY <3>1, <3>3, StoredTyped
    <3>5. /\ stage = "done" /\ request[b].kind = "put" => b \in held'[pickNode(b)]
          /\ stage = "done" /\ request[b].kind = "delete" => b \notin held'[pickNode(b)]
          /\ request[b].kind = "get" => held' = held
      BY <3>1, <3>3, StoredTyped
    <3>6. ASSUME NEW c \in Blobs, c # b PROVE Sound(c)'
      BY <1>0, <3>1, <3>2, <3>4, <3>6, Untouched DEF SoundInv, Pending
    <3>7. Pending(b)' <=> Pending(b)
      BY <3>1 DEF Pending
    <3>8. Sound(b)'
      BY <2>0, <3>1, <3>2, <3>3, <3>5, <3>7, ReadyStays DEF Sound
    <3> QED
      BY <3>6, <3>8 DEF SoundInv
  <2>3. CASE Relay(b)
    <3>1. /\ request[b].stage \in {"done", "refused"}
          /\ request' = [request EXCEPT ![b] = Idle] /\ UNCHANGED <<held, late>>
          /\ \A c \in Blobs : c # b => known'[c] = known[c]
      BY <2>3, RelayEffect DEF TypeBlobs
    <3>2. ASSUME NEW c \in Blobs, c # b PROVE Sound(c)'
      <4>1. request'[c] = request[c] /\ known'[c] = known[c] /\ (Pending(c)' => Pending(c))
        BY <3>1, <3>2 DEF TypeBlobs, Pending
      <4> QED
        BY <1>0, <3>1, <4>1, Untouched DEF SoundInv
    <3>3. request'[b].stage = "idle" /\ (Pending(b)' <=> Pending(b))
      BY <3>1, IdleStage DEF TypeBlobs, Pending
    <3>4. Ready /\ request[b].dest = pickNode(b)
      BY <2>0, <3>1 DEF Sound
    <3>5. \/ known'[b] = known[b]
          \/ /\ request[b].stage = "done" /\ request[b].sure
             /\ \/ request[b].kind = "put" /\ known'[b] = "stored"
                \/ request[b].kind = "delete" /\ known'[b] = "deleted"
      <4>1. request[b].kind # "none"
        BY <3>1 DEF RequestInv
      <4> QED
        BY <2>0, <2>3, <4>1, RelayEffect DEF TypeBlobs, Requests
    <3>6. Sound(b)'
      BY <2>0, <3>1, <3>3, <3>4, <3>5, ReadyStays DEF Sound
    <3> QED
      BY <3>2, <3>6 DEF SoundInv
  <2>4. CASE UpstreamFails(b)
    <3>1. /\ request' = [request EXCEPT ![b] = Idle] /\ UNCHANGED <<held, known>>
          /\ late' = late \cup Interrupted(b)
      BY <2>4 DEF UpstreamFails
    <3>2. \A x \in Interrupted(b) : x.blob = b
      BY DEF Interrupted
    <3>3. ASSUME NEW c \in Blobs, c # b PROVE Sound(c)'
      <4>1. request'[c] = request[c] /\ (Pending(c)' => Pending(c))
        BY <3>1, <3>2, <3>3 DEF TypeBlobs, Pending
      <4> QED
        BY <1>0, <3>1, <4>1, Untouched DEF SoundInv
    <3>4. request'[b].stage = "idle"
      BY <3>1, IdleStage DEF TypeBlobs
    <3>5. known[b] # "unknown" => ~Pending(b)'
      <4>1. known[b] # "unknown" => Interrupted(b) = {}
        BY <2>0 DEF Sound, Interrupted
      <4> QED
        BY <2>0, <3>1, <4>1 DEF Sound, Pending
    <3>6. Sound(b)'
      BY <2>0, <3>1, <3>4, <3>5, ReadyStays DEF Sound
    <3> QED
      BY <3>3, <3>6 DEF SoundInv
  <2> QED
    BY <1>2, <2>1, <2>2, <2>3, <2>4 DEF ChangesBlobs
<1>3. ASSUME NEW x \in late, LateExecution(x) PROVE SoundInv'
  <2>1. x.kind \in {"put", "delete"} /\ x.dest \in Dests /\ x.blob \in Blobs
    BY DEF TypeBlobs
  <2>2. UNCHANGED <<request, known>> /\ late' = late \ {x}
    BY <1>3 DEF LateExecution
  <2>3. \A e \in Dests, c \in Blobs : c # x.blob => (c \in held'[e] <=> c \in held[e])
    BY <1>3, <2>1, StoredTyped DEF LateExecution
  <2>4. ASSUME NEW c \in Blobs, c # x.blob PROVE Sound(c)'
    <3>1. Pending(c)' => Pending(c)
      BY <2>2 DEF Pending
    <3> QED
      BY <1>0, <2>2, <2>3, <2>4, <3>1, Untouched DEF SoundInv
  <2>5. Sound(x.blob)'
    <3>1. Pending(x.blob) /\ Sound(x.blob)
      BY <2>1 DEF Pending, SoundInv
    <3> QED
      BY <2>1, <2>2, <3>1, ReadyStays DEF Sound
  <2> QED
    BY <2>4, <2>5 DEF SoundInv
<1> QED
  BY <1>1, <1>2, <1>3, StepsByPart

\* As long as the load balancer lives, a blob whose client was told it is stored
\* is where the client's next request is routed, and one that it was told is
\* deleted is not, whatever connections break and writes run late.
THEOREM FoundAgain == OneLife /\ Spec => []FoundWhereStored
<1> SUFFICES ASSUME OneLife PROVE Spec => []FoundWhereStored
  OBVIOUS
<1>1. Init => SoundInv
  BY IdleStage DEF Init, SoundInv, Sound
<1>2. Typed /\ SoundInv /\ [Next]_vars => SoundInv'
  <2>1. SoundInv /\ UNCHANGED vars => SoundInv'
    <3> SUFFICES ASSUME SoundInv, UNCHANGED vars, NEW b \in Blobs PROVE Sound(b)'
      BY DEF SoundInv
    <3>1. UNCHANGED <<registry, up, open, request, held, late, known>>
      BY DEF vars, lbVars, blobVars
    <3>2. Ready' = Ready /\ pickNode(b)' = pickNode(b) /\ Pending(b)' = Pending(b)
      BY <3>1 DEF Ready, pickNode, Listed, Pending
    <3>3. Sound(b)
      BY DEF SoundInv
    <3> QED
      BY <3>1, <3>2, <3>3 DEF Sound
  <2>2. Typed /\ SoundInv /\ Next => SoundInv'
    BY SoundStep DEF CrashLb, OneLife
  <2> QED
    BY <2>1, <2>2
<1>3. SoundInv => FoundWhereStored
  BY DEF SoundInv, Sound, FoundWhereStored
<1> QED
  BY <1>1, <1>2, <1>3, TypedInvariant, PTL DEF Spec
=============================================================================
