------------------------------ MODULE BlobStore ------------------------------
(***************************************************************************)
(* What the blob server of 04-http-blob-server promises its clients: a map *)
(* from ids to envelopes (stored headers + payload) that every POST,       *)
(* DELETE and GET acts on in one instant between its call and its answer.  *)
(* An answer of 204, 200 or 404 says the operation happened in that        *)
(* instant; an error answer, or a connection cut in its transfer, says it  *)
(* left no trace; a process crash loses the answers of the operations in   *)
(* flight, never what was stored.                                          *)
(***************************************************************************)
CONSTANTS Clients,    \* concurrent connections
          Ids,        \* blob ids
          Envelopes,  \* stored headers and payload of one POST
          None,       \* no envelope
          Calls,      \* the requests: [kind, id, env]
          NoCall,     \* no request
          NoAnswer,   \* not answered yet
          Errors      \* the answers, and the cut, that promise "no effect"

VARIABLES store,      \* [Ids -> Envelopes \cup {None}]
          stage,      \* [Clients -> {"idle", "pending", "done"}]
          request,    \* the request of each connection
          response    \* its answer, once decided

storeVars == <<store, stage, request, response>>

Status(s) == [status |-> s, headers |-> None, payload |-> None]
Found(e) == [status |-> 200, headers |-> e, payload |-> e]

StoreInit ==
  /\ store = [i \in Ids |-> None]
  /\ stage = [c \in Clients |-> "idle"]
  /\ request = [c \in Clients |-> NoCall]
  /\ response = [c \in Clients |-> NoAnswer]

Call(c) ==
  /\ stage[c] = "idle"
  /\ \E k \in Calls : request' = [request EXCEPT ![c] = k]
  /\ stage' = [stage EXCEPT ![c] = "pending"]
  /\ UNCHANGED <<store, response>>

\* A call can also be turned away on arrival.
Refuse(c) ==
  /\ stage[c] = "idle"
  /\ \E k \in Calls : request' = [request EXCEPT ![c] = k]
  /\ stage' = [stage EXCEPT ![c] = "done"]
  /\ \E a \in Errors : response' = [response EXCEPT ![c] = a]
  /\ UNCHANGED store

Decide(c, a) ==
  /\ stage[c] = "pending"
  /\ stage' = [stage EXCEPT ![c] = "done"]
  /\ response' = [response EXCEPT ![c] = a]
  /\ UNCHANGED request

ApplyPut(c) ==
  /\ request[c].kind = "put"
  /\ store' = [store EXCEPT ![request[c].id] = request[c].env]
  /\ Decide(c, Status(204))

ApplyDelete(c) ==
  /\ request[c].kind = "delete"
  /\ store' = [store EXCEPT ![request[c].id] = None]
  /\ Decide(c, Status(204))

ApplyGet(c) ==
  /\ request[c].kind = "get"
  /\ LET e == store[request[c].id]
     IN  Decide(c, IF e = None THEN Status(404) ELSE Found(e))
  /\ UNCHANGED store

Fail(c) ==
  /\ \E a \in Errors : Decide(c, a)
  /\ UNCHANGED store

Return(c) ==
  /\ stage[c] = "done"
  /\ stage' = [stage EXCEPT ![c] = "idle"]
  /\ request' = [request EXCEPT ![c] = NoCall]
  /\ response' = [response EXCEPT ![c] = NoAnswer]
  /\ UNCHANGED store

LoseConnections ==
  /\ stage' = [c \in Clients |-> "idle"]
  /\ request' = [c \in Clients |-> NoCall]
  /\ response' = [c \in Clients |-> NoAnswer]
  /\ UNCHANGED store

StoreNext ==
  \/ LoseConnections
  \/ \E c \in Clients :
       Call(c) \/ Refuse(c) \/ ApplyPut(c) \/ ApplyDelete(c) \/ ApplyGet(c)
         \/ Fail(c) \/ Return(c)

StoreSpec == StoreInit /\ [][StoreNext]_storeVars
=============================================================================
