---------------------------- MODULE BlobsService -----------------------------
(***************************************************************************)
(* 04-http-blob-server: BlobsService (blobs.service.ts) with the handlers  *)
(* of blobs.controller.ts.  Every `await` of put, getBlob, remove is a     *)
(* step of its own, so requests interleave exactly where the event loop    *)
(* lets them; the stretches without an await are one action.               *)
(*                                                                         *)
(* The disk outlives the process: files (the committed <id>.blob files of  *)
(* the shard folders), the temp file of each running upload, and orphans   *)
(* (temp files nobody will ever rename).  usageBytes and blobCount live in *)
(* memory and are rebuilt by the warm-up.                                  *)
(***************************************************************************)
EXTENDS Integers, FiniteSets

CONSTANTS Clients,          \* concurrent connections
          Ids,              \* blob ids, already in the allowed alphabet
          Envelopes,        \* the contents a POST may carry
          Malformed,        \* envelopes whose request fails a 400 validation
          HeaderLen,        \* [Envelopes -> bytes of the encoded header prefix]
          PayloadLen,       \* [Envelopes -> declared and delivered body bytes]
          None,             \* no file
          Partial,          \* a temp file that is not completely written
          MaxPayloadLength, MaxDiskQuota, MaxBlobsTotal,
          Kinds,            \* the operations clients use
          Faults            \* the file system calls that may fail

FaultNames == {"access", "stat", "mkdirTmp", "stream", "mkdirShard", "rename",
               "rmTemp", "open", "read", "rm", "crash"}

ASSUME ConstantsAssumption ==
  /\ IsFiniteSet(Clients) /\ IsFiniteSet(Ids)
  /\ HeaderLen \in [Envelopes -> Nat] /\ PayloadLen \in [Envelopes -> Nat]
  /\ \A e \in Envelopes : HeaderLen[e] > 0
  /\ Malformed \subseteq Envelopes
  /\ None \notin Envelopes /\ Partial \notin Envelopes /\ None # Partial
  /\ MaxPayloadLength \in Nat /\ MaxDiskQuota \in Nat /\ MaxBlobsTotal \in Nat
  /\ Kinds \subseteq {"put", "get", "delete"}
  /\ Faults \subseteq FaultNames

VARIABLES phase,       \* "down", "wiped" (warm-up running), "up" (listening)
          files,       \* [Ids -> Envelopes \cup {None}]: the committed blobs
          tmp,         \* the temp file of each connection's upload
          orphans,     \* contents of the temp files without an upload
          usageBytes, blobCount,  \* the running totals of the service
          pc,          \* the await each handler is suspended at
          call,        \* the request each handler serves
          existed,     \* pathExists' answer: `existed`, `!isNewBlob`
          oldSize,     \* statSize's answer: `oldSize`, `size`
          answer       \* what the handler has of its response so far

vars == <<phase, files, tmp, orphans, usageBytes, blobCount, pc, call, existed,
          oldSize, answer>>

-----------------------------------------------------------------------------
NoCall == [kind |-> "none"]
Calls == [kind : Kinds \cap {"put"}, id : Ids, env : Envelopes]
           \cup [kind : Kinds \ {"put"}, id : Ids, env : {None}]

Answer(s, h, p) == [status |-> s, headers |-> h, payload |-> p]
Status(s) == Answer(s, None, None)
NoAnswer == Status(0)
\* No answer but a cut connection: pipeline() destroys the streams of a transfer
\* that fails, the request or response with its socket among them.
Cut == Status(-1)
Errors == {Cut, Status(400), Status(413), Status(500), Status(507)}

Size(e) == HeaderLen[e] + PayloadLen[e]
FileSize(f) == IF f = None THEN 0 ELSE Size(f)

\* The sum of f[i] over all ids, counted as the pairs <<i, byte>>.
Bytes(f) == UNION {{i} \X (1 .. f[i]) : i \in Ids}
Total(f) == Cardinality(Bytes(f))

Stored == {i \in Ids : files[i] # None}
DiskUsage == Total([i \in Ids |-> FileSize(files[i])])

Id(c) == call[c].id
NewSize(c) == Size(call[c].env)

\* What access and stat report: the truth, or, on any error, `false` and 0.
PathExists(i) ==
  {files[i] # None} \cup (IF "access" \in Faults THEN {FALSE} ELSE {})
StatSize(i) ==
  {FileSize(files[i])} \cup (IF "stat" \in Faults THEN {0} ELSE {})

-----------------------------------------------------------------------------
Init ==
  /\ phase = "down"
  /\ files = [i \in Ids |-> None]
  /\ tmp = [c \in Clients |-> None]
  /\ orphans = {}
  /\ usageBytes = 0 /\ blobCount = 0
  /\ pc = [c \in Clients |-> "idle"]
  /\ call = [c \in Clients |-> NoCall]
  /\ existed = [c \in Clients |-> FALSE]
  /\ oldSize = [c \in Clients |-> 0]
  /\ answer = [c \in Clients |-> NoAnswer]

storage == <<files, tmp, orphans>>
totals == <<usageBytes, blobCount>>
locals == <<call, existed, oldSize>>

At(c, l) == pc[c] = l
Goto(c, l) == pc' = [pc EXCEPT ![c] = l]
Continue(c, l) == Goto(c, l) /\ UNCHANGED answer
Respond(c, s) ==
  /\ Goto(c, "reply")
  /\ answer' = [answer EXCEPT ![c] = Status(s)]

\* The 500 of the exception filter, if there still is a connection to send it on.
RespondFailure(c) ==
  /\ Goto(c, "reply")
  /\ answer' = [answer EXCEPT ![c] = IF @ = Cut THEN Cut ELSE Status(500)]

\* The checks put makes before its first await; 0 when they all pass.
Validate(e) ==
  IF e \in Malformed THEN 400
  ELSE IF PayloadLen[e] > MaxPayloadLength THEN 413 ELSE 0

Accept(c) ==
  /\ phase = "up" /\ At(c, "idle")
  /\ \E k \in Calls :
       /\ call' = [call EXCEPT ![c] = k]
       /\ CASE k.kind = "get" -> Continue(c, "getAccess")
            [] k.kind = "delete" -> Continue(c, "delAccess")
            [] k.kind = "put" /\ Validate(k.env) = 0 -> Continue(c, "putAccess")
            [] OTHER -> Respond(c, Validate(k.env))
  /\ UNCHANGED <<phase, storage, totals, existed, oldSize>>

Reply(c) ==
  /\ At(c, "reply")
  /\ Goto(c, "idle")
  /\ call' = [call EXCEPT ![c] = NoCall]
  /\ existed' = [existed EXCEPT ![c] = FALSE]
  /\ oldSize' = [oldSize EXCEPT ![c] = 0]
  /\ answer' = [answer EXCEPT ![c] = NoAnswer]
  /\ UNCHANGED <<phase, storage, totals>>

-----------------------------------------------------------------------------
(* put *)

PutAccess(c) ==
  /\ At(c, "putAccess")
  /\ \E b \in PathExists(Id(c)) : existed' = [existed EXCEPT ![c] = b]
  /\ Continue(c, "putStat")
  /\ UNCHANGED <<phase, storage, totals, call, oldSize>>

PutStat(c) ==
  /\ At(c, "putStat")
  /\ \E n \in StatSize(Id(c)) : oldSize' = [oldSize EXCEPT ![c] = n]
  /\ Continue(c, "reserve")
  /\ UNCHANGED <<phase, storage, totals, call, existed>>

\* Mutants: the limits checked against the disk, not against the reservations.
CountFullOnDisk(c) == ~existed[c] /\ Cardinality(Stored) >= MaxBlobsTotal
QuotaFullOnDisk(c) == DiskUsage - oldSize[c] + NewSize(c) > MaxDiskQuota

CountFull(c) == ~existed[c] /\ blobCount >= MaxBlobsTotal
QuotaFull(c) == usageBytes - oldSize[c] + NewSize(c) > MaxDiskQuota

Reject(c) ==
  /\ At(c, "reserve")
  /\ CountFull(c) \/ QuotaFull(c)
  /\ Respond(c, 507)
  /\ UNCHANGED <<phase, storage, totals, locals>>

Reserve(c) ==
  /\ At(c, "reserve")
  /\ ~CountFull(c) /\ ~QuotaFull(c)
  /\ usageBytes' = usageBytes + (NewSize(c) - oldSize[c])
  /\ blobCount' = IF existed[c] THEN blobCount ELSE blobCount + 1
  /\ Continue(c, "mkdirTmp")
  /\ UNCHANGED <<phase, storage, locals>>

\* Line 127 is outside the try: when it throws, nothing is given back.
MkdirTmp(c) ==
  /\ At(c, "mkdirTmp")
  /\ \/ Continue(c, "openTemp")
     \/ "mkdirTmp" \in Faults /\ Respond(c, 500)
  /\ UNCHANGED <<phase, storage, totals, locals>>

\* Mutant: uploads written straight to the blob's own path.
OpenTempInPlace(c) ==
  /\ At(c, "openTemp")
  /\ files' = [files EXCEPT ![Id(c)] = Partial] /\ Continue(c, "stream")
  /\ UNCHANGED <<phase, tmp, orphans, totals, locals>>

\* streamToFile rejects; its pipeline() has cut the connection unless the body
\* had been read to its end.
StreamFails(c) ==
  /\ "stream" \in Faults /\ UNCHANGED tmp
  /\ Goto(c, "rmTemp")
  /\ answer' = answer \/ answer' = [answer EXCEPT ![c] = Cut]

OpenTemp(c) ==
  /\ At(c, "openTemp")
  /\ \/ tmp' = [tmp EXCEPT ![c] = Partial] /\ Continue(c, "stream")
     \/ StreamFails(c)
  /\ UNCHANGED <<phase, files, orphans, totals, locals>>

\* Mutant: the pipeline's promise is not awaited.
StreamUnawaited(c) ==
  /\ At(c, "stream")
  /\ Continue(c, "mkdirShard")
  /\ UNCHANGED <<phase, storage, totals, locals>>

\* The body ends where Content-Length says, or the upload is broken off.
Stream(c) ==
  /\ At(c, "stream")
  /\ \/ tmp' = [tmp EXCEPT ![c] = call[c].env] /\ Continue(c, "mkdirShard")
     \/ StreamFails(c)
  /\ UNCHANGED <<phase, files, orphans, totals, locals>>

MkdirShard(c) ==
  /\ At(c, "mkdirShard")
  /\ \/ Continue(c, "rename")
     \/ "mkdirShard" \in Faults /\ Continue(c, "rmTemp")
  /\ UNCHANGED <<phase, storage, totals, locals>>

Rename(c) ==
  /\ At(c, "rename")
  /\ \/ /\ files' = [files EXCEPT ![Id(c)] = tmp[c]]
        /\ tmp' = [tmp EXCEPT ![c] = None]
        /\ Respond(c, 204)
     \/ "rename" \in Faults /\ UNCHANGED <<files, tmp>> /\ Continue(c, "rmTemp")
  /\ UNCHANGED <<phase, orphans, totals, locals>>

\* When rm itself throws, the catch block never reaches the rollback.
RmTemp(c) ==
  /\ At(c, "rmTemp")
  /\ tmp' = [tmp EXCEPT ![c] = None]
  /\ \/ UNCHANGED orphans /\ Continue(c, "rollback")
     \/ /\ "rmTemp" \in Faults
        /\ orphans' = orphans \cup ({tmp[c]} \ {None})
        /\ RespondFailure(c)
  /\ UNCHANGED <<phase, files, totals, locals>>

\* Mutant: the rollback forgets what the upload was going to replace.
RollbackNewSize(c) ==
  /\ At(c, "rollback")
  /\ usageBytes' = usageBytes - NewSize(c)
  /\ blobCount' = IF existed[c] THEN blobCount ELSE blobCount - 1
  /\ RespondFailure(c)
  /\ UNCHANGED <<phase, storage, locals>>

\* Mutant: the catch block tries the upload again instead of failing.
RollbackRetry(c) ==
  /\ At(c, "rollback")
  /\ Continue(c, "openTemp")
  /\ UNCHANGED <<phase, storage, totals, locals>>

Rollback(c) ==
  /\ At(c, "rollback")
  /\ usageBytes' = usageBytes - (NewSize(c) - oldSize[c])
  /\ blobCount' = IF existed[c] THEN blobCount ELSE blobCount - 1
  /\ RespondFailure(c)
  /\ UNCHANGED <<phase, storage, locals>>

-----------------------------------------------------------------------------
(* getBlob, and the controller's pipeline of its stream *)

GetAccess(c) ==
  /\ At(c, "getAccess")
  /\ \E b \in PathExists(Id(c)) :
       IF b THEN Continue(c, "getOpen") ELSE Respond(c, 404)
  /\ UNCHANGED <<phase, storage, totals, locals>>

\* open() pins the file it finds: the header prefix is read from that file
\* whatever is renamed over the path meanwhile.
GetOpen(c) ==
  /\ At(c, "getOpen")
  /\ \/ /\ files[Id(c)] # None
        /\ answer' = [answer EXCEPT ![c] = Answer(0, files[Id(c)], None)]
        /\ Goto(c, "getPayload")
     \/ (files[Id(c)] = None \/ "open" \in Faults) /\ Respond(c, 500)
  /\ UNCHANGED <<phase, storage, totals, locals>>

\* createReadStream opens the path once more; when that or a read fails, the
\* controller's pipeline() destroys the response, whatever was sent of it.
GetPayload(c) ==
  /\ At(c, "getPayload")
  /\ \/ /\ files[Id(c)] # None
        /\ answer' = [answer EXCEPT
                         ![c] = Answer(200, answer[c].headers, files[Id(c)])]
        /\ Goto(c, "reply")
     \/ /\ files[Id(c)] = None \/ "read" \in Faults
        /\ answer' = [answer EXCEPT ![c] = Cut]
        /\ Goto(c, "reply")
  /\ UNCHANGED <<phase, storage, totals, locals>>

-----------------------------------------------------------------------------
(* remove *)

DelAccess(c) ==
  /\ At(c, "delAccess")
  /\ \E b \in PathExists(Id(c)) :
       /\ existed' = [existed EXCEPT ![c] = b]
       /\ Continue(c, IF b THEN "delStat" ELSE "delRm")
  /\ UNCHANGED <<phase, storage, totals, call, oldSize>>

DelStat(c) ==
  /\ At(c, "delStat")
  /\ \E n \in StatSize(Id(c)) : oldSize' = [oldSize EXCEPT ![c] = n]
  /\ Continue(c, "delRm")
  /\ UNCHANGED <<phase, storage, totals, call, existed>>

DelRm(c) ==
  /\ At(c, "delRm")
  /\ \/ files' = [files EXCEPT ![Id(c)] = None] /\ Continue(c, "delAccount")
     \/ "rm" \in Faults /\ UNCHANGED files /\ Respond(c, 500)
  /\ UNCHANGED <<phase, tmp, orphans, totals, locals>>

DelAccount(c) ==
  /\ At(c, "delAccount")
  /\ usageBytes' = IF existed[c] THEN usageBytes - oldSize[c] ELSE usageBytes
  /\ blobCount' = IF existed[c] THEN blobCount - 1 ELSE blobCount
  /\ Respond(c, 204)
  /\ UNCHANGED <<phase, storage, locals>>

-----------------------------------------------------------------------------
(* process crash, and the warm-up before the server listens *)

Crash ==
  /\ "crash" \in Faults /\ phase # "down"
  /\ phase' = "down"
  /\ orphans' = orphans \cup ({tmp[c] : c \in Clients} \ {None})
  /\ tmp' = [c \in Clients |-> None]
  /\ usageBytes' = 0 /\ blobCount' = 0
  /\ pc' = [c \in Clients |-> "idle"]
  /\ call' = [c \in Clients |-> NoCall]
  /\ existed' = [c \in Clients |-> FALSE]
  /\ oldSize' = [c \in Clients |-> 0]
  /\ answer' = [c \in Clients |-> NoAnswer]
  /\ UNCHANGED files

\* Mutant: the warm-up does not clear .tmp.
WipeTmpSkipped ==
  /\ phase = "down"
  /\ phase' = "wiped"
  /\ UNCHANGED <<storage, totals, pc, locals, answer>>

WipeTmp ==
  /\ phase = "down"
  /\ orphans' = {}
  /\ phase' = "wiped"
  /\ UNCHANGED <<files, tmp, totals, pc, locals, answer>>

WarmUp ==
  /\ phase = "wiped"
  /\ usageBytes' = DiskUsage
  /\ blobCount' = Cardinality(Stored)
  /\ phase' = "up"
  /\ UNCHANGED <<storage, pc, locals, answer>>

-----------------------------------------------------------------------------
Put(c) == \/ PutAccess(c) \/ PutStat(c) \/ Reject(c) \/ Reserve(c)
          \/ MkdirTmp(c) \/ OpenTemp(c) \/ Stream(c) \/ MkdirShard(c)
          \/ Rename(c) \/ RmTemp(c) \/ Rollback(c)
GetBlob(c) == GetAccess(c) \/ GetOpen(c) \/ GetPayload(c)
Remove(c) == DelAccess(c) \/ DelStat(c) \/ DelRm(c) \/ DelAccount(c)
Handler(c) == Put(c) \/ GetBlob(c) \/ Remove(c) \/ Reply(c)

Next == \/ Crash \/ WipeTmp \/ WarmUp
        \/ \E c \in Clients : Accept(c) \/ Handler(c)

Spec == Init /\ [][Next]_vars

\* I/O completes or fails, the event loop runs the continuation; a started
\* process finishes its warm-up.  Clients owe nothing: no fairness on Accept.
Fairness == /\ WF_vars(WipeTmp) /\ WF_vars(WarmUp)
            /\ \A c \in Clients : WF_vars(Handler(c))

\* The assumption the comment of the check-and-reserve makes: no two requests
\* that write the same id are in flight at once.
Writing(c) == pc[c] # "idle" /\ call[c].kind \in {"put", "delete"}
OneWriterPerId ==
  \A c, d \in Clients : c # d /\ Writing(c) /\ Writing(d) => Id(c) # Id(d)
DistinctIdsSpec == Init /\ [][Next /\ OneWriterPerId']_vars

\* Stronger: nobody reads an id that is being written either.
NoRequestBesideAWriter ==
  \A c, d \in Clients :
    c # d /\ Writing(c) /\ pc[d] # "idle" => Id(c) # Id(d)
ExclusiveSpec == Init /\ [][Next /\ NoRequestBesideAWriter']_vars
FairExclusiveSpec == ExclusiveSpec /\ Fairness

-----------------------------------------------------------------------------
(* What the totals stand for.  An upload that reserved its bytes counts as *)
(* stored already; a blob removed from disk counts until remove says so.   *)

Reserved(c) == pc[c] \in {"mkdirTmp", "openTemp", "stream", "mkdirShard",
                          "rename", "rmTemp", "rollback"}
Removed(c) == At(c, "delAccount")
Holders(i) == {c \in Clients : (Reserved(c) \/ Removed(c)) /\ Id(c) = i}
Holder(i) == CHOOSE c \in Holders(i) : TRUE

HeldBytes(c) == IF Reserved(c) THEN NewSize(c) ELSE oldSize[c]
Accounted ==
  [i \in Ids |-> IF Holders(i) = {} THEN FileSize(files[i])
                 ELSE HeldBytes(Holder(i))]
AccountedIds ==
  {i \in Ids : IF Holders(i) = {} THEN files[i] # None
               ELSE Reserved(Holder(i)) \/ existed[Holder(i)]}

\* The state of the service: its files are whole envelopes, its totals are
\* integers, its handlers are suspended at one of the awaits of the code.
Locations == {"idle", "reply", "putAccess", "putStat", "reserve", "mkdirTmp",
              "openTemp", "stream", "mkdirShard", "rename", "rmTemp",
              "rollback", "getAccess", "getOpen", "getPayload", "delAccess",
              "delStat", "delRm", "delAccount"}
Answers == [status : {-1, 0, 200, 204, 400, 404, 413, 500, 507},
            headers : Envelopes \cup {None}, payload : Envelopes \cup {None}]
TypeOK ==
  /\ phase \in {"down", "wiped", "up"}
  /\ files \in [Ids -> Envelopes \cup {None}]
  /\ tmp \in [Clients -> Envelopes \cup {None, Partial}]
  /\ orphans \subseteq Envelopes \cup {Partial}
  /\ usageBytes \in Int /\ blobCount \in Int
  /\ pc \in [Clients -> Locations]
  /\ call \in [Clients -> Calls \cup {NoCall}]
  /\ existed \in [Clients -> BOOLEAN]
  /\ oldSize \in [Clients -> Nat]
  /\ answer \in [Clients -> Answers]

\* With no write in flight the totals are what a restart would count:
\* "running totals ... updated incrementally on every write/delete".
QuiescentTotals ==
  phase = "up" /\ (\A c \in Clients : ~Writing(c)) =>
    usageBytes = DiskUsage /\ blobCount = Cardinality(Stored)

\* MAX_BLOBS_TOTAL bounds what is on disk, not only what is counted.
BlobLimit == Cardinality(Stored) <= MaxBlobsTotal

\* MAX_DISK_QUOTA bounds the bytes on disk whenever no write is in flight
\* (while a shrinking overwrite is, its old file may still be there).
DiskQuotaKept ==
  phase = "up" /\ (\A c \in Clients : ~Writing(c)) => DiskUsage <= MaxDiskQuota

\* A GET answers with the headers and the payload of one POST, never with a
\* mix: "a single rename() commits the whole envelope".
GetIsOneEnvelope ==
  \A c \in Clients :
    answer[c].status = 200 => answer[c].headers = answer[c].payload

\* Every accepted request comes to its end, an answer or a connection cut by
\* a failed transfer, unless the process dies first: no await of put, getBlob,
\* remove waits for another request, and no failure leaves a handler suspended.
EveryRequestEnds ==
  \A c \in Clients :
    pc[c] # "idle" ~> (At(c, "reply") /\ answer[c].status # 0) \/ phase = "down"

\* The service implements the atomic blob store: a POST takes effect at its
\* rename, a DELETE at its rm, a GET when it opens the payload.
stageBar == [c \in Clients |-> IF At(c, "idle") THEN "idle"
                               ELSE IF At(c, "reply") \/ Removed(c) THEN "done"
                               ELSE "pending"]
responseBar == [c \in Clients |-> IF Removed(c) THEN Status(204)
                                  ELSE IF At(c, "reply") THEN answer[c]
                                  ELSE NoAnswer]
Store == INSTANCE BlobStore WITH store <- files, stage <- stageBar,
                                 request <- call, response <- responseBar
StoreSpec == Store!StoreSpec
=============================================================================
