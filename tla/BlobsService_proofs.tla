------------------------- MODULE BlobsService_proofs -------------------------
(***************************************************************************)
(* Proofs about BlobsService, for every value of the constants.            *)
(***************************************************************************)
EXTENDS BlobsQuota, FiniteSetTheorems, TLAPS

-----------------------------------------------------------------------------
(* Sums: Total(f) counts the pairs <<i, byte>>.                            *)

LEMMA BytesFinite ==
  ASSUME NEW f \in [Ids -> Nat]
  PROVE  IsFiniteSet(Bytes(f))
<1> DEFINE Row(i) == {i} \X (1 .. f[i])
           Rows == {Row(i) : i \in Ids}
           g == [i \in Ids |-> Row(i)]
<1>1. IsFiniteSet(Rows)
  <2>1. g \in Surjection(Ids, Rows)
    BY DEF Surjection
  <2> HIDE DEF g, Rows
  <2> QED
    BY <2>1, FS_Surjection, ConstantsAssumption
<1>2. \A R \in Rows : IsFiniteSet(R)
  <2> SUFFICES ASSUME NEW i \in Ids PROVE IsFiniteSet({i} \X (1 .. f[i]))
    OBVIOUS
  <2>1. IsFiniteSet({i})
    BY FS_Singleton
  <2>2. IsFiniteSet(1 .. f[i])
    BY FS_Interval
  <2> QED
    BY <2>1, <2>2, FS_Product
<1>3. Bytes(f) = UNION Rows
  BY DEF Bytes
<1> HIDE DEF Rows
<1> QED
  BY <1>1, <1>2, <1>3, FS_UNION

LEMMA TotalType ==
  ASSUME NEW f \in [Ids -> Nat]
  PROVE  Total(f) \in Nat
BY BytesFinite, FS_CardinalityType DEF Total

\* Changing one summand changes the sum by the difference.
LEMMA TotalUpdate ==
  ASSUME NEW f \in [Ids -> Nat], NEW g \in [Ids -> Nat], NEW i \in Ids,
         \A j \in Ids \ {i} : g[j] = f[j]
  PROVE  Total(g) = Total(f) - f[i] + g[i]
<1> DEFINE Rest == UNION {{j} \X (1 .. f[j]) : j \in Ids \ {i}}
           RowF == {i} \X (1 .. f[i])
           RowG == {i} \X (1 .. g[i])
<1>1. Bytes(f) = Rest \cup RowF /\ Rest \cap RowF = {}
  BY DEF Bytes
<1>2. Bytes(g) = Rest \cup RowG /\ Rest \cap RowG = {}
  BY DEF Bytes
<1>3. IsFiniteSet(Rest) /\ IsFiniteSet(RowF) /\ IsFiniteSet(RowG)
  <2>1. Rest \subseteq Bytes(f) /\ RowF \subseteq Bytes(f) /\ RowG \subseteq Bytes(g)
    BY <1>1, <1>2
  <2> HIDE DEF Rest, RowF, RowG
  <2> QED
    BY <2>1, BytesFinite, FS_Subset
<1>4. ASSUME NEW n \in Nat
      PROVE  Cardinality({i} \X (1 .. n)) = n
  <2>1. IsFiniteSet({i}) /\ Cardinality({i}) = 1
    BY FS_Singleton
  <2>2. IsFiniteSet(1 .. n) /\ Cardinality(1 .. n) = n
    <3>1. 1 \in Int /\ n \in Int
      OBVIOUS
    <3>2. /\ IsFiniteSet(1 .. n)
          /\ Cardinality(1 .. n) = IF 1 > n THEN 0 ELSE n - 1 + 1
      BY <3>1, FS_Interval, Zenon
    <3> QED
      BY <3>2
  <2>3. Cardinality({i} \X (1 .. n)) = Cardinality({i}) * Cardinality(1 .. n)
    BY <2>1, <2>2, FS_Product
  <2> QED
    BY <2>1, <2>2, <2>3
<1>5. Cardinality(RowF) = f[i] /\ Cardinality(RowG) = g[i]
  BY <1>4
<1> HIDE DEF Rest, RowF, RowG
<1>6. ASSUME NEW R, IsFiniteSet(R), Rest \cap R = {}
      PROVE  Cardinality(Rest \cup R) = Cardinality(Rest) + Cardinality(R)
  <2>1. Cardinality(Rest \cap R) = 0
    BY <1>6, FS_EmptySet
  <2>2. Cardinality(Rest) \in Nat /\ Cardinality(R) \in Nat
    BY <1>3, <1>6, FS_CardinalityType
  <2>3. Cardinality(Rest \cup R)
          = Cardinality(Rest) + Cardinality(R) - Cardinality(Rest \cap R)
    BY <1>3, <1>6, FS_Union
  <2> QED
    BY <2>1, <2>2, <2>3
<1>7. Cardinality(Rest) \in Nat
  BY <1>3, FS_CardinalityType
<1>8. Total(f) = Cardinality(Rest) + f[i] /\ Total(g) = Cardinality(Rest) + g[i]
  BY <1>1, <1>2, <1>3, <1>5, <1>6 DEF Total
<1> QED
  BY <1>7, <1>8

LEMMA TotalZero ==
  ASSUME NEW f \in [Ids -> Nat], \A i \in Ids : f[i] = 0
  PROVE  Total(f) = 0
<1>1. Bytes(f) = {}
  BY DEF Bytes
<1> QED
  BY <1>1, FS_EmptySet DEF Total

-----------------------------------------------------------------------------
(* Type correctness.  What is renamed over a blob is a whole envelope only *)
(* because the handlers keep to the order of the awaits, so the invariant  *)
(* that is inductive also says which request each location belongs to.     *)

PutLocations == {"putAccess", "putStat", "reserve", "mkdirTmp", "openTemp",
                 "stream", "mkdirShard", "rename", "rmTemp", "rollback"}
GetLocations == {"getAccess", "getOpen", "getPayload"}
DelLocations == {"delAccess", "delStat", "delRm", "delAccount"}

HandlerOK(c) ==
  /\ pc[c] \in PutLocations => call[c] \in Calls /\ call[c].kind = "put"
  /\ pc[c] \in GetLocations => call[c] \in Calls /\ call[c].kind = "get"
  /\ pc[c] \in DelLocations => call[c] \in Calls /\ call[c].kind = "delete"
  /\ pc[c] = "reply" => call[c] \in Calls
  /\ pc[c] \in {"mkdirShard", "rename"} => tmp[c] = call[c].env

StructInv == TypeOK /\ \A c \in Clients : HandlerOK(c)

LEMMA CallsFacts ==
  /\ \A k \in Calls : k.id \in Ids /\ k.kind \in {"put", "get", "delete"}
  /\ \A k \in Calls : k.kind = "put" => k.env \in Envelopes
BY ConstantsAssumption DEF Calls

LEMMA SizeFacts ==
  /\ \A e \in Envelopes : Size(e) \in Nat /\ Size(e) > 0
  /\ \A f \in Envelopes \cup {None} : FileSize(f) \in Nat
  /\ FileSize(None) = 0
  /\ \A e \in Envelopes : FileSize(e) = Size(e) /\ e # None
<1>1. \A e \in Envelopes : Size(e) \in Nat /\ Size(e) > 0
  BY ConstantsAssumption DEF Size
<1> QED
  BY <1>1, ConstantsAssumption DEF FileSize

LEMMA AnswerFacts ==
  /\ \A s \in {-1, 0, 200, 204, 400, 404, 413, 500, 507} :
       /\ Status(s) \in Answers
       /\ \A h, p \in Envelopes \cup {None} : Answer(s, h, p) \in Answers
  /\ Cut \in Answers
BY DEF Status, Answer, Answers, Cut

\* Whether or not the connection is cut, a failure ends in an answer of the type.
LEMMA FailureAnswers ==
  ASSUME TypeOK, NEW c \in Clients, RespondFailure(c)
  PROVE  pc' = [pc EXCEPT ![c] = "reply"] /\ answer' \in [Clients -> Answers]
<1>1. pc' = [pc EXCEPT ![c] = "reply"]
  BY Zenon DEF RespondFailure, Goto
<1>2. \/ answer' = [answer EXCEPT ![c] = Cut]
      \/ answer' = [answer EXCEPT ![c] = Status(500)]
  <2>1. CASE answer[c] = Cut
    BY <2>1 DEF RespondFailure
  <2>2. CASE answer[c] # Cut
    BY <2>2 DEF RespondFailure
  <2> QED
    BY <2>1, <2>2
<1>3. Cut \in Answers /\ Status(500) \in Answers
  BY AnswerFacts
<1>4. answer' \in [Clients -> Answers]
  BY <1>2, <1>3 DEF TypeOK
<1> QED
  BY <1>1, <1>4

LEMMA PathExistsType == \A i \in Ids : PathExists(i) \subseteq BOOLEAN
<1> SUFFICES ASSUME NEW i \in Ids, NEW b \in PathExists(i) PROVE b \in BOOLEAN
  OBVIOUS
<1>1. b \in {files[i] # None} \/ b \in {FALSE}
  BY DEF PathExists
<1> QED
  BY <1>1

LEMMA StructInit == Init => StructInv
BY AnswerFacts DEF Init, StructInv, TypeOK, HandlerOK, NoAnswer, NoCall,
   Locations, PutLocations, GetLocations, DelLocations

LEMMA AcceptStruct ==
  ASSUME StructInv, NEW c \in Clients, Accept(c)
  PROVE  StructInv'
<1> USE DEF StructInv
<1>1. PICK k \in Calls :
        /\ call' = [call EXCEPT ![c] = k]
        /\ CASE k.kind = "get" -> Continue(c, "getAccess")
             [] k.kind = "delete" -> Continue(c, "delAccess")
             [] k.kind = "put" /\ Validate(k.env) = 0 -> Continue(c, "putAccess")
             [] OTHER -> Respond(c, Validate(k.env))
  BY DEF Accept
<1>2. k.kind \in {"put", "get", "delete"}
  BY CallsFacts
<1>3. \/ k.kind = "get" /\ Continue(c, "getAccess")
      \/ k.kind = "delete" /\ Continue(c, "delAccess")
      \/ k.kind = "put" /\ Continue(c, "putAccess")
      \/ \E s \in {400, 413} : Respond(c, s)
  BY <1>1, <1>2 DEF Validate
<1>4. TypeOK'
  BY <1>1, <1>3, AnswerFacts
  DEF TypeOK, Accept, Continue, Respond, Goto, Locations, storage, totals
<1>5. ASSUME NEW d \in Clients PROVE HandlerOK(d)'
  BY <1>1, <1>3
  DEF TypeOK, Accept, Continue, Respond, Goto, HandlerOK, storage, At,
      PutLocations, GetLocations, DelLocations
<1> QED
  BY <1>4, <1>5

LEMMA HandlerStruct ==
  ASSUME StructInv, NEW c \in Clients, Handler(c)
  PROVE  StructInv'
<1> USE CallsFacts, SizeFacts, AnswerFacts
    DEF StructInv, TypeOK, HandlerOK, At, Goto, Continue, Respond, Locations,
        PutLocations, GetLocations, DelLocations, storage, totals, locals, Id
<1>1. CASE PutAccess(c)
  BY <1>1, PathExistsType DEF PutAccess
<1>2. CASE PutStat(c)
  BY <1>2 DEF PutStat, StatSize
<1>3. CASE Reject(c)
  BY <1>3 DEF Reject
<1>4. CASE Reserve(c)
  BY <1>4 DEF Reserve, NewSize
<1>5. CASE MkdirTmp(c)
  BY <1>5 DEF MkdirTmp
<1>6. CASE OpenTemp(c)
  BY <1>6 DEF OpenTemp, StreamFails
<1>7. CASE Stream(c)
  BY <1>7 DEF Stream, StreamFails
<1>8. CASE MkdirShard(c)
  BY <1>8 DEF MkdirShard
<1>9. CASE Rename(c)
  BY <1>9 DEF Rename
<1>10. CASE RmTemp(c)
  <2>1. CASE Continue(c, "rollback")
    BY <1>10, <2>1 DEF RmTemp
  <2>2. CASE RespondFailure(c)
    BY <1>10, <2>2, FailureAnswers DEF RmTemp
  <2> QED
    BY <1>10, <2>1, <2>2 DEF RmTemp
<1>11. CASE Rollback(c)
  BY <1>11, FailureAnswers DEF Rollback, NewSize
<1>12. CASE GetAccess(c)
  BY <1>12 DEF GetAccess
<1>13. CASE GetOpen(c)
  BY <1>13 DEF GetOpen
<1>14. CASE GetPayload(c)
  <2>1. answer[c].headers \in Envelopes \cup {None}
    BY DEF Answers
  <2>2. PICK a \in Answers : answer' = [answer EXCEPT ![c] = a]
    BY <1>14, <2>1 DEF GetPayload
  <2> QED
    BY <1>14, <2>2 DEF GetPayload
<1>15. CASE DelAccess(c)
  BY <1>15, PathExistsType DEF DelAccess
<1>16. CASE DelStat(c)
  BY <1>16 DEF DelStat, StatSize
<1>17. CASE DelRm(c)
  BY <1>17 DEF DelRm
<1>18. CASE DelAccount(c)
  BY <1>18 DEF DelAccount
<1>19. CASE Reply(c)
  BY <1>19 DEF Reply, NoAnswer
<1> QED
  BY <1>1, <1>2, <1>3, <1>4, <1>5, <1>6, <1>7, <1>8, <1>9, <1>10, <1>11, <1>12, <1>13, <1>14, <1>15, <1>16, <1>17, <1>18, <1>19
  DEF Handler, Put, GetBlob, Remove

LEMMA DiskUsageType ==
  ASSUME TypeOK
  PROVE  DiskUsage \in Nat
<1>1. [i \in Ids |-> FileSize(files[i])] \in [Ids -> Nat]
  BY SizeFacts DEF TypeOK
<1> QED
  BY <1>1, TotalType DEF DiskUsage

LEMMA StoredFinite ==
  ASSUME TypeOK
  PROVE  IsFiniteSet(Stored) /\ Cardinality(Stored) \in Nat
<1>1. Stored \subseteq Ids
  BY DEF Stored
<1> QED
  BY <1>1, FS_Subset, FS_CardinalityType, ConstantsAssumption

LEMMA StructStep == StructInv /\ [Next]_vars => StructInv'
<1> SUFFICES ASSUME StructInv, [Next]_vars PROVE StructInv'
  OBVIOUS
<1>1. CASE Crash
  BY <1>1, AnswerFacts
  DEF Crash, StructInv, TypeOK, HandlerOK, NoAnswer, Locations, PutLocations,
      GetLocations, DelLocations
<1>2. CASE WipeTmp
  BY <1>2
  DEF WipeTmp, StructInv, TypeOK, HandlerOK, totals, locals
<1>3. CASE WarmUp
  <2>1. usageBytes' \in Int /\ blobCount' \in Int
    BY <1>3, DiskUsageType, StoredFinite DEF WarmUp, StructInv
  <2> QED
    BY <1>3, <2>1 DEF WarmUp, StructInv, TypeOK, HandlerOK, storage, locals
<1>4. CASE \E c \in Clients : Accept(c) \/ Handler(c)
  BY <1>4, AcceptStruct, HandlerStruct
<1>5. CASE UNCHANGED vars
  BY <1>5 DEF vars, StructInv, TypeOK, HandlerOK
<1> QED
  BY <1>1, <1>2, <1>3, <1>4, <1>5 DEF Next

\* Whatever clients do, whichever faults and crashes happen: the state stays
\* well formed, and every committed file is the whole envelope of some POST.
THEOREM TypeCorrect == Spec => []TypeOK
<1>1. StructInv => TypeOK
  BY DEF StructInv
<1> QED
  BY <1>1, StructInit, StructStep, PTL DEF Spec

-----------------------------------------------------------------------------
(* Temp files.  Inductive only together with the fact that no handler is   *)
(* suspended while the server is down or warming up: a handler that woke   *)
(* up then could still write to the .tmp folder the warm-up has cleared.   *)

DownIsIdle == phase # "up" => \A c \in Clients : pc[c] = "idle"

TempOK(c) ==
  tmp[c] # None => pc[c] \in {"stream", "mkdirShard", "rename", "rmTemp"}
OrphansOK == /\ phase # "down" /\ keptUploads = 0 => orphans = {}
             /\ phase = "wiped" => orphans = {}
TempInv == /\ StructInv /\ DownIsIdle /\ OrphansOK /\ keptUploads \in Nat
           /\ \A c \in Clients : TempOK(c)

LEMMA HandlerTemp ==
  ASSUME TempInv, NEW c \in Clients, Handler(c)
  PROVE  /\ phase = "up" /\ phase' = phase
         /\ orphans' = orphans \/ GivesUp(c)
         /\ pc[c] # "idle"
         /\ TempOK(c)'
         /\ \A d \in Clients \ {c} : pc'[d] = pc[d] /\ tmp'[d] = tmp[d]
<1> USE DEF TempInv, DownIsIdle, StructInv, TypeOK, TempOK, At, Goto, Continue,
            Respond, storage, totals, locals
<1>1. CASE PutAccess(c)
  BY <1>1 DEF PutAccess
<1>2. CASE PutStat(c)
  BY <1>2 DEF PutStat
<1>3. CASE Reject(c)
  BY <1>3 DEF Reject
<1>4. CASE Reserve(c)
  BY <1>4 DEF Reserve
<1>5. CASE MkdirTmp(c)
  BY <1>5 DEF MkdirTmp
<1>6. CASE OpenTemp(c)
  BY <1>6 DEF OpenTemp, StreamFails
<1>7. CASE Stream(c)
  BY <1>7 DEF Stream, StreamFails
<1>8. CASE MkdirShard(c)
  BY <1>8 DEF MkdirShard
<1>9. CASE Rename(c)
  BY <1>9 DEF Rename
<1>10. CASE RmTemp(c)
  BY <1>10 DEF RmTemp, RespondFailure, GivesUp
<1>11. CASE Rollback(c)
  BY <1>11 DEF Rollback, RespondFailure
<1>12. CASE GetAccess(c)
  BY <1>12 DEF GetAccess
<1>13. CASE GetOpen(c)
  BY <1>13 DEF GetOpen
<1>14. CASE GetPayload(c)
  BY <1>14 DEF GetPayload
<1>15. CASE DelAccess(c)
  BY <1>15 DEF DelAccess
<1>16. CASE DelStat(c)
  BY <1>16 DEF DelStat
<1>17. CASE DelRm(c)
  BY <1>17 DEF DelRm
<1>18. CASE DelAccount(c)
  BY <1>18 DEF DelAccount
<1>19. CASE Reply(c)
  BY <1>19 DEF Reply
<1> QED
  BY <1>1, <1>2, <1>3, <1>4, <1>5, <1>6, <1>7, <1>8, <1>9, <1>10, <1>11, <1>12, <1>13, <1>14, <1>15, <1>16, <1>17, <1>18, <1>19
  DEF Handler, Put, GetBlob, Remove

\* No upload has kept anything as long as none has given up.
LEMMA NothingKept ==
  ASSUME keptUploads \in Nat, NoteKept
  PROVE  /\ keptUploads' \in Nat
         /\ phase' # "down" /\ keptUploads' = 0 =>
              keptUploads = 0 /\ \A c \in Clients : ~GivesUp(c)
BY DEF NoteKept, kept

LEMMA TempStep == TempInv /\ [Next /\ NoteKept]_<<vars, kept>> => TempInv'
<1> SUFFICES ASSUME TempInv, [Next /\ NoteKept]_<<vars, kept>> PROVE TempInv'
  OBVIOUS
<1>1. StructInv'
  BY StructStep DEF TempInv
<1>3. /\ keptUploads' \in Nat
      /\ \/ UNCHANGED <<vars, keptUploads>>
         \/ phase' # "down" /\ keptUploads' = 0 =>
              keptUploads = 0 /\ \A c \in Clients : ~GivesUp(c)
  BY NothingKept DEF TempInv, kept
<1>2. (DownIsIdle /\ OrphansOK /\ \A c \in Clients : TempOK(c))'
  <2> USE DEF TempInv, StructInv, TypeOK, DownIsIdle, OrphansOK, TempOK
  <2>1. CASE Crash
    BY <2>1 DEF Crash
  <2>2. CASE WipeTmp
    BY <2>2 DEF WipeTmp
  <2>3. CASE WarmUp
    BY <1>3, <2>3 DEF WarmUp, storage, vars
  <2>4. CASE \E c \in Clients : Accept(c)
    <3>1. PICK c \in Clients : Accept(c)
      BY <2>4
    <3>2. /\ phase = "up" /\ phase' = phase /\ tmp' = tmp
          /\ orphans' = orphans /\ tmp[c] = None
          /\ \A d \in Clients \ {c} : pc'[d] = pc[d]
      BY <3>1 DEF Accept, At, Continue, Respond, Goto, storage
    <3> QED
      BY <1>3, <3>2 DEF vars
  <2>5. CASE \E c \in Clients : Handler(c)
    <3>1. PICK c \in Clients : Handler(c)
      BY <2>5
    <3>2. UNCHANGED <<vars, keptUploads>> \/ (phase' # "down" /\ keptUploads' = 0
            => keptUploads = 0 /\ ~GivesUp(c))
      BY <1>3
    <3> QED
      BY <3>1, <3>2, HandlerTemp DEF vars
  <2>6. CASE UNCHANGED <<vars, keptUploads>>
    BY <2>6 DEF vars
  <2> QED
    BY <2>1, <2>2, <2>3, <2>4, <2>5, <2>6 DEF Next, kept
<1> QED
  BY <1>1, <1>2, <1>3 DEF TempInv

\* Whatever fails and whenever the process dies: a temp file in .tmp belongs
\* to an upload that will rename or remove it, or put's own cleanup failed;
\* none survives the warm-up (put's catch block, the rm of onModuleInit).
THEOREM TempFilesCleaned == KeptSpec => []TempFilesOwned
<1>1. KeptInit => TempInv
  BY StructInit DEF KeptInit, Init, TempInv, DownIsIdle, OrphansOK, TempOK
<1>2. TempInv => TempFilesOwned
  BY DEF TempInv, OrphansOK, TempOK, TempFilesOwned
<1> QED
  BY <1>1, <1>2, TempStep, PTL DEF KeptSpec

-----------------------------------------------------------------------------
(* The accounting.  Under one writer per id, and when access and stat tell *)
(* the truth, the totals are exact but for what failed cleanups kept.      *)

RecoverableFaults == Faults \cap {"access", "stat"} = {}

Holds(c) == Reserved(c) \/ Removed(c)

\* What a writer found out about its id is still true when it uses it.
LocalsOK(c) ==
  /\ pc[c] \in {"putStat", "reserve", "delStat", "delRm"} \/ Reserved(c) =>
       existed[c] = (files[Id(c)] # None)
  /\ pc[c] \in {"reserve", "delRm"} \/ Reserved(c) =>
       oldSize[c] = FileSize(files[Id(c)])
  /\ pc[c] \in {"idle", "delAccess"} => oldSize[c] = 0
  /\ Removed(c) => files[Id(c)] = None /\ (~existed[c] => oldSize[c] = 0)

WriterInv == /\ StructInv /\ OneWriterPerId /\ DownIsIdle
             /\ \A c \in Clients : LocalsOK(c)

LimitOK == /\ phase = "up" => Cardinality(AccountedIds) <= MaxBlobsTotal
           /\ phase # "up" => Cardinality(Stored) <= MaxBlobsTotal

KeptOK ==
  /\ keptUploads \in Nat /\ keptBytes \in Int /\ keptBlobs \in Nat
  /\ keptUploads = 0 \/ phase # "up" => keptBytes = 0 /\ keptBlobs = 0

AccountInv == WriterInv /\ TotalsAccounted /\ LimitOK /\ KeptOK

LEMMA HoldsWriting ==
  StructInv => \A c \in Clients :
    /\ Holds(c) => Writing(c)
    /\ pc[c] \in PutLocations \cup DelLocations => Writing(c)
    /\ Writing(c) => Id(c) \in Ids
    /\ Writing(c) => pc[c] \in PutLocations \cup DelLocations \cup {"reply"}
BY CallsFacts DEF StructInv, TypeOK, HandlerOK, Holds, Reserved, Removed, At,
   Writing, Id, PutLocations, DelLocations, GetLocations, Locations, NoCall

HeldFacts(c) ==
  Holds(c) => /\ Accounted[Id(c)] = HeldBytes(c)
              /\ Id(c) \in AccountedIds <=> Reserved(c) \/ existed[c]
FreeFacts(c) ==
  Writing(c) /\ ~Holds(c) =>
    /\ Accounted[Id(c)] = FileSize(files[Id(c)])
    /\ Id(c) \in AccountedIds <=> files[Id(c)] # None
IdFacts == StructInv /\ OneWriterPerId =>
             \A c \in Clients : HeldFacts(c) /\ FreeFacts(c)

LEMMA IdFactsNow == IdFacts
<1> SUFFICES ASSUME StructInv, OneWriterPerId, NEW c \in Clients, Writing(c)
             PROVE  HeldFacts(c) /\ FreeFacts(c)
  BY HoldsWriting DEF IdFacts, HeldFacts, FreeFacts
<1>1. Id(c) \in Ids
  BY HoldsWriting
<1>2. CASE Holds(c)
  <2>1. Holders(Id(c)) = {c}
    BY <1>2, HoldsWriting DEF Holders, Holds, OneWriterPerId
  <2>2. Holder(Id(c)) = c
    BY <2>1 DEF Holder
  <2> QED
    BY <1>1, <1>2, <2>1, <2>2
    DEF Accounted, AccountedIds, HeldFacts, FreeFacts
<1>3. CASE ~Holds(c)
  <2>1. Holders(Id(c)) = {}
    BY <1>3, HoldsWriting DEF Holders, Holds, OneWriterPerId
  <2> QED
    BY <1>1, <1>3, <2>1 DEF Accounted, AccountedIds, HeldFacts, FreeFacts
<1> QED
  BY <1>2, <1>3

LEMMA IdFactsNext == IdFacts'
BY IdFactsNow, PTL

AccountedTyped == /\ Accounted \in [Ids -> Nat]
                  /\ AccountedIds \subseteq Ids
                  /\ IsFiniteSet(AccountedIds)
                  /\ Cardinality(AccountedIds) \in Nat

LEMMA AccountedType == StructInv => AccountedTyped
<1> SUFFICES ASSUME StructInv PROVE AccountedTyped
  OBVIOUS
<1>1. ASSUME NEW i \in Ids PROVE Accounted[i] \in Nat
  <2>1. CASE Holders(i) = {}
    BY <2>1, SizeFacts DEF Accounted, StructInv, TypeOK
  <2>2. CASE Holders(i) # {}
    <3>1. Holder(i) \in Holders(i)
      BY <2>2 DEF Holder
    <3>2. Holder(i) \in Clients /\ Holds(Holder(i))
      BY <3>1 DEF Holders, Holds
    <3>3. HeldBytes(Holder(i)) \in Nat
      <4>1. Reserved(Holder(i)) => NewSize(Holder(i)) \in Nat
        BY <3>2, CallsFacts, SizeFacts
        DEF StructInv, HandlerOK, Reserved, PutLocations, NewSize
      <4> QED
        BY <3>2, <4>1 DEF HeldBytes, StructInv, TypeOK
    <3> QED
      BY <2>2, <3>3 DEF Accounted
  <2> QED
    BY <2>1, <2>2
<1>2. Accounted \in [Ids -> Nat]
  BY <1>1 DEF Accounted
<1>3. AccountedIds \subseteq Ids
  BY DEF AccountedIds
<1>4. IsFiniteSet(AccountedIds)
  BY <1>3, FS_Subset, ConstantsAssumption
<1>5. Cardinality(AccountedIds) \in Nat
  BY <1>4, FS_CardinalityType
<1> QED
  BY <1>2, <1>3, <1>4, <1>5 DEF AccountedTyped

LEMMA AccountedTypeNext == StructInv' => AccountedTyped'
<1>1. StructInv => AccountedTyped
  BY AccountedType
<1> QED
  BY <1>1, PTL

\* A step of c leaves alone what is accounted to the ids c does not hold.
OnlyMoves(c) ==
  \A d \in Clients \ {c} :
    /\ pc'[d] = pc[d] /\ call'[d] = call[d]
    /\ existed'[d] = existed[d] /\ oldSize'[d] = oldSize[d]
    /\ answer'[d] = answer[d]

LEMMA OtherIds ==
  ASSUME NEW c \in Clients, NEW j \in Ids, OnlyMoves(c), files'[j] = files[j],
         Holds(c) => Id(c) # j, Holds(c)' => Id(c)' # j
  PROVE  /\ Accounted'[j] = Accounted[j]
         /\ j \in AccountedIds' <=> j \in AccountedIds
<1>1. ASSUME NEW d \in Clients, d # c
      PROVE  /\ Reserved(d)' <=> Reserved(d)
             /\ Removed(d)' <=> Removed(d)
             /\ Id(d)' = Id(d) /\ NewSize(d)' = NewSize(d)
             /\ existed'[d] = existed[d] /\ oldSize'[d] = oldSize[d]
  BY <1>1 DEF OnlyMoves, Reserved, Removed, At, Id, NewSize
<1>2. Holders(j)' = Holders(j) /\ c \notin Holders(j)
  <2>1. c \notin Holders(j) /\ c \notin Holders(j)'
    BY DEF Holders, Holds
  <2>2. ASSUME NEW d \in Clients, d # c
        PROVE  d \in Holders(j)' <=> d \in Holders(j)
    BY <1>1, <2>2 DEF Holders
  <2>3. Holders(j) \subseteq Clients /\ Holders(j)' \subseteq Clients
    BY DEF Holders
  <2> QED
    BY <2>1, <2>2, <2>3
<1>3. Holder(j)' = Holder(j)
  BY <1>2 DEF Holder
<1>4. CASE Holders(j) = {}
  BY <1>2, <1>4 DEF Accounted, AccountedIds
<1>5. CASE Holders(j) # {}
  <2>1. Holder(j) \in Clients /\ Holder(j) # c
    BY <1>2, <1>5 DEF Holder, Holders
  <2>2. HeldBytes(Holder(j))' = HeldBytes(Holder(j))
    BY <1>1, <1>3, <2>1 DEF HeldBytes
  <2>3. Reserved(Holder(j))' <=> Reserved(Holder(j))
    BY <1>1, <1>3, <2>1
  <2>4. existed'[Holder(j)'] = existed[Holder(j)]
    BY <1>1, <1>3, <2>1
  <2>5. Accounted'[j] = HeldBytes(Holder(j))' /\ Accounted[j] = HeldBytes(Holder(j))
    BY <1>2, <1>5 DEF Accounted
  <2>6. /\ j \in AccountedIds' <=> Reserved(Holder(j))' \/ existed'[Holder(j)']
        /\ j \in AccountedIds <=> Reserved(Holder(j)) \/ existed[Holder(j)]
    BY <1>2, <1>5 DEF AccountedIds
  <2> QED
    BY <2>2, <2>3, <2>4, <2>5, <2>6
<1> QED
  BY <1>4, <1>5

-----------------------------------------------------------------------------
(* What a writer learnt stays true: only its own steps change its file.    *)

LEMMA StepMoves ==
  ASSUME StructInv, NEW c \in Clients, Accept(c) \/ Handler(c)
  PROVE  /\ OnlyMoves(c)
         /\ \A i \in Ids : files'[i] # files[i] => Writing(c) /\ i = Id(c)
         /\ phase' = phase
         /\ phase = "up" \/ pc[c] # "idle"
<1> USE DEF StructInv, TypeOK, HandlerOK, OnlyMoves, At, Goto, Continue,
            Respond, storage, totals, locals
<1>0. CASE Accept(c)
  BY <1>0 DEF Accept
<1>1. CASE PutAccess(c)
  BY <1>1 DEF PutAccess
<1>2. CASE PutStat(c)
  BY <1>2 DEF PutStat
<1>3. CASE Reject(c)
  BY <1>3 DEF Reject
<1>4. CASE Reserve(c)
  BY <1>4 DEF Reserve
<1>5. CASE MkdirTmp(c)
  BY <1>5 DEF MkdirTmp
<1>6. CASE OpenTemp(c)
  BY <1>6 DEF OpenTemp, StreamFails
<1>7. CASE Stream(c)
  BY <1>7 DEF Stream, StreamFails
<1>8. CASE MkdirShard(c)
  BY <1>8 DEF MkdirShard
<1>9. CASE Rename(c)
  BY <1>9 DEF Rename, Writing, Id, PutLocations, DelLocations
<1>10. CASE RmTemp(c)
  BY <1>10 DEF RmTemp, RespondFailure
<1>11. CASE Rollback(c)
  BY <1>11 DEF Rollback, RespondFailure
<1>12. CASE GetAccess(c)
  BY <1>12 DEF GetAccess
<1>13. CASE GetOpen(c)
  BY <1>13 DEF GetOpen
<1>14. CASE GetPayload(c)
  BY <1>14 DEF GetPayload
<1>15. CASE DelAccess(c)
  BY <1>15 DEF DelAccess
<1>16. CASE DelStat(c)
  BY <1>16 DEF DelStat
<1>17. CASE DelRm(c)
  BY <1>17 DEF DelRm, Writing, Id, PutLocations, DelLocations
<1>18. CASE DelAccount(c)
  BY <1>18 DEF DelAccount
<1>19. CASE Reply(c)
  BY <1>19 DEF Reply
<1> QED
  BY <1>0, <1>1, <1>2, <1>3, <1>4, <1>5, <1>6, <1>7, <1>8, <1>9, <1>10, <1>11, <1>12, <1>13, <1>14, <1>15, <1>16, <1>17, <1>18, <1>19
  DEF Handler, Put, GetBlob, Remove

LEMMA OwnLocals ==
  ASSUME RecoverableFaults, WriterInv, StructInv', NEW c \in Clients,
         Accept(c) \/ Handler(c)
  PROVE  LocalsOK(c)'
<1>a. \A i \in Ids : PathExists(i) = {files[i] # None}
                     /\ StatSize(i) = {FileSize(files[i])}
  BY DEF RecoverableFaults, PathExists, StatSize
<1> USE <1>a, SizeFacts, CallsFacts
    DEF WriterInv, StructInv, TypeOK, HandlerOK, LocalsOK, Reserved, Removed,
        At, Goto, Continue, Respond, storage, totals, locals, Id,
        PutLocations, DelLocations
<1>0. CASE Accept(c)
  BY <1>0 DEF Accept
<1>1. CASE PutAccess(c)
  BY <1>1 DEF PutAccess
<1>2. CASE PutStat(c)
  BY <1>2 DEF PutStat
<1>3. CASE Reject(c)
  BY <1>3 DEF Reject
<1>4. CASE Reserve(c)
  BY <1>4 DEF Reserve
<1>5. CASE MkdirTmp(c)
  BY <1>5 DEF MkdirTmp
<1>6. CASE OpenTemp(c)
  BY <1>6 DEF OpenTemp, StreamFails
<1>7. CASE Stream(c)
  BY <1>7 DEF Stream, StreamFails
<1>8. CASE MkdirShard(c)
  BY <1>8 DEF MkdirShard
<1>9. CASE Rename(c)
  BY <1>9 DEF Rename
<1>10. CASE RmTemp(c)
  BY <1>10 DEF RmTemp, RespondFailure
<1>11. CASE Rollback(c)
  BY <1>11 DEF Rollback, RespondFailure
<1>12. CASE GetAccess(c)
  BY <1>12 DEF GetAccess
<1>13. CASE GetOpen(c)
  BY <1>13 DEF GetOpen
<1>14. CASE GetPayload(c)
  BY <1>14 DEF GetPayload
<1>15. CASE DelAccess(c)
  BY <1>15 DEF DelAccess
<1>16. CASE DelStat(c)
  BY <1>16 DEF DelStat
<1>17. CASE DelRm(c)
  BY <1>17 DEF DelRm
<1>18. CASE DelAccount(c)
  BY <1>18 DEF DelAccount
<1>19. CASE Reply(c)
  BY <1>19 DEF Reply
<1> QED
  BY <1>0, <1>1, <1>2, <1>3, <1>4, <1>5, <1>6, <1>7, <1>8, <1>9, <1>10, <1>11, <1>12, <1>13, <1>14, <1>15, <1>16, <1>17, <1>18, <1>19
  DEF Handler, Put, GetBlob, Remove

LEMMA ClientWriter ==
  ASSUME RecoverableFaults, WriterInv, OneWriterPerId', NEW c \in Clients,
         Accept(c) \/ Handler(c)
  PROVE  WriterInv'
<1>1. StructInv'
  BY AcceptStruct, HandlerStruct DEF WriterInv
<1>2. LocalsOK(c)'
  BY <1>1, OwnLocals
<1>3. ASSUME NEW d \in Clients, d # c PROVE LocalsOK(d)'
  <2>1. pc'[d] = pc[d] /\ Id(d)' = Id(d) /\ existed'[d] = existed[d]
        /\ oldSize'[d] = oldSize[d]
    BY <1>3, StepMoves DEF WriterInv, OnlyMoves, Id
  <2>2. Writing(d) => Id(d) \in Ids /\ files'[Id(d)] = files[Id(d)]
    BY <1>3, StepMoves, HoldsWriting DEF WriterInv, OneWriterPerId
  <2>3. LocalsOK(d)
    BY DEF WriterInv
  <2>4. pc[d] \in {"putStat", "reserve", "delStat", "delRm"} \/ Holds(d)
          => Writing(d)
    BY HoldsWriting DEF WriterInv, PutLocations, DelLocations
  <2> QED
    BY <2>1, <2>2, <2>3, <2>4 DEF LocalsOK, Holds, Reserved, Removed, At
<1>4. DownIsIdle'
  BY StepMoves DEF WriterInv, DownIsIdle
<1> QED
  BY <1>1, <1>2, <1>3, <1>4 DEF WriterInv

LEMMA ProcessWriter ==
  ASSUME WriterInv, OneWriterPerId', Crash \/ WipeTmp \/ WarmUp
  PROVE  WriterInv'
<1>1. StructInv'
  BY StructStep DEF WriterInv, Next
<1>2. CASE Crash
  BY <1>1, <1>2
  DEF Crash, WriterInv, DownIsIdle, LocalsOK, Reserved, Removed, At
<1>3. CASE WipeTmp \/ WarmUp
  BY <1>1, <1>3
  DEF WipeTmp, WarmUp, WriterInv, DownIsIdle, LocalsOK, Reserved, Removed, At,
      Id, storage, totals, locals
<1> QED
  BY <1>2, <1>3

-----------------------------------------------------------------------------
(* The totals follow what is accounted.                                    *)

OthersKept(i) ==
  \A j \in Ids \ {i} : /\ Accounted'[j] = Accounted[j]
                       /\ j \in AccountedIds' <=> j \in AccountedIds

LEMMA OneIdMoves ==
  ASSUME AccountedTyped, AccountedTyped', NEW i \in Ids, OthersKept(i)
  PROVE  /\ Total(Accounted)' = Total(Accounted) - Accounted[i] + Accounted'[i]
         /\ i \in AccountedIds /\ i \in AccountedIds' =>
              Cardinality(AccountedIds') = Cardinality(AccountedIds)
         /\ i \notin AccountedIds /\ i \notin AccountedIds' =>
              Cardinality(AccountedIds') = Cardinality(AccountedIds)
         /\ i \notin AccountedIds /\ i \in AccountedIds' =>
              Cardinality(AccountedIds') = Cardinality(AccountedIds) + 1
         /\ i \in AccountedIds /\ i \notin AccountedIds' =>
              Cardinality(AccountedIds') = Cardinality(AccountedIds) - 1
<1>1. Total(Accounted') = Total(Accounted) - Accounted[i] + Accounted'[i]
  BY TotalUpdate DEF OthersKept, AccountedTyped
<1>2. Total(Accounted)' = Total(Accounted')
  BY DEF Total, Bytes
<1>3. \/ AccountedIds' = AccountedIds
      \/ i \notin AccountedIds /\ AccountedIds' = AccountedIds \cup {i}
      \/ i \in AccountedIds /\ AccountedIds' = AccountedIds \ {i}
  BY DEF OthersKept, AccountedTyped
<1>4. i \notin AccountedIds /\ AccountedIds' = AccountedIds \cup {i} =>
        Cardinality(AccountedIds') = Cardinality(AccountedIds) + 1
  BY FS_AddElement DEF AccountedTyped
<1>5. i \in AccountedIds /\ AccountedIds' = AccountedIds \ {i} =>
        Cardinality(AccountedIds') = Cardinality(AccountedIds) - 1
  BY FS_RemoveElement DEF AccountedTyped
<1> QED
  BY <1>1, <1>2, <1>3, <1>4, <1>5

LEMMA NothingMoves ==
  ASSUME AccountedTyped, AccountedTyped',
         \A j \in Ids : /\ Accounted'[j] = Accounted[j]
                        /\ j \in AccountedIds' <=> j \in AccountedIds
  PROVE  /\ Total(Accounted)' = Total(Accounted)
         /\ Cardinality(AccountedIds') = Cardinality(AccountedIds)
<1>1. Accounted' = Accounted /\ AccountedIds' = AccountedIds
  BY DEF AccountedTyped
<1>2. Total(Accounted)' = Total(Accounted')
  BY DEF Total, Bytes
<1> QED
  BY <1>1, <1>2

TotalsKept == /\ usageBytes' = usageBytes /\ blobCount' = blobCount
              /\ Total(Accounted)' = Total(Accounted)
              /\ Cardinality(AccountedIds') = Cardinality(AccountedIds)

\* Steps of a connection that holds nothing before or after.
LEMMA UnheldSteps ==
  ASSUME WriterInv, WriterInv', NEW c \in Clients, OnlyMoves(c),
         ~Holds(c), ~Holds(c)', UNCHANGED <<files, usageBytes, blobCount>>
  PROVE  TotalsKept
<1>1. AccountedTyped /\ AccountedTyped'
  BY AccountedType, AccountedTypeNext DEF WriterInv
<1>2. \A j \in Ids : /\ Accounted'[j] = Accounted[j]
                     /\ j \in AccountedIds' <=> j \in AccountedIds
  BY OtherIds
<1> QED
  BY <1>1, <1>2, NothingMoves DEF TotalsKept

\* Steps of an upload between its reservation and its end.
LEMMA UploadSteps ==
  ASSUME WriterInv, WriterInv', NEW c \in Clients, OnlyMoves(c),
         Reserved(c), Reserved(c)', call'[c] = call[c],
         UNCHANGED <<files, usageBytes, blobCount>>
  PROVE  TotalsKept
<1>1. AccountedTyped /\ AccountedTyped'
  BY AccountedType, AccountedTypeNext DEF WriterInv
<1>2. Holds(c) /\ Holds(c)' /\ Id(c)' = Id(c) /\ NewSize(c)' = NewSize(c)
  BY DEF Holds, Id, NewSize
<1>3. HeldFacts(c) /\ HeldFacts(c)'
  BY IdFactsNow, IdFactsNext DEF IdFacts, WriterInv
<1>4. \A j \in Ids : /\ Accounted'[j] = Accounted[j]
                     /\ j \in AccountedIds' <=> j \in AccountedIds
  <2> SUFFICES ASSUME NEW j \in Ids
               PROVE  /\ Accounted'[j] = Accounted[j]
                      /\ j \in AccountedIds' <=> j \in AccountedIds
    OBVIOUS
  <2>1. CASE j = Id(c)
    BY <1>2, <1>3, <2>1 DEF HeldFacts, HeldBytes
  <2>2. CASE j # Id(c)
    BY <1>2, <2>2, OtherIds
  <2> QED
    BY <2>1, <2>2
<1> QED
  BY <1>1, <1>4, NothingMoves DEF TotalsKept

\* The five steps that change what is accounted to one id, or the totals.
LEMMA CommitSteps ==
  ASSUME WriterInv, WriterInv', NEW c \in Clients, OnlyMoves(c),
         Reserve(c) \/ Rename(c) \/ Rollback(c) \/ DelRm(c) \/ DelAccount(c),
         usageBytes \in Int, blobCount \in Int
  PROVE  /\ usageBytes' = usageBytes + Total(Accounted)' - Total(Accounted)
         /\ blobCount' = blobCount + Cardinality(AccountedIds') - Cardinality(AccountedIds)
         /\ blobCount' > blobCount => Reserve(c) /\ blobCount' = blobCount + 1
<1> DEFINE i == Id(c)
<1>1. AccountedTyped /\ AccountedTyped'
  BY AccountedType, AccountedTypeNext DEF WriterInv
<1>2. HeldFacts(c) /\ HeldFacts(c)' /\ FreeFacts(c) /\ FreeFacts(c)'
  BY IdFactsNow, IdFactsNext DEF IdFacts, WriterInv
<1>3. pc[c] \in PutLocations \cup DelLocations
  BY DEF Reserve, Rename, Rollback, DelRm, DelAccount, At, PutLocations,
         DelLocations
<1>4. i \in Ids /\ Writing(c)
  BY <1>3, HoldsWriting DEF WriterInv
<1>5. call'[c] = call[c] /\ existed'[c] = existed[c] /\ oldSize'[c] = oldSize[c]
  BY DEF Reserve, Rename, Rollback, DelRm, DelAccount, locals
<1>6. Id(c)' = i /\ NewSize(c)' = NewSize(c)
  BY <1>5 DEF Id, NewSize
<1>7. \A j \in Ids \ {i} : files'[j] = files[j]
  BY DEF Reserve, Rename, Rollback, DelRm, DelAccount, storage, WriterInv,
         StructInv, TypeOK
<1>8. OthersKept(i)
  BY <1>6, <1>7, OtherIds DEF OthersKept
<1> HIDE DEF i
<1>9. Accounted[i] \in Nat /\ Accounted'[i] \in Nat /\ Total(Accounted) \in Nat
      /\ Cardinality(AccountedIds) \in Nat
  BY <1>1, <1>4, TotalType DEF AccountedTyped
<1>10. /\ existed[c] \in BOOLEAN /\ oldSize[c] \in Nat
       /\ Reserved(c) \/ At(c, "reserve") => NewSize(c) \in Nat
                                     /\ FileSize(call[c].env) = NewSize(c)
  BY CallsFacts, SizeFacts
  DEF WriterInv, StructInv, TypeOK, HandlerOK, NewSize, Reserved, At,
      PutLocations
<1>11. LocalsOK(c)
  BY DEF WriterInv
<1>12. pc' = [pc EXCEPT ![c] = pc'[c]] /\ pc \in [Clients -> Locations]
  BY DEF Reserve, Rename, Rollback, DelRm, DelAccount, Continue, Respond,
         RespondFailure, Goto, WriterInv, StructInv, TypeOK
<1>13. CASE Reserve(c)
  <2>1. pc[c] = "reserve" /\ pc'[c] = "mkdirTmp"
    BY <1>13, <1>12 DEF Reserve, At, Continue, Goto
  <2>2. ~Holds(c) /\ Reserved(c)' /\ Holds(c)'
    BY <2>1 DEF Holds, Reserved, Removed, At
  <2>3. Accounted[i] = oldSize[c] /\ (i \in AccountedIds <=> existed[c])
    BY <1>2, <1>4, <1>11, <2>1, <2>2 DEF FreeFacts, LocalsOK, i
  <2>4. Accounted'[i] = NewSize(c) /\ i \in AccountedIds'
    BY <1>2, <1>6, <2>2 DEF HeldFacts, HeldBytes
  <2> QED
    BY <1>1, <1>4, <1>8, <1>9, <1>10, <1>13, <2>1, <2>3, <2>4, OneIdMoves
    DEF Reserve, At
<1>14. CASE Rename(c)
  <2>1. pc[c] = "rename" /\ Reserved(c) /\ Holds(c)
    BY <1>14 DEF Rename, At, Reserved, Holds
  <2>2. Accounted[i] = NewSize(c) /\ i \in AccountedIds
    BY <1>2, <2>1 DEF HeldFacts, HeldBytes, i
  <2>3. Accounted'[i] = NewSize(c) /\ i \in AccountedIds'
    <3>1. CASE pc'[c] = "rmTemp"
      <4>1. Reserved(c)' /\ Holds(c)'
        BY <3>1 DEF Reserved, Holds
      <4> QED
        BY <1>2, <1>6, <4>1 DEF HeldFacts, HeldBytes
    <3>2. CASE pc'[c] = "reply"
      <4>1. ~Holds(c)'
        BY <3>2 DEF Holds, Reserved, Removed, At
      <4>2. Writing(c)'
        BY <1>4, <1>5, <3>2 DEF Writing
      <4>3. files'[i] = call[c].env
        BY <1>4, <1>12, <1>14, <2>1, <3>2
        DEF Rename, WriterInv, StructInv, TypeOK, HandlerOK, Continue, Goto, i
      <4>4. call[c].env \in Envelopes
        BY <2>1, CallsFacts DEF WriterInv, StructInv, HandlerOK, PutLocations
      <4> QED
        BY <1>2, <1>6, <1>10, <2>1, <4>1, <4>2, <4>3, <4>4, SizeFacts
        DEF FreeFacts
    <3> QED
      BY <3>1, <3>2, <1>12, <1>14 DEF Rename, Respond, Continue, Goto
  <2> QED
    BY <1>1, <1>4, <1>8, <1>9, <1>14, <2>2, <2>3, OneIdMoves DEF Rename, totals
<1>15. CASE Rollback(c)
  <2>1. pc[c] = "rollback" /\ pc'[c] = "reply"
    BY <1>15, <1>12 DEF Rollback, At, RespondFailure, Goto
  <2>2. Reserved(c) /\ Holds(c) /\ ~Holds(c)' /\ Writing(c)'
    BY <2>1, <1>4, <1>5 DEF Holds, Reserved, Removed, At, Writing
  <2>3. Accounted[i] = NewSize(c) /\ i \in AccountedIds
    BY <1>2, <2>2 DEF HeldFacts, HeldBytes, i
  <2>4. files'[i] = files[i]
    BY <1>15 DEF Rollback, storage
  <2>5. Accounted'[i] = oldSize[c] /\ (i \in AccountedIds' <=> existed[c])
    BY <1>2, <1>6, <1>11, <2>2, <2>4 DEF FreeFacts, LocalsOK, i
  <2> QED
    BY <1>1, <1>4, <1>8, <1>9, <1>10, <1>15, <2>2, <2>3, <2>5, OneIdMoves
    DEF Rollback
<1>16. CASE DelRm(c)
  <2>1. pc[c] = "delRm" /\ ~Holds(c)
    BY <1>16 DEF DelRm, At, Holds, Reserved, Removed
  <2>2. Accounted[i] = oldSize[c] /\ (i \in AccountedIds <=> existed[c])
    BY <1>2, <1>4, <1>11, <2>1 DEF FreeFacts, LocalsOK, i
  <2>3. Accounted'[i] = oldSize[c] /\ (i \in AccountedIds' <=> existed[c])
    <3>1. CASE pc'[c] = "delAccount"
      <4>1. Holds(c)' /\ ~Reserved(c)'
        BY <3>1 DEF Holds, Removed, Reserved, At
      <4> QED
        BY <1>2, <1>5, <1>6, <4>1 DEF HeldFacts, HeldBytes
    <3>2. CASE pc'[c] = "reply"
      <4>1. ~Holds(c)' /\ Writing(c)'
        BY <3>2, <1>4, <1>5 DEF Holds, Reserved, Removed, At, Writing
      <4>2. files' = files
        BY <3>2, <1>12, <1>16 DEF DelRm, Continue, Goto
      <4> QED
        BY <1>2, <1>6, <1>11, <2>1, <4>1, <4>2 DEF FreeFacts, LocalsOK, i
    <3> QED
      BY <3>1, <3>2, <1>12, <1>16 DEF DelRm, Respond, Continue, Goto
  <2> QED
    BY <1>1, <1>4, <1>8, <1>9, <1>16, <2>2, <2>3, OneIdMoves DEF DelRm, totals
<1>17. CASE DelAccount(c)
  <2>1. pc[c] = "delAccount" /\ pc'[c] = "reply"
    BY <1>17, <1>12 DEF DelAccount, At, Respond, Goto
  <2>2. ~Reserved(c) /\ Removed(c) /\ Holds(c) /\ ~Holds(c)' /\ Writing(c)'
    BY <2>1, <1>4, <1>5 DEF Holds, Reserved, Removed, At, Writing
  <2>3. Accounted[i] = oldSize[c] /\ (i \in AccountedIds <=> existed[c])
    BY <1>2, <2>2 DEF HeldFacts, HeldBytes, i
  <2>4. files'[i] = None
    BY <1>11, <1>17, <2>2 DEF DelAccount, storage, LocalsOK, i
  <2>5. Accounted'[i] = 0 /\ i \notin AccountedIds'
    BY <1>2, <1>6, <2>2, <2>4, SizeFacts DEF FreeFacts
  <2>6. ~existed[c] => oldSize[c] = 0
    BY <1>11, <2>2 DEF LocalsOK
  <2> QED
    BY <1>1, <1>4, <1>8, <1>9, <1>10, <1>17, <2>3, <2>5, <2>6, OneIdMoves
    DEF DelAccount
<1> QED
  BY <1>13, <1>14, <1>15, <1>16, <1>17

\* An upload that gives up is no longer accounted, and the totals stay.
LEMMA GiveUpStep ==
  ASSUME WriterInv, WriterInv', NEW c \in Clients, OnlyMoves(c), GivesUp(c),
         UNCHANGED files, call'[c] = call[c], existed'[c] = existed[c]
  PROVE  /\ Total(Accounted)' = Total(Accounted) - (NewSize(c) - oldSize[c])
         /\ Cardinality(AccountedIds') =
              IF existed[c] THEN Cardinality(AccountedIds) ELSE Cardinality(AccountedIds) - 1
<1> DEFINE i == Id(c)
<1>1. AccountedTyped /\ AccountedTyped'
  BY AccountedType, AccountedTypeNext DEF WriterInv
<1>2. HeldFacts(c) /\ FreeFacts(c)'
  BY IdFactsNow, IdFactsNext DEF IdFacts, WriterInv
<1>3. /\ Reserved(c) /\ Holds(c) /\ ~Holds(c)' /\ pc'[c] = "reply"
      /\ pc[c] \in PutLocations
  BY DEF GivesUp, Holds, Reserved, Removed, At, PutLocations
<1>4. i \in Ids /\ Writing(c) /\ Writing(c)'
  BY <1>3, HoldsWriting DEF WriterInv, Writing
<1>5. Id(c)' = i
  BY DEF Id
<1>6. OthersKept(i)
  BY <1>5, OtherIds DEF OthersKept
<1>7. LocalsOK(c)
  BY DEF WriterInv
<1>8. Accounted[i] = NewSize(c) /\ i \in AccountedIds
  BY <1>2, <1>3 DEF HeldFacts, HeldBytes
<1>9. Accounted'[i] = oldSize[c] /\ (i \in AccountedIds' <=> existed[c])
  BY <1>2, <1>3, <1>4, <1>5, <1>7 DEF FreeFacts, LocalsOK
<1>10. Accounted[i] \in Nat /\ Accounted'[i] \in Nat /\ Total(Accounted) \in Nat
       /\ Cardinality(AccountedIds) \in Nat /\ existed[c] \in BOOLEAN
  BY <1>1, <1>4, TotalType DEF AccountedTyped, WriterInv, StructInv, TypeOK
<1> HIDE DEF i
<1>11. Total(Accounted)' = Total(Accounted) - (NewSize(c) - oldSize[c])
  BY <1>1, <1>4, <1>6, <1>8, <1>9, <1>10, OneIdMoves
<1>12. CASE existed[c]
  BY <1>1, <1>4, <1>6, <1>8, <1>9, <1>11, <1>12, OneIdMoves
<1>13. CASE ~existed[c]
  BY <1>1, <1>4, <1>6, <1>8, <1>9, <1>11, <1>13, OneIdMoves
<1> QED
  BY <1>10, <1>12, <1>13

\* What a step of c adds to the leftovers.
LEMMA KeptMoves ==
  ASSUME NoteKept, NEW c \in Clients, OnlyMoves(c), phase' = "up"
  PROVE  /\ ~GivesUp(c) => UNCHANGED kept
         /\ GivesUp(c) =>
              /\ keptBytes' = keptBytes + (NewSize(c) - oldSize[c])
              /\ keptBlobs' = IF existed[c] THEN keptBlobs ELSE keptBlobs + 1
<1>1. \A d \in Clients : GivesUp(d) => d = c
  BY DEF GivesUp, OnlyMoves
<1> QED
  BY <1>1 DEF NoteKept

LEMMA KeptStep ==
  ASSUME WriterInv, KeptOK, Next, NoteKept
  PROVE  KeptOK'
<1>1. CASE phase' = "down"
  BY <1>1 DEF NoteKept, KeptOK, GivesUp
<1>2. CASE phase' # "down" /\ UNCHANGED kept
  <2>1. phase' # "up" => phase # "up"
    <3>1. CASE Crash \/ WipeTmp \/ WarmUp
      BY <1>2, <3>1 DEF Crash, WipeTmp, WarmUp
    <3>2. CASE \E c \in Clients : Accept(c) \/ Handler(c)
      BY <3>2, StepMoves DEF WriterInv
    <3> QED
      BY <3>1, <3>2 DEF Next
  <2> QED
    BY <1>2, <2>1 DEF KeptOK, kept
<1>3. CASE \E c \in Clients : GivesUp(c) /\ phase' # "down"
  <2>1. PICK c \in Clients : /\ GivesUp(c) /\ phase' # "down"
                             /\ keptUploads' = keptUploads + 1
                             /\ keptBytes' = keptBytes + (NewSize(c) - oldSize[c])
                             /\ keptBlobs' = IF existed[c] THEN keptBlobs ELSE keptBlobs + 1
    BY <1>3 DEF NoteKept
  <2>2. NewSize(c) \in Nat /\ oldSize[c] \in Nat
    BY <2>1, CallsFacts, SizeFacts
    DEF GivesUp, WriterInv, StructInv, TypeOK, HandlerOK, NewSize, PutLocations
  <2>3. phase' = "up"
    <3>1. ~(Crash \/ WipeTmp \/ WarmUp)
      BY <2>1 DEF Crash, WipeTmp, WarmUp, GivesUp
    <3>2. phase' = phase /\ phase = "up"
      BY <2>1, <3>1, StepMoves DEF Next, WriterInv, DownIsIdle, GivesUp
    <3> QED
      BY <3>2
  <2>4. keptUploads' \in Nat /\ keptUploads' # 0 /\ keptBytes' \in Int /\ keptBlobs' \in Nat
    BY <2>1, <2>2 DEF KeptOK
  <2> QED
    BY <2>3, <2>4 DEF KeptOK
<1> QED
  BY <1>1, <1>2, <1>3 DEF NoteKept

LEMMA ClientTotals ==
  ASSUME AccountInv, WriterInv', NoteKept, NEW c \in Clients,
         Accept(c) \/ Handler(c)
  PROVE  TotalsAccounted' /\ LimitOK'
<1>1. WriterInv /\ phase = "up" /\ phase' = "up" /\ OnlyMoves(c)
  BY StepMoves DEF AccountInv, WriterInv, DownIsIdle
<1>2. /\ usageBytes = Total(Accounted) + keptBytes
      /\ blobCount = Cardinality(AccountedIds) + keptBlobs
      /\ Cardinality(AccountedIds) <= MaxBlobsTotal
      /\ Cardinality(AccountedIds) \in Nat /\ existed[c] \in BOOLEAN
      /\ keptBytes \in Int /\ keptBlobs \in Nat
  BY <1>1, AccountedType
  DEF AccountInv, TotalsAccounted, LimitOK, WriterInv, AccountedTyped,
      StructInv, TypeOK, KeptOK
<1>3. pc \in [Clients -> Locations] /\ call \in [Clients -> Calls \cup {NoCall}]
  BY <1>1 DEF WriterInv, StructInv, TypeOK
<1>4. Total(Accounted) \in Nat /\ Total(Accounted)' \in Nat
      /\ Cardinality(AccountedIds') \in Nat
  BY <1>1, AccountedType, AccountedTypeNext, TotalType DEF WriterInv, AccountedTyped
<1>5. ASSUME TotalsKept, ~GivesUp(c) PROVE TotalsAccounted' /\ LimitOK'
  <2>1. keptBytes' = keptBytes /\ keptBlobs' = keptBlobs
    BY <1>1, <1>5, KeptMoves DEF kept
  <2> QED
    BY <1>1, <1>2, <1>5, <2>1 DEF TotalsKept, TotalsAccounted, LimitOK
<1>6. CASE \/ Accept(c) \/ Reply(c) \/ PutAccess(c) \/ PutStat(c) \/ Reject(c)
           \/ GetBlob(c) \/ DelAccess(c) \/ DelStat(c)
  <2>1. /\ ~Holds(c) /\ ~Holds(c)' /\ UNCHANGED <<files, usageBytes, blobCount>>
        /\ ~GivesUp(c)
    BY <1>3, <1>6
    DEF Accept, Reply, PutAccess, PutStat, Reject, GetBlob, GetAccess, GetOpen,
        GetPayload, DelAccess, DelStat, Holds, Reserved, Removed, At, Goto,
        Continue, Respond, storage, totals, GivesUp
  <2> QED
    BY <1>1, <1>5, <2>1, UnheldSteps
<1>7. CASE MkdirTmp(c) \/ OpenTemp(c) \/ Stream(c) \/ MkdirShard(c) \/ RmTemp(c)
  <2>1. /\ Reserved(c) /\ call'[c] = call[c] /\ existed'[c] = existed[c]
        /\ UNCHANGED <<files, usageBytes, blobCount>>
        /\ GivesUp(c) \/ (Reserved(c)' /\ ~GivesUp(c))
    BY <1>3, <1>7
    DEF MkdirTmp, OpenTemp, Stream, StreamFails, MkdirShard, RmTemp, Reserved,
        At, Goto, Continue, Respond, RespondFailure, storage, totals, locals, GivesUp
  <2>2. CASE ~GivesUp(c)
    BY <1>1, <1>5, <2>1, <2>2, UploadSteps
  <2>3. CASE GivesUp(c)
    <3>1. /\ Total(Accounted)' = Total(Accounted) - (NewSize(c) - oldSize[c])
          /\ Cardinality(AccountedIds') =
               IF existed[c] THEN Cardinality(AccountedIds) ELSE Cardinality(AccountedIds) - 1
      BY <1>1, <2>1, <2>3, GiveUpStep
    <3>2. /\ keptBytes' = keptBytes + (NewSize(c) - oldSize[c])
          /\ keptBlobs' = IF existed[c] THEN keptBlobs ELSE keptBlobs + 1
      BY <1>1, <2>3, KeptMoves
    <3>3. NewSize(c) \in Nat /\ oldSize[c] \in Nat
      BY <1>1, <2>3, CallsFacts, SizeFacts
      DEF GivesUp, WriterInv, StructInv, TypeOK, HandlerOK, NewSize, PutLocations
    <3>4. usageBytes' = Total(Accounted)' + keptBytes'
      BY <1>2, <1>4, <2>1, <3>1, <3>2, <3>3
    <3>5. blobCount' = Cardinality(AccountedIds') + keptBlobs'
          /\ Cardinality(AccountedIds') <= MaxBlobsTotal
      BY <1>2, <1>4, <2>1, <3>1, <3>2, ConstantsAssumption
    <3> QED
      BY <1>1, <3>4, <3>5 DEF TotalsAccounted, LimitOK
  <2> QED
    BY <2>2, <2>3
<1>8. CASE Reserve(c) \/ Rename(c) \/ Rollback(c) \/ DelRm(c) \/ DelAccount(c)
  <2>1. usageBytes \in Int /\ blobCount \in Int
    BY <1>1 DEF WriterInv, StructInv, TypeOK
  <2>2. /\ usageBytes' = usageBytes + Total(Accounted)' - Total(Accounted)
        /\ blobCount' = blobCount + Cardinality(AccountedIds') - Cardinality(AccountedIds)
        /\ blobCount' > blobCount => Reserve(c) /\ blobCount' = blobCount + 1
    BY <1>1, <1>8, <2>1, CommitSteps
  <2>3. ~GivesUp(c)
    BY <1>8 DEF Reserve, Rename, Rollback, DelRm, DelAccount, At, GivesUp
  <2>4. keptBytes' = keptBytes /\ keptBlobs' = keptBlobs
    BY <1>1, <2>3, KeptMoves DEF kept
  <2>5. blobCount' > blobCount => blobCount < MaxBlobsTotal
    BY <1>2, <2>1, <2>2, ConstantsAssumption DEF Reserve, CountFull
  <2>6. Cardinality(AccountedIds') <= MaxBlobsTotal
    BY <1>2, <1>4, <2>1, <2>2, <2>5, ConstantsAssumption
  <2>7. usageBytes' = Total(Accounted)' + keptBytes'
        /\ blobCount' = Cardinality(AccountedIds') + keptBlobs'
    BY <1>2, <1>4, <2>2, <2>4
  <2> QED
    BY <1>1, <2>6, <2>7 DEF TotalsAccounted, LimitOK
<1> QED
  BY <1>6, <1>7, <1>8 DEF Handler, Put, Remove

LEMMA StoredAccounted ==
  ASSUME WriterInv
  PROVE  Stored \subseteq AccountedIds
<1> SUFFICES ASSUME NEW i \in Ids, files[i] # None PROVE i \in AccountedIds
  BY DEF Stored
<1>1. CASE Holders(i) = {}
  BY <1>1 DEF AccountedIds
<1>2. CASE Holders(i) # {}
  <2>1. Holder(i) \in Holders(i)
    BY <1>2 DEF Holder
  <2>2. Reserved(Holder(i))
    BY <2>1 DEF Holders, WriterInv, LocalsOK
  <2> QED
    BY <1>2, <2>2 DEF AccountedIds
<1> QED
  BY <1>1, <1>2

LEMMA LimitFromAccount == AccountInv => BlobLimit
<1> SUFFICES ASSUME AccountInv PROVE BlobLimit
  OBVIOUS
<1>1. CASE phase = "up"
  <2>1. Stored \subseteq AccountedIds /\ IsFiniteSet(AccountedIds)
    BY StoredAccounted, AccountedType DEF AccountInv, WriterInv, AccountedTyped
  <2>2. /\ Cardinality(Stored) <= Cardinality(AccountedIds)
        /\ Cardinality(Stored) \in Nat /\ Cardinality(AccountedIds) \in Nat
    BY <2>1, FS_Subset, FS_CardinalityType
  <2> QED
    BY <1>1, <2>2, ConstantsAssumption DEF AccountInv, LimitOK, BlobLimit
<1>2. CASE phase # "up"
  BY <1>2 DEF AccountInv, LimitOK, BlobLimit
<1> QED
  BY <1>1, <1>2

LEMMA ProcessTotals ==
  ASSUME AccountInv, WriterInv', NoteKept, Crash \/ WipeTmp \/ WarmUp
  PROVE  TotalsAccounted' /\ LimitOK'
<1>1. Cardinality(Stored) <= MaxBlobsTotal
  BY LimitFromAccount DEF BlobLimit
<1>2. CASE Crash \/ WipeTmp
  <2>1. phase' # "up" /\ Stored' = Stored
    BY <1>2 DEF Crash, WipeTmp, Stored
  <2> QED
    BY <1>1, <2>1 DEF TotalsAccounted, LimitOK
<1>3. CASE WarmUp
  <2>1. \A c \in Clients : pc[c] = "idle" /\ pc'[c] = "idle"
    BY <1>3 DEF WarmUp, AccountInv, WriterInv, DownIsIdle
  <2>2. \A i \in Ids : Holders(i)' = {}
    BY <2>1 DEF Holders, Reserved, Removed, At
  <2>3. /\ Accounted' = [i \in Ids |-> FileSize(files[i])]
        /\ AccountedIds' = Stored
    BY <1>3, <2>2 DEF Accounted, AccountedIds, Stored, WarmUp, storage
  <2>4. Total(Accounted)' = DiskUsage
    BY <2>3 DEF Total, Bytes, DiskUsage
  <2>5. keptBytes' = 0 /\ keptBlobs' = 0
    <3>1. \A c \in Clients : ~GivesUp(c)
      BY <2>1 DEF GivesUp
    <3>2. UNCHANGED kept
      BY <1>3, <3>1 DEF NoteKept, WarmUp
    <3> QED
      BY <1>3, <3>2 DEF kept, AccountInv, KeptOK, WarmUp
  <2>6. DiskUsage \in Nat /\ Cardinality(Stored) \in Nat
    BY DiskUsageType, StoredFinite DEF AccountInv, WriterInv, StructInv
  <2> QED
    BY <1>1, <1>3, <2>3, <2>4, <2>5, <2>6 DEF WarmUp, TotalsAccounted, LimitOK
<1> QED
  BY <1>2, <1>3

LEMMA AccountInit == KeptInit => AccountInv
<1> SUFFICES ASSUME KeptInit PROVE AccountInv
  OBVIOUS
<1> USE DEF KeptInit
<1>1. StructInv
  BY StructInit
<1>2. WriterInv
  BY <1>1 DEF Init, WriterInv, OneWriterPerId, Writing, DownIsIdle, LocalsOK,
              Reserved, Removed, At
<1>3. Stored = {}
  BY DEF Init, Stored
<1>4. Cardinality(Stored) = 0
  BY <1>3, FS_EmptySet
<1> QED
  BY <1>2, <1>4, ConstantsAssumption
  DEF Init, AccountInv, TotalsAccounted, LimitOK, KeptOK

LEMMA AccountStep ==
  ASSUME RecoverableFaults, AccountInv, [Next /\ NoteKept /\ OneWriterPerId']_<<vars, kept>>
  PROVE  AccountInv'
<1>1. CASE Crash \/ WipeTmp \/ WarmUp
  <2>1. CASE Next /\ NoteKept /\ OneWriterPerId'
    BY <1>1, <2>1, ProcessWriter, ProcessTotals, KeptStep DEF AccountInv
  <2>2. CASE UNCHANGED vars
    BY <1>1, <2>2 DEF Crash, WipeTmp, WarmUp, vars
  <2> QED
    BY <2>1, <2>2
<1>2. CASE (\E c \in Clients : Accept(c) \/ Handler(c)) /\ NoteKept /\ OneWriterPerId'
  BY <1>2, ClientWriter, ClientTotals, KeptStep DEF AccountInv, Next
<1>3. CASE UNCHANGED <<vars, kept>>
  <2>1. WriterInv'
    <3>1. StructInv'
      BY <1>3, StructStep DEF AccountInv, WriterInv
    <3>2. OneWriterPerId' /\ DownIsIdle'
      BY <1>3 DEF vars, AccountInv, WriterInv, OneWriterPerId, Writing, Id, DownIsIdle
    <3>3. ASSUME NEW c \in Clients PROVE LocalsOK(c)'
      BY <1>3 DEF vars, AccountInv, WriterInv, LocalsOK, Reserved, Removed, At, Id
    <3> QED
      BY <3>1, <3>2, <3>3 DEF WriterInv
  <2>2. Accounted' = Accounted /\ AccountedIds' = AccountedIds
    BY <1>3 DEF vars, Accounted, AccountedIds, Holders, Holder, HeldBytes,
                Reserved, Removed, At, Id, NewSize
  <2>3. TotalsAccounted' /\ LimitOK' /\ KeptOK'
    BY <1>3, <2>2 DEF vars, kept, AccountInv, TotalsAccounted, LimitOK, KeptOK, Stored, Total, Bytes
  <2> QED
    BY <2>1, <2>3 DEF AccountInv
<1> QED
  BY <1>1, <1>2, <1>3 DEF Next

LEMMA AccountInvariant == ASSUME RecoverableFaults PROVE QuotaSpec => []AccountInv
<1>1. QuotaInit => AccountInv
  BY AccountInit DEF QuotaInit
<1>2. AccountInv /\ [QuotaNext]_<<vars, kept, unfailed>> => AccountInv'
  BY AccountStep DEF QuotaNext
<1> QED
  BY <1>1, <1>2, PTL DEF QuotaSpec

\* With one writer per id, and when access and stat tell the truth, the running
\* totals are exact at every step, across failures, crashes and restarts, but
\* for what the uploads hold that put could not clean up after.
THEOREM TotalsExact ==
  ASSUME RecoverableFaults
  PROVE  QuotaSpec => []TotalsAccounted
<1>1. AccountInv => TotalsAccounted
  BY DEF AccountInv
<1> QED
  BY <1>1, AccountInvariant, PTL

\* Under the same assumptions MAX_BLOBS_TOTAL bounds the blobs on disk: what
\* failed cleanups keep only makes put refuse earlier.
THEOREM CountBounded ==
  ASSUME RecoverableFaults
  PROVE  QuotaSpec => []BlobLimit
BY LimitFromAccount, AccountInvariant, PTL

-----------------------------------------------------------------------------
(* Until an upload fails no reservation is given back: the quota holds.    *)

NothingFailed ==
  /\ phase = "up" => usageBytes <= MaxDiskQuota
  /\ \A c \in Clients : pc[c] \notin {"rmTemp", "rollback"}
  /\ phase # "up" => files = [i \in Ids |-> None]
                     /\ \A c \in Clients : pc[c] = "idle"

LEMMA QuotaStep ==
  ASSUME StructInv, NothingFailed, Next, ~Fails
  PROVE  NothingFailed'
<1>1. CASE Crash
  BY <1>1 DEF Crash, Fails, NothingFailed
<1>2. CASE WipeTmp
  BY <1>2 DEF WipeTmp, NothingFailed
<1>3. CASE WarmUp
  <2>1. DiskUsage = 0
    <3>1. [i \in Ids |-> FileSize(files[i])] \in [Ids -> Nat]
      BY SizeFacts DEF StructInv, TypeOK
    <3>2. \A i \in Ids : FileSize(files[i]) = 0
      BY <1>3, SizeFacts DEF WarmUp, NothingFailed
    <3> QED
      BY <3>1, <3>2, TotalZero DEF DiskUsage
  <2> QED
    BY <1>3, <2>1, ConstantsAssumption DEF WarmUp, NothingFailed, storage
<1>4. CASE \E c \in Clients : Accept(c) \/ Handler(c)
  <2>1. PICK c \in Clients : Accept(c) \/ Handler(c)
    BY <1>4
  <2>2. phase = "up" /\ phase' = phase /\ OnlyMoves(c)
    BY <2>1, StepMoves DEF NothingFailed
  <2>3. pc \in [Clients -> Locations] /\ usageBytes \in Int
        /\ oldSize \in [Clients -> Nat]
    BY DEF StructInv, TypeOK
  <2>4. pc[c] \notin {"rmTemp", "rollback"} /\ usageBytes <= MaxDiskQuota
    BY <2>2 DEF NothingFailed
  <2>5. NewSize(c) \in Nat \/ ~At(c, "reserve")
    BY CallsFacts, SizeFacts
    DEF StructInv, HandlerOK, NewSize, At, PutLocations
  <2>6. pc'[c] # "rmTemp"
    BY DEF Fails
  <2>7. pc'[c] \notin {"rmTemp", "rollback"} /\ usageBytes' <= MaxDiskQuota
    BY <2>1, <2>3, <2>4, <2>5, <2>6, ConstantsAssumption
    DEF Accept, Handler, Put, GetBlob, Remove, PutAccess, PutStat, Reject,
        Reserve, MkdirTmp, OpenTemp, Stream, StreamFails, MkdirShard, Rename, RmTemp,
        Rollback, GetAccess, GetOpen, GetPayload, DelAccess, DelStat, DelRm,
        DelAccount, Reply, QuotaFull, At, Goto, Continue, Respond,
        RespondFailure, totals
  <2> QED
    BY <2>2, <2>7 DEF NothingFailed, OnlyMoves
<1> QED
  BY <1>1, <1>2, <1>3, <1>4 DEF Next

\* Between writes what is accounted is what is on disk.
LEMMA QuietAccounts ==
  ASSUME StructInv, \A c \in Clients : ~Writing(c)
  PROVE  Total(Accounted) = DiskUsage /\ AccountedIds = Stored
<1>1. \A i \in Ids : Holders(i) = {}
  BY HoldsWriting DEF Holders, Holds
<1>2. Accounted = [i \in Ids |-> FileSize(files[i])]
  BY <1>1 DEF Accounted
<1>3. AccountedIds = Stored
  BY <1>1 DEF AccountedIds, Stored
<1> QED
  BY <1>2, <1>3 DEF DiskUsage

\* When no two writes of one id overlap, and until a cleanup of put fails, the
\* totals between writes are what a restart would count (04's README: "running
\* totals"): it takes one of the two to break them.
THEOREM QuietTotalsExact ==
  ASSUME RecoverableFaults
  PROVE  QuotaSpec => [](keptUploads = 0 => QuiescentTotals)
<1>1. AccountInv => (keptUploads = 0 => QuiescentTotals)
  <2> SUFFICES ASSUME AccountInv, keptUploads = 0, phase = "up",
                      \A c \in Clients : ~Writing(c)
               PROVE  usageBytes = DiskUsage /\ blobCount = Cardinality(Stored)
    BY DEF QuiescentTotals
  <2>1. Total(Accounted) = DiskUsage /\ AccountedIds = Stored
    BY QuietAccounts DEF AccountInv, WriterInv
  <2>2. DiskUsage \in Nat /\ Cardinality(Stored) \in Nat
    BY DiskUsageType, StoredFinite DEF AccountInv, WriterInv, StructInv
  <2> QED
    BY <2>1, <2>2 DEF AccountInv, TotalsAccounted, KeptOK
<1> QED
  BY <1>1, AccountInvariant, PTL

LEMMA QuotaFromAccount == AccountInv /\ NothingFailed /\ keptUploads = 0 => DiskQuotaKept
<1> SUFFICES ASSUME AccountInv, NothingFailed, keptUploads = 0, phase = "up",
                    \A c \in Clients : ~Writing(c)
             PROVE  DiskUsage <= MaxDiskQuota
  BY DEF DiskQuotaKept
<1>1. Total(Accounted) = DiskUsage /\ DiskUsage \in Nat
  BY QuietAccounts, DiskUsageType DEF AccountInv, WriterInv, StructInv
<1> QED
  BY <1>1 DEF AccountInv, TotalsAccounted, KeptOK, NothingFailed

\* With one writer per id and recoverable faults, MAX_DISK_QUOTA bounds the
\* bytes on disk between writes until an upload fails or the process crashes.
THEOREM DiskWithinQuota ==
  ASSUME RecoverableFaults
  PROVE  QuotaSpec => []QuotaKeptUntilFailure
<1> DEFINE QInv == AccountInv /\ (unfailed => NothingFailed /\ keptUploads = 0)
<1>1. QuotaInit => QInv
  BY AccountInit DEF QuotaInit, KeptInit, Init, NothingFailed
<1>2. QInv /\ [QuotaNext]_<<vars, kept, unfailed>> => QInv'
  <2>1. QInv /\ UNCHANGED <<vars, kept, unfailed>> => QInv'
    BY AccountStep DEF vars, kept, NothingFailed
  <2>2. QInv /\ QuotaNext => QInv'
    <3> SUFFICES ASSUME QInv, QuotaNext PROVE QInv'
      OBVIOUS
    <3>1. AccountInv'
      BY AccountStep DEF QuotaNext
    <3>2. ASSUME unfailed' PROVE NothingFailed' /\ keptUploads' = 0
      <4>1. unfailed /\ ~Fails
        BY <3>2 DEF QuotaNext
      <4>2. NothingFailed'
        BY <4>1, QuotaStep DEF QuotaNext, AccountInv, WriterInv
      <4>3. keptUploads' = 0
        BY <4>1 DEF QuotaNext, NoteKept, kept, Fails
      <4> QED
        BY <4>2, <4>3
    <3> QED
      BY <3>1, <3>2
  <2> QED
    BY <2>1, <2>2
<1>3. QInv => QuotaKeptUntilFailure
  BY QuotaFromAccount DEF QuotaKeptUntilFailure
<1> QED
  BY <1>1, <1>2, <1>3, PTL DEF QuotaSpec

-----------------------------------------------------------------------------
(* BlobsService implements the atomic blob store of BlobStore.             *)

\* What a GET must find for its answer to be one the store can give.
GetsSee(c) ==
  /\ GetAccess(c) => PathExists(Id(c)) = {files[Id(c)] # None}
  /\ GetPayload(c) => answer[c].headers = files[Id(c)]

LEMMA ErrorsAre ==
  Cut \in Errors /\ \A s \in {400, 413, 500, 507} : Status(s) \in Errors
BY DEF Errors

LEMMA BarTypes ==
  /\ stageBar = [c \in Clients |-> stageBar[c]]
  /\ responseBar = [c \in Clients |-> responseBar[c]]
BY DEF stageBar, responseBar

\* The stage and response of c after a step that puts c at location l.
LEMMA BarMoves ==
  ASSUME TypeOK, NEW c \in Clients, NEW l \in Locations, Goto(c, l),
         \A d \in Clients \ {c} : answer'[d] = answer[d]
  PROVE  /\ stageBar' = [stageBar EXCEPT ![c] = stageBar'[c]]
         /\ responseBar' = [responseBar EXCEPT ![c] = responseBar'[c]]
         /\ l = "idle" => stageBar'[c] = "idle" /\ responseBar'[c] = NoAnswer
         /\ l = "reply" => stageBar'[c] = "done" /\ responseBar'[c] = answer'[c]
         /\ l = "delAccount" => stageBar'[c] = "done"
                                /\ responseBar'[c] = Status(204)
         /\ l \notin {"idle", "reply", "delAccount"} =>
              stageBar'[c] = "pending" /\ responseBar'[c] = NoAnswer
<1>1. pc'[c] = l /\ \A d \in Clients \ {c} : pc'[d] = pc[d]
  BY DEF Goto, TypeOK
<1>2. \A d \in Clients \ {c} : stageBar'[d] = stageBar[d]
                               /\ responseBar'[d] = responseBar[d]
  BY <1>1 DEF stageBar, responseBar, At, Removed
<1>3. /\ stageBar' = [stageBar EXCEPT ![c] = stageBar'[c]]
      /\ responseBar' = [responseBar EXCEPT ![c] = responseBar'[c]]
  <2>1. /\ stageBar = [d \in Clients |-> stageBar[d]]
        /\ stageBar' = [d \in Clients |-> stageBar'[d]]
    BY DEF stageBar
  <2>2. /\ responseBar = [d \in Clients |-> responseBar[d]]
        /\ responseBar' = [d \in Clients |-> responseBar'[d]]
    BY DEF responseBar
  <2> QED
    BY <1>2, <2>1, <2>2
<1> QED
  BY <1>1, <1>3 DEF stageBar, responseBar, At, Removed

LEMMA BarNow ==
  \A c \in Clients :
    /\ pc[c] = "idle" => stageBar[c] = "idle" /\ responseBar[c] = NoAnswer
    /\ pc[c] = "reply" => stageBar[c] = "done"
    /\ pc[c] = "delAccount" => stageBar[c] = "done"
                               /\ responseBar[c] = Status(204)
    /\ pc[c] \notin {"idle", "reply", "delAccount"} =>
         stageBar[c] = "pending" /\ responseBar[c] = NoAnswer
BY DEF stageBar, responseBar, At, Removed

StoreVarsBar == <<files, stageBar, call, responseBar>>

\* Every step of a handler is a step of the store or changes nothing there.
LEMMA QuietSteps ==
  ASSUME StructInv, NEW c \in Clients,
         \/ PutAccess(c) \/ PutStat(c) \/ Reserve(c) \/ OpenTemp(c)
         \/ Stream(c) \/ MkdirShard(c) \/ DelAccess(c) \/ DelStat(c)
         \/ MkdirTmp(c) /\ pc'[c] # "reply"
         \/ Rename(c) /\ pc'[c] # "reply"
         \/ RmTemp(c) /\ pc'[c] # "reply"
         \/ GetAccess(c) /\ pc'[c] # "reply"
         \/ GetOpen(c) /\ pc'[c] # "reply"
  PROVE  UNCHANGED StoreVarsBar
<1>1. TypeOK /\ pc \in [Clients -> Locations]
  BY DEF StructInv, TypeOK
<1>2. pc[c] \notin {"idle", "reply", "delAccount"}
  BY DEF PutAccess, PutStat, Reserve, OpenTemp, Stream, MkdirShard, DelAccess,
         DelStat, MkdirTmp, Rename, RmTemp, GetAccess, GetOpen, At
<1>3. \E l \in Locations \ {"idle", "reply", "delAccount"} : Goto(c, l)
  <2>1. CASE OpenTemp(c) \/ Stream(c)
    BY <2>1 DEF OpenTemp, Stream, StreamFails, Continue, Locations
  <2>2. CASE ~(OpenTemp(c) \/ Stream(c))
    BY <1>1, <2>2
    DEF PutAccess, PutStat, Reserve, MkdirShard, DelAccess, DelStat, MkdirTmp,
        Rename, RmTemp, GetAccess, GetOpen, Continue, Respond, RespondFailure,
        Goto, Locations
  <2> QED
    BY <2>1, <2>2
<1>4. UNCHANGED <<files, call>> /\ \A d \in Clients \ {c} : answer'[d] = answer[d]
  <2>1. CASE OpenTemp(c) \/ Stream(c)
    <3>1. \/ answer' = answer
          \/ answer' = [answer EXCEPT ![c] = Cut]
      BY <2>1 DEF OpenTemp, Stream, StreamFails, Continue
    <3>2. answer \in [Clients -> Answers]
      BY <1>1 DEF TypeOK
    <3>3. UNCHANGED <<files, call>>
      BY <2>1 DEF OpenTemp, Stream, locals
    <3> QED
      BY <3>1, <3>2, <3>3
  <2>2. CASE ~(OpenTemp(c) \/ Stream(c))
    BY <1>1, <2>2
    DEF PutAccess, PutStat, Reserve, MkdirShard, DelAccess, DelStat, MkdirTmp,
        Rename, RmTemp, GetAccess, GetOpen, Continue, Respond, RespondFailure,
        Goto, storage, locals, TypeOK
  <2> QED
    BY <2>1, <2>2
<1>5. UNCHANGED <<stageBar, responseBar>>
  <2>1. /\ stageBar' = [stageBar EXCEPT ![c] = stageBar'[c]]
        /\ responseBar' = [responseBar EXCEPT ![c] = responseBar'[c]]
        /\ stageBar'[c] = "pending" /\ responseBar'[c] = NoAnswer
    BY <1>1, <1>3, <1>4, BarMoves
  <2>2. stageBar[c] = "pending" /\ responseBar[c] = NoAnswer
    BY <1>1, <1>2, BarNow
  <2>3. /\ stageBar' = [stageBar EXCEPT ![c] = stageBar[c]]
        /\ responseBar' = [responseBar EXCEPT ![c] = responseBar[c]]
    BY <2>1, <2>2
  <2> QED
    BY <2>3, BarTypes
<1> QED
  BY <1>4, <1>5 DEF StoreVarsBar

\* The answer of c is decided: its request was pending and is done.
LEMMA DecideStep ==
  ASSUME StructInv, NEW c \in Clients,
         pc[c] \notin {"idle", "reply", "delAccount"}, Goto(c, "reply"),
         \A d \in Clients \ {c} : answer'[d] = answer[d], call' = call
  PROVE  Store!Decide(c, answer'[c])
<1>1. TypeOK /\ "reply" \in Locations
  BY DEF StructInv, Locations
<1>2. /\ stageBar' = [stageBar EXCEPT ![c] = "done"]
      /\ responseBar' = [responseBar EXCEPT ![c] = answer'[c]]
  BY <1>1, BarMoves
<1>3. stageBar[c] = "pending"
  BY <1>1, BarNow
<1> QED
  BY <1>2, <1>3 DEF Store!Decide

LEMMA FailSteps ==
  ASSUME StructInv, NEW c \in Clients, answer'[c] \in Errors, Goto(c, "reply"),
         \A d \in Clients \ {c} : answer'[d] = answer[d],
         pc[c] \notin {"idle", "reply", "delAccount"},
         files' = files, call' = call
  PROVE  Store!Fail(c)
<1>1. Store!Decide(c, answer'[c])
  BY DecideStep
<1> QED
  BY <1>1 DEF Store!Fail

LEMMA AcceptStep ==
  ASSUME StructInv, NEW c \in Clients, Accept(c)
  PROVE  Store!Call(c) \/ Store!Refuse(c)
<1>1. PICK k \in Calls :
        /\ call' = [call EXCEPT ![c] = k]
        /\ CASE k.kind = "get" -> Continue(c, "getAccess")
             [] k.kind = "delete" -> Continue(c, "delAccess")
             [] k.kind = "put" /\ Validate(k.env) = 0 -> Continue(c, "putAccess")
             [] OTHER -> Respond(c, Validate(k.env))
  BY DEF Accept
<1>2. \/ \E l \in {"getAccess", "delAccess", "putAccess"} : Continue(c, l)
      \/ \E s \in {400, 413} : Respond(c, s)
  BY <1>1, CallsFacts DEF Validate
<1>3. TypeOK /\ pc[c] = "idle" /\ files' = files
  BY DEF StructInv, Accept, At, storage
<1>4. stageBar[c] = "idle" /\ responseBar[c] = NoAnswer
  BY <1>3, BarNow
<1>5. CASE \E l \in {"getAccess", "delAccess", "putAccess"} : Continue(c, l)
  <2>1. PICK l \in {"getAccess", "delAccess", "putAccess"} : Continue(c, l)
    BY <1>5
  <2>2. l \in Locations /\ Goto(c, l) /\ answer' = answer
    BY <2>1 DEF Continue, Locations
  <2>3. /\ stageBar' = [stageBar EXCEPT ![c] = "pending"]
        /\ responseBar' = [responseBar EXCEPT ![c] = NoAnswer]
    BY <1>3, <2>2, BarMoves
  <2>4. responseBar' = responseBar
    BY <1>4, <2>3, BarTypes
  <2> QED
    BY <1>1, <1>3, <1>4, <2>3, <2>4 DEF Store!Call
<1>6. CASE \E s \in {400, 413} : Respond(c, s)
  <2>1. PICK s \in {400, 413} : Respond(c, s)
    BY <1>6
  <2>2. /\ "reply" \in Locations /\ Goto(c, "reply")
        /\ answer'[c] = Status(s)
        /\ \A d \in Clients \ {c} : answer'[d] = answer[d]
    BY <1>3, <2>1 DEF Respond, Locations, TypeOK
  <2>3. /\ stageBar' = [stageBar EXCEPT ![c] = "done"]
        /\ responseBar' = [responseBar EXCEPT ![c] = Status(s)]
    BY <1>3, <2>2, BarMoves
  <2> QED
    <3>1. Status(s) \in Errors
      BY ErrorsAre
    <3> HIDE DEF Status
    <3> QED
      BY <1>1, <1>3, <1>4, <2>3, <3>1, ZenonT(30) DEF Store!Refuse
<1> QED
  BY <1>2, <1>5, <1>6

LEMMA ReplyStep ==
  ASSUME StructInv, NEW c \in Clients, Reply(c)
  PROVE  Store!Return(c)
<1>1. TypeOK /\ "idle" \in Locations /\ Goto(c, "idle") /\ pc[c] = "reply"
  BY DEF StructInv, Locations, Reply, At
<1>2. \A d \in Clients \ {c} : answer'[d] = answer[d]
  BY <1>1 DEF Reply, TypeOK
<1>3. /\ stageBar' = [stageBar EXCEPT ![c] = "idle"]
      /\ responseBar' = [responseBar EXCEPT ![c] = NoAnswer]
  BY <1>1, <1>2, BarMoves
<1>4. stageBar[c] = "done"
  BY <1>1, BarNow
<1> QED
  BY <1>3, <1>4 DEF Store!Return, Reply, storage

LEMMA RenameStep ==
  ASSUME StructInv, NEW c \in Clients, Rename(c), pc'[c] = "reply"
  PROVE  Store!ApplyPut(c)
<1>1. /\ pc[c] = "rename" /\ pc \in [Clients -> Locations]
      /\ answer \in [Clients -> Answers]
  BY DEF Rename, At, StructInv, TypeOK
<1>2. /\ files' = [files EXCEPT ![Id(c)] = tmp[c]] /\ Respond(c, 204)
      /\ call' = call
  BY <1>1 DEF Rename, Continue, Goto, locals
<1>3. /\ Goto(c, "reply") /\ answer'[c] = Status(204)
      /\ \A d \in Clients \ {c} : answer'[d] = answer[d]
  BY <1>1, <1>2 DEF Respond
<1>4. Store!Decide(c, answer'[c])
  BY <1>1, <1>2, <1>3, DecideStep
<1>5. Store!Decide(c, Status(204))
  BY <1>3, <1>4
<1>6. call[c].kind = "put" /\ tmp[c] = call[c].env
  BY <1>1 DEF StructInv, HandlerOK, PutLocations
<1>7. Store!Status(204) = Status(204)
  BY DEF Store!Status, Status, Answer
<1> QED
  BY <1>2, <1>5, <1>6, <1>7 DEF Store!ApplyPut, Id

LEMMA DelRmStep ==
  ASSUME StructInv, NEW c \in Clients, DelRm(c), pc'[c] # "reply"
  PROVE  Store!ApplyDelete(c)
<1>1. /\ pc[c] = "delRm" /\ TypeOK /\ pc \in [Clients -> Locations]
      /\ "delAccount" \in Locations
  BY DEF DelRm, At, StructInv, TypeOK, Locations
<1>2. /\ files' = [files EXCEPT ![Id(c)] = None] /\ Goto(c, "delAccount")
      /\ call' = call /\ answer' = answer
  BY <1>1 DEF DelRm, Continue, Respond, Goto, locals
<1>3. /\ stageBar' = [stageBar EXCEPT ![c] = "done"]
      /\ responseBar' = [responseBar EXCEPT ![c] = Status(204)]
  BY <1>1, <1>2, BarMoves
<1>4. stageBar[c] = "pending"
  BY <1>1, BarNow
<1>5. Store!Decide(c, Status(204))
  BY <1>2, <1>3, <1>4 DEF Store!Decide
<1>6. call[c].kind = "delete"
  BY <1>1 DEF StructInv, HandlerOK, DelLocations
<1>7. Store!Status(204) = Status(204)
  BY DEF Store!Status, Status, Answer
<1> QED
  BY <1>2, <1>5, <1>6, <1>7 DEF Store!ApplyDelete, Id

LEMMA DelAccountStep ==
  ASSUME StructInv, NEW c \in Clients, DelAccount(c)
  PROVE  UNCHANGED StoreVarsBar
<1>1. /\ pc[c] = "delAccount" /\ TypeOK /\ "reply" \in Locations
      /\ Goto(c, "reply") /\ UNCHANGED <<files, call>>
      /\ answer'[c] = Status(204)
      /\ \A d \in Clients \ {c} : answer'[d] = answer[d]
  BY DEF DelAccount, At, StructInv, TypeOK, Respond, Locations, storage, locals
<1>2. /\ stageBar' = [stageBar EXCEPT ![c] = "done"]
      /\ responseBar' = [responseBar EXCEPT ![c] = Status(204)]
  BY <1>1, BarMoves
<1>3. stageBar[c] = "done" /\ responseBar[c] = Status(204)
  BY <1>1, BarNow
<1>4. UNCHANGED <<stageBar, responseBar>>
  BY <1>2, <1>3, BarTypes
<1> QED
  BY <1>1, <1>4 DEF StoreVarsBar

LEMMA GetAccessStep ==
  ASSUME StructInv, NEW c \in Clients, GetAccess(c), GetsSee(c),
         pc'[c] = "reply"
  PROVE  Store!ApplyGet(c)
<1>1. /\ pc[c] = "getAccess" /\ pc \in [Clients -> Locations]
      /\ answer \in [Clients -> Answers]
  BY DEF GetAccess, At, StructInv, TypeOK
<1>2. files[Id(c)] = None /\ Respond(c, 404) /\ UNCHANGED <<files, call>>
  <2>1. PICK b \in PathExists(Id(c)) :
          IF b THEN Continue(c, "getOpen") ELSE Respond(c, 404)
    BY DEF GetAccess
  <2>2. b = (files[Id(c)] # None)
    BY <2>1 DEF GetsSee
  <2>3. ~Continue(c, "getOpen")
    BY <1>1 DEF Continue, Goto
  <2> QED
    BY <2>1, <2>2, <2>3 DEF GetAccess, storage, locals
<1>3. /\ Goto(c, "reply") /\ answer'[c] = Status(404)
      /\ \A d \in Clients \ {c} : answer'[d] = answer[d]
  BY <1>1, <1>2 DEF Respond
<1>4. Store!Decide(c, answer'[c])
  BY <1>1, <1>2, <1>3, DecideStep
<1>5. call[c].kind = "get"
  BY <1>1 DEF StructInv, HandlerOK, GetLocations
<1>6. Store!Status(404) = Status(404)
  BY DEF Store!Status, Status, Answer
<1>7. Store!Decide(c, Store!Status(404))
  BY <1>3, <1>4, <1>6
<1> QED
  BY <1>2, <1>5, <1>7 DEF Store!ApplyGet, Id

LEMMA GetPayloadStep ==
  ASSUME StructInv, NEW c \in Clients, GetPayload(c), GetsSee(c)
  PROVE  Store!ApplyGet(c) \/ Store!Fail(c)
<1>1. /\ pc[c] = "getPayload" /\ pc \in [Clients -> Locations]
      /\ answer \in [Clients -> Answers] /\ UNCHANGED <<files, call>>
  BY DEF GetPayload, At, StructInv, TypeOK, storage, locals
<1>2. CASE answer' = [answer EXCEPT ![c] = Cut] /\ Goto(c, "reply")
  <2>1. answer'[c] \in Errors /\ \A d \in Clients \ {c} : answer'[d] = answer[d]
    BY <1>1, <1>2, ErrorsAre
  <2> QED
    BY <1>1, <1>2, <2>1, FailSteps
<1>3. CASE /\ files[Id(c)] # None
           /\ answer' = [answer EXCEPT
                           ![c] = Answer(200, answer[c].headers, files[Id(c)])]
           /\ Goto(c, "reply")
  <2>1. answer[c].headers = files[Id(c)]
    BY DEF GetsSee
  <2>2. /\ answer'[c] = Answer(200, files[Id(c)], files[Id(c)])
        /\ \A d \in Clients \ {c} : answer'[d] = answer[d]
    BY <1>1, <1>3, <2>1
  <2>3. Store!Decide(c, answer'[c])
    BY <1>1, <1>3, <2>2, DecideStep
  <2>4. call[c].kind = "get"
    BY <1>1 DEF StructInv, HandlerOK, GetLocations
  <2>5. Store!Found(files[Id(c)]) = Answer(200, files[Id(c)], files[Id(c)])
    BY DEF Store!Found, Answer
  <2>6. Store!Decide(c, Store!Found(files[Id(c)]))
    BY <2>2, <2>3, <2>5
  <2> QED
    BY <1>1, <1>3, <2>4, <2>6 DEF Store!ApplyGet, Id
<1> QED
  BY <1>2, <1>3 DEF GetPayload

LEMMA ErrorSteps ==
  ASSUME StructInv, NEW c \in Clients,
         \/ Reject(c) \/ Rollback(c)
         \/ pc'[c] = "reply" /\ (MkdirTmp(c) \/ RmTemp(c) \/ GetOpen(c))
         \/ pc'[c] = "reply" /\ DelRm(c)
  PROVE  Store!Fail(c)
<1>1. pc \in [Clients -> Locations]
  BY DEF StructInv, TypeOK
<1>2. pc[c] \notin {"idle", "reply", "delAccount"}
  BY DEF Reject, Rollback, MkdirTmp, RmTemp, GetOpen, DelRm, At
<1>3. UNCHANGED <<files, call>>
  BY <1>1
  DEF Reject, Rollback, MkdirTmp, RmTemp, GetOpen, DelRm, Continue, Respond,
      Goto, storage, locals
<1>4. RespondFailure(c) \/ \E s \in {500, 507} : Respond(c, s)
  BY <1>1
  DEF Reject, Rollback, MkdirTmp, RmTemp, GetOpen, DelRm, Continue, Goto
<1>5. Goto(c, "reply")
  BY <1>4 DEF RespondFailure, Respond
<1>6. \E a \in {Cut, Status(500), Status(507)} :
        answer' = [answer EXCEPT ![c] = a]
  BY <1>4 DEF RespondFailure, Respond
<1>7. answer'[c] \in Errors /\ \A d \in Clients \ {c} : answer'[d] = answer[d]
  BY <1>6, ErrorsAre DEF StructInv, TypeOK
<1> QED
  BY <1>2, <1>3, <1>5, <1>7, FailSteps

LEMMA HandlerStores ==
  ASSUME StructInv, NEW c \in Clients, Accept(c) \/ Handler(c), GetsSee(c)
  PROVE  Store!StoreNext \/ UNCHANGED StoreVarsBar
<1> USE DEF Store!StoreNext
<1>1. CASE Accept(c) \/ Reply(c)
  BY <1>1, AcceptStep, ReplyStep
<1>2. CASE Reject(c) \/ Rollback(c)
  BY <1>2, ErrorSteps
<1>3. CASE PutAccess(c) \/ PutStat(c) \/ Reserve(c) \/ OpenTemp(c)
           \/ Stream(c) \/ MkdirShard(c) \/ DelAccess(c) \/ DelStat(c)
  BY <1>3, QuietSteps
<1>4. CASE MkdirTmp(c) \/ RmTemp(c) \/ GetOpen(c)
  BY <1>4, QuietSteps, ErrorSteps
<1>5. CASE Rename(c)
  BY <1>5, QuietSteps, RenameStep
<1>6. CASE DelRm(c)
  BY <1>6, ErrorSteps, DelRmStep
<1>7. CASE DelAccount(c)
  BY <1>7, DelAccountStep
<1>8. CASE GetAccess(c)
  BY <1>8, QuietSteps, GetAccessStep
<1>9. CASE GetPayload(c)
  BY <1>9, GetPayloadStep
<1> QED
  BY <1>1, <1>2, <1>3, <1>4, <1>5, <1>6, <1>7, <1>8, <1>9
  DEF Handler, Put, GetBlob, Remove

LEMMA ProcessStores ==
  ASSUME Crash \/ WipeTmp \/ WarmUp
  PROVE  Store!StoreNext \/ UNCHANGED StoreVarsBar
<1>1. CASE Crash
  <2>1. /\ stageBar' = [d \in Clients |-> "idle"]
        /\ responseBar' = [d \in Clients |-> NoAnswer]
    BY <1>1 DEF Crash, stageBar, responseBar, At, Removed
  <2> QED
    BY <1>1, <2>1 DEF Crash, Store!StoreNext, Store!LoseConnections
<1>2. CASE WipeTmp \/ WarmUp
  BY <1>2
  DEF WipeTmp, WarmUp, StoreVarsBar, stageBar, responseBar, At, Removed,
      storage, locals
<1> QED
  BY <1>1, <1>2

LEMMA StoreStarts == Init => Store!StoreInit
BY DEF Init, Store!StoreInit, stageBar, responseBar, At, Removed

LEMMA StoreStutters == UNCHANGED vars => UNCHANGED StoreVarsBar
BY DEF vars, StoreVarsBar, stageBar, responseBar, At, Removed

\* Writes are atomic and leave no trace when they fail, whatever other
\* requests do to the same id and whichever calls fail, crashes included.
THEOREM WritesAreAtomic ==
  ASSUME "get" \notin Kinds
  PROVE  Spec => StoreSpec
<1>1. StructInv /\ [Next]_vars => [Store!StoreNext]_StoreVarsBar
  <2> SUFFICES ASSUME StructInv, Next
               PROVE  Store!StoreNext \/ UNCHANGED StoreVarsBar
    BY StoreStutters
  <2>1. CASE Crash \/ WipeTmp \/ WarmUp
    BY <2>1, ProcessStores
  <2>2. CASE \E c \in Clients : Accept(c) \/ Handler(c)
    <3>1. PICK c \in Clients : Accept(c) \/ Handler(c)
      BY <2>2
    <3>2. pc[c] \notin {"getAccess", "getPayload"}
      BY DEF StructInv, HandlerOK, GetLocations, Calls
    <3>3. GetsSee(c)
      BY <3>2 DEF GetsSee, GetAccess, GetPayload, At
    <3> QED
      BY <3>1, <3>3, HandlerStores
  <2> QED
    BY <2>1, <2>2 DEF Next
<1>2. [Store!StoreNext]_StoreVarsBar => [Store!StoreNext]_(Store!storeVars)
  BY DEF StoreVarsBar, Store!storeVars
<1> QED
  BY <1>1, <1>2, StoreStarts, StructInit, StructStep, PTL
  DEF Spec, StoreSpec, Store!StoreSpec

\* While nobody writes the id a GET reads, its header and its payload are
\* those of the same file.
ReaderInv ==
  /\ StructInv /\ NoRequestBesideAWriter
  /\ \A c \in Clients : At(c, "getPayload") => answer[c].headers = files[Id(c)]

LEMMA ReaderStep ==
  ASSUME ReaderInv, Next, NoRequestBesideAWriter'
  PROVE  ReaderInv'
<1>1. StructInv'
  BY StructStep DEF ReaderInv
<1>2. CASE Crash \/ WipeTmp \/ WarmUp
  BY <1>1, <1>2
  DEF Crash, WipeTmp, WarmUp, ReaderInv, At, Id, storage, locals
<1>3. CASE \E c \in Clients : Accept(c) \/ Handler(c)
  <2>1. PICK c \in Clients : Accept(c) \/ Handler(c)
    BY <1>3
  <2>2. OnlyMoves(c)
        /\ \A i \in Ids : files'[i] # files[i] => Writing(c) /\ i = Id(c)
    BY <2>1, StepMoves DEF ReaderInv
  <2>3. ASSUME NEW d \in Clients, d # c, At(d, "getPayload")'
        PROVE  answer'[d].headers = files'[Id(d)']
    <3>1. /\ At(d, "getPayload") /\ Id(d)' = Id(d) /\ answer'[d] = answer[d]
      BY <2>2, <2>3 DEF OnlyMoves, At, Id
    <3>2. Id(d) \in Ids
      BY <3>1, CallsFacts
      DEF ReaderInv, StructInv, HandlerOK, GetLocations, At, Id
    <3>3. files'[Id(d)] = files[Id(d)]
      BY <2>2, <2>3, <3>1, <3>2 DEF ReaderInv, NoRequestBesideAWriter, At
    <3> QED
      BY <3>1, <3>3 DEF ReaderInv
  <2>4. ASSUME At(c, "getPayload")'
        PROVE  answer'[c].headers = files'[Id(c)']
    <3>1. GetOpen(c)
      BY <2>1, <2>4
      DEF ReaderInv, StructInv, TypeOK, Accept, Handler, Put, GetBlob, Remove,
          PutAccess, PutStat, Reject, Reserve, MkdirTmp, OpenTemp, Stream,
          MkdirShard, Rename, RmTemp, Rollback, GetAccess, GetPayload,
          DelAccess, DelStat, DelRm, DelAccount, Reply, At, Goto, Continue,
          Respond, RespondFailure, StreamFails
    <3>2. answer' = [answer EXCEPT ![c] = Answer(0, files[Id(c)], None)]
          /\ UNCHANGED <<files, call>>
      BY <2>4, <3>1
      DEF GetOpen, ReaderInv, StructInv, TypeOK, Respond, Goto, At, storage,
          locals
    <3> QED
      BY <3>2 DEF ReaderInv, StructInv, TypeOK, Answer, Id
  <2> QED
    BY <1>1, <2>3, <2>4 DEF ReaderInv
<1> QED
  BY <1>2, <1>3 DEF Next

\* Whatever fails: a GET answers with one envelope as long as nobody writes the
\* id it reads: it takes a write beside it to tear its answer.
THEOREM GetsAreWhole == ExclusiveSpec => []GetIsOneEnvelope
<1> DEFINE GInv == ReaderInv /\ GetIsOneEnvelope
<1>1. Init => GInv
  BY StructInit DEF Init, ReaderInv, NoRequestBesideAWriter, Writing, At,
     GetIsOneEnvelope, NoAnswer, Status, Answer
<1>2. ReaderInv /\ UNCHANGED vars => ReaderInv'
  BY StructStep DEF vars, ReaderInv, NoRequestBesideAWriter, Writing, At, Id
<1>3. ASSUME GInv, Next PROVE GetIsOneEnvelope'
  <2>1. CASE Crash
    BY <2>1 DEF Crash, GetIsOneEnvelope, NoAnswer, Status, Answer
  <2>2. CASE WipeTmp \/ WarmUp
    BY <1>3, <2>2 DEF WipeTmp, WarmUp, GetIsOneEnvelope
  <2>3. CASE \E c \in Clients : Accept(c) \/ Handler(c)
    <3>1. PICK c \in Clients : Accept(c) \/ Handler(c)
      BY <2>3
    <3>2. \A d \in Clients \ {c} : answer'[d] = answer[d]
      BY <1>3, <3>1, StepMoves DEF ReaderInv, OnlyMoves
    <3>3. answer'[c].status = 200 => answer'[c].headers = answer'[c].payload
      <4>1. \/ answer' = answer
            \/ \E s : answer' = [answer EXCEPT ![c] = Status(s)]
            \/ answer' = [answer EXCEPT ![c] = Cut]
            \/ answer' = [answer EXCEPT ![c] = Answer(0, files[Id(c)], None)]
            \/ GetPayload(c) /\ answer' = [answer EXCEPT ![c] =
                                  Answer(200, answer[c].headers, files[Id(c)])]
        BY <3>1
        DEF Accept, Handler, Put, GetBlob, Remove, PutAccess, PutStat, Reject,
            Reserve, MkdirTmp, OpenTemp, Stream, MkdirShard, Rename, RmTemp,
            Rollback, GetAccess, GetOpen, GetPayload, DelAccess, DelStat, DelRm,
            DelAccount, Reply, Continue, Respond, RespondFailure, StreamFails,
            NoAnswer
      <4>2. answer \in [Clients -> Answers]
        BY <1>3 DEF ReaderInv, StructInv, TypeOK
      <4>3. GetPayload(c) => answer[c].headers = files[Id(c)]
        BY <1>3 DEF ReaderInv, GetPayload
      <4> QED
        BY <1>3, <4>1, <4>2, <4>3 DEF GetIsOneEnvelope, Cut, Status, Answer
    <3> QED
      BY <1>3, <3>2, <3>3 DEF GetIsOneEnvelope
  <2> QED
    BY <1>3, <2>1, <2>2, <2>3 DEF Next
<1>4. GInv /\ [Next /\ NoRequestBesideAWriter']_vars => GInv'
  <2>1. GInv /\ UNCHANGED vars => GInv'
    BY <1>2 DEF vars, GetIsOneEnvelope
  <2> QED
    BY <1>3, <2>1, ReaderStep
<1> QED
  BY <1>1, <1>4, PTL DEF ExclusiveSpec

\* With no other request beside a writer on one id, GETs are atomic as well:
\* the service is the blob store.
THEOREM StoreImplemented ==
  ASSUME "access" \notin Faults
  PROVE  ExclusiveSpec => StoreSpec
<1>1. Init => ReaderInv
  BY StructInit DEF Init, ReaderInv, NoRequestBesideAWriter, Writing, At
<1>2. ReaderInv /\ [Next /\ NoRequestBesideAWriter']_vars => ReaderInv'
  <2>1. ReaderInv /\ UNCHANGED vars => ReaderInv'
    BY StructStep
    DEF vars, ReaderInv, NoRequestBesideAWriter, Writing, At, Id
  <2> QED
    BY <2>1, ReaderStep
<1>3. ReaderInv /\ [Next /\ NoRequestBesideAWriter']_vars
        => [Store!StoreNext]_StoreVarsBar
  <2> SUFFICES ASSUME ReaderInv, Next
               PROVE  Store!StoreNext \/ UNCHANGED StoreVarsBar
    BY StoreStutters
  <2>1. CASE Crash \/ WipeTmp \/ WarmUp
    BY <2>1, ProcessStores
  <2>2. CASE \E c \in Clients : Accept(c) \/ Handler(c)
    <3>1. PICK c \in Clients : Accept(c) \/ Handler(c)
      BY <2>2
    <3>2. GetsSee(c)
      BY DEF GetsSee, ReaderInv, GetPayload, PathExists
    <3> QED
      BY <3>1, <3>2, HandlerStores DEF ReaderInv
  <2> QED
    BY <2>1, <2>2 DEF Next
<1>4. [Store!StoreNext]_StoreVarsBar => [Store!StoreNext]_(Store!storeVars)
  BY DEF StoreVarsBar, Store!storeVars
<1> QED
  BY <1>1, <1>2, <1>3, <1>4, StoreStarts, PTL
  DEF ExclusiveSpec, StoreSpec, Store!StoreSpec
=============================================================================
