------------------------------ MODULE BlobsQuota ------------------------------
(***************************************************************************)
(* BlobsService with a history of what went wrong since the process was    *)
(* started: what the uploads that put could not clean up after still hold, *)
(* and whether any upload failed.  put gives a reservation back only after *)
(* its mkdir of .tmp and, in the catch block, its rm have succeeded; else  *)
(* it stays until a restart counts the disk anew.                          *)
(***************************************************************************)
EXTENDS BlobsService

CONSTANT MaxKept   \* bound on the uploads per start that keep their reservation

ASSUME KeptAssumption == MaxKept \in Nat

VARIABLES keptUploads, keptBytes, keptBlobs,   \* history: what those hold
          unfailed   \* history: no upload failed, nothing crashed

kept == <<keptUploads, keptBytes, keptBlobs>>

KeptInit == Init /\ keptUploads = 0 /\ keptBytes = 0 /\ keptBlobs = 0

\* The put of c throws between its reservation and its rollback.
GivesUp(c) == pc[c] \in {"mkdirTmp", "rmTemp"} /\ pc'[c] = "reply"

NoteKept ==
  \/ /\ phase' = "down"
     /\ keptUploads' = 0 /\ keptBytes' = 0 /\ keptBlobs' = 0
  \/ /\ phase' # "down" /\ keptUploads < MaxKept
     /\ \E c \in Clients :
          /\ GivesUp(c)
          /\ keptUploads' = keptUploads + 1
          /\ keptBytes' = keptBytes + (NewSize(c) - oldSize[c])
          /\ keptBlobs' = IF existed[c] THEN keptBlobs ELSE keptBlobs + 1
  \/ /\ phase' # "down" /\ \A c \in Clients : ~GivesUp(c)
     /\ UNCHANGED kept

KeptSpec == KeptInit /\ [][Next /\ NoteKept]_<<vars, kept>>

Fails == \/ phase = "up" /\ phase' = "down"
         \/ \E c \in Clients : pc'[c] = "rmTemp" \/ GivesUp(c)

QuotaInit == KeptInit /\ unfailed = TRUE
QuotaNext ==
  Next /\ NoteKept /\ OneWriterPerId' /\ unfailed' = (unfailed /\ ~Fails)
QuotaSpec == QuotaInit /\ [][QuotaNext]_<<vars, kept, unfailed>>

-----------------------------------------------------------------------------
(* Properties *)

\* The running totals of a listening service are exact: every byte on disk
\* or reserved by an upload in flight is counted once, through overwrites,
\* failed uploads, deletes and restarts (put, remove, onModuleInit); whatever
\* else they count is what uploads hold that put could not clean up after.
TotalsAccounted ==
  phase = "up" => /\ usageBytes = Total(Accounted) + keptBytes
                  /\ blobCount = Cardinality(AccountedIds) + keptBlobs

\* A temp file belongs to an upload that still needs it, or a cleanup failed;
\* none survives into the next run of the server (put's catch block, the rm
\* of onModuleInit).
TempFilesOwned ==
  /\ \A c \in Clients :
       tmp[c] # None => pc[c] \in {"stream", "mkdirShard", "rename", "rmTemp"}
  /\ phase # "down" /\ keptUploads = 0 => orphans = {}
  /\ phase = "wiped" => orphans = {}

\* As long as no upload fails and nothing crashes, MAX_DISK_QUOTA bounds the
\* bytes on disk between writes: put checks and reserves in one stretch, so
\* concurrent uploads cannot be admitted on the same free bytes.
QuotaKeptUntilFailure == unfailed => DiskQuotaKept
=============================================================================
