--------------------------------- MODULE Media ---------------------------------
(***************************************************************************)
(* The media service, services/media/main.py.  A file is stored under the  *)
(* hash of its bytes, so two users' uploads of it are one file with one    *)
(* row, the first one's.  Files are written and removed in place, at once; *)
(* rows and quotas go with the transaction (RelayLog).                     *)
(***************************************************************************)
EXTENDS Integers, FiniteSets

CONSTANTS
  Files,
  Owners,
  MediaTraffic,    \* bound: the requests clients may send
  MaxBytes,        \* an owner's quota, in files
  MaxMediaRequests, \* bound: requests started in one behaviour
  MaxMediaCrashes  \* bound: crashes of the service

Nobody == "nobody"

MediaRequest ==
  [op : {"upload", "delete"}, file : Files, owner : Owners, id : Nat]

ASSUME MediaAssumption ==
  /\ MediaTraffic \subseteq MediaRequest /\ Nobody \notin Owners
  /\ {MaxBytes, MaxMediaRequests, MaxMediaCrashes} \subseteq Nat

VARIABLES
  mediaDb,    \* media, as the owner of each file, and quotas
  mediaDisk,
  files,      \* the files in the file system
  mediaPc,    \* mediaPc[r]: what request r awaits, or its answer
  mediaCrashes,
  tangled     \* history: requests that overlapped one of their file or their
              \* owner, or that a crash cut off

mediaVars == <<mediaDb, mediaDisk, files, mediaPc, mediaCrashes, tangled>>

MediaTables == [owner : [Files -> Owners \cup {Nobody}], used : [Owners -> Int]]

MediaSteps == {"upload_quota", "upload_save", "upload_insert", "upload_count",
               "delete_files", "delete_count", "delete_row", "commit"}

MediaTypeOK ==
  /\ mediaDb \in MediaTables
  /\ mediaDisk \in MediaTables
  /\ files \subseteq Files
  /\ mediaPc \in [MediaTraffic -> MediaSteps \cup {"idle", "ok", "exists",
                                                  "no"}]
  /\ mediaCrashes \in 0 .. MaxMediaCrashes
  /\ tangled \subseteq MediaTraffic

MediaInit ==
  /\ mediaDb = [owner |-> [f \in Files |-> Nobody],
                used  |-> [o \in Owners |-> 0]]
  /\ mediaDisk = mediaDb
  /\ files = {}
  /\ mediaPc = [r \in MediaTraffic |-> "idle"]
  /\ mediaCrashes = 0
  /\ tangled = {}

-----------------------------------------------------------------------------
Pending(r) == mediaPc[r] \in MediaSteps

Alike(q, r) == q.file = r.file \/ q.owner = r.owner

MediaStart(r, op, to) ==
  LET others == {q \in MediaTraffic : Pending(q) /\ Alike(q, r)} IN
    /\ r.op = op
    /\ mediaPc[r] = "idle"
    /\ Cardinality({q \in MediaTraffic : mediaPc[q] # "idle"})
         < MaxMediaRequests
    /\ mediaPc' = [mediaPc EXCEPT ![r] = to]
    /\ tangled' = IF others = {} THEN tangled ELSE tangled \cup others \cup {r}
    /\ UNCHANGED <<mediaDb, mediaDisk, files, mediaCrashes>>

MediaGo(r, from, to) ==
  /\ mediaPc[r] = from
  /\ mediaPc' = [mediaPc EXCEPT ![r] = to]
  /\ UNCHANGED <<mediaCrashes, tangled>>

\* upload_media: is the file there already?
UploadFind(r) ==
  MediaStart(r, "upload",
             IF mediaDb.owner[r.file] = Nobody THEN "upload_quota"
                                               ELSE "exists")

UploadQuota(r) ==
  /\ MediaGo(r, "upload_quota",
             IF mediaDb.used[r.owner] < MaxBytes THEN "upload_save" ELSE "no")
  /\ UNCHANGED <<mediaDb, mediaDisk, files>>

\* The file, and its thumbnail
UploadSave(r) ==
  /\ MediaGo(r, "upload_save", "upload_insert")
  /\ files' = files \cup {r.file}
  /\ UNCHANGED <<mediaDb, mediaDisk>>

\* cid is the key: the second of two uploads that found nothing fails here,
\* with its file written.
UploadInsert(r) ==
  IF mediaDb.owner[r.file] = Nobody
    THEN /\ MediaGo(r, "upload_insert", "upload_count")
         /\ mediaDb' = [mediaDb EXCEPT !.owner[r.file] = r.owner]
         /\ UNCHANGED <<mediaDisk, files>>
    ELSE /\ MediaGo(r, "upload_insert", "no")
         /\ UNCHANGED <<mediaDb, mediaDisk, files>>

\* Mistake: a parameter too few, so the file is bound to used_bytes.
UploadCountUnbound(r) ==
  /\ MediaGo(r, "upload_count", "commit")
  /\ mediaDb' = [mediaDb EXCEPT !.used[r.owner] = r.file]
  /\ UNCHANGED <<mediaDisk, files>>

UploadCount(r) ==
  /\ MediaGo(r, "upload_count", "commit")
  /\ mediaDb' = [mediaDb EXCEPT !.used[r.owner] = @ + 1]
  /\ UNCHANGED <<mediaDisk, files>>

\* Mistake: who owns the file is not asked.
DeleteAny(r) ==
  MediaStart(r, "delete",
             IF mediaDb.owner[r.file] # Nobody THEN "delete_files" ELSE "no")

\* delete_media
DeleteFind(r) ==
  MediaStart(r, "delete",
             IF mediaDb.owner[r.file] = r.owner THEN "delete_files" ELSE "no")

DeleteFiles(r) ==
  /\ MediaGo(r, "delete_files", "delete_count")
  /\ files' = files \ {r.file}
  /\ UNCHANGED <<mediaDb, mediaDisk>>

DeleteCount(r) ==
  /\ MediaGo(r, "delete_count", "delete_row")
  /\ mediaDb' = [mediaDb EXCEPT !.used[r.owner] = @ - 1]
  /\ UNCHANGED <<mediaDisk, files>>

DeleteRow(r) ==
  /\ MediaGo(r, "delete_row", "commit")
  /\ mediaDb' = [mediaDb EXCEPT !.owner[r.file] = Nobody]
  /\ UNCHANGED <<mediaDisk, files>>

MediaCommit(r) ==
  /\ MediaGo(r, "commit", "ok")
  /\ mediaDisk' = mediaDb
  /\ UNCHANGED <<mediaDb, files>>

MediaCrash ==
  /\ mediaCrashes < MaxMediaCrashes
  /\ mediaCrashes' = mediaCrashes + 1
  /\ mediaDb' = mediaDisk
  /\ mediaPc' = [r \in MediaTraffic |-> IF Pending(r) THEN "no" ELSE mediaPc[r]]
  /\ tangled' = tangled \cup {r \in MediaTraffic : Pending(r)}
  /\ UNCHANGED <<mediaDisk, files>>

MediaNext ==
  \/ \E r \in MediaTraffic :
       \/ UploadFind(r) \/ UploadQuota(r) \/ UploadSave(r)
       \/ UploadInsert(r) \/ UploadCount(r)
       \/ DeleteFind(r) \/ DeleteFiles(r) \/ DeleteCount(r) \/ DeleteRow(r)
       \/ MediaCommit(r)
  \/ MediaCrash

-----------------------------------------------------------------------------
(***************************************************************************)
(* Properties.                                                             *)
(***************************************************************************)

Calm(r) == ~Pending(r) /\ r \notin tangled

\* A file none of whose requests overlapped another or was cut off is in the
\* file system exactly if it has a row, committed or not.
RowsHaveFiles ==
  \A f \in Files : (\A r \in MediaTraffic : r.file = f => Calm(r)) =>
    \A tables \in {mediaDb, mediaDisk} :
      tables.owner[f] # Nobody <=> f \in files

\* An owner's used bytes are those of the files that are theirs.
QuotasCount ==
  \A o \in Owners : (\A r \in MediaTraffic : r.owner = o => Calm(r)) =>
    mediaDb.used[o] = Cardinality({f \in Files : mediaDb.owner[f] = o})

\* Rows, files and quotas agree wherever requests did not get in each other's
\* way.
MediaIsConsistent == RowsHaveFiles /\ QuotasCount
=============================================================================
