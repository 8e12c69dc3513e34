------------------------------- MODULE Upload -------------------------------
(***************************************************************************)
(* One call of Pool.PutStream (drivepool/pool.go): the reader goroutine    *)
(* cuts and places chunks (module Placement), one worker goroutine per     *)
(* chunk uploads it, at most MaxParallel at a time, and when all of them   *)
(* have ended the reader either deletes what was uploaded or records the   *)
(* file in the manifest.                                                   *)
(*                                                                         *)
(* A step is one call to Drive or to the database, or one access to state  *)
(* the goroutines share.  Chunk i (from 1) is chunk i-1 of the code.       *)
(***************************************************************************)
EXTENDS Integers, Sequences, FiniteSetsExt

CONSTANTS Accounts, Quotas, Sizes, ChunkSize, MaxInt64,  \* see Placement
          MaxParallel,   \* p.maxParallelUploads()
          Faults         \* which failures may happen, see AllFaults

(***************************************************************************)
(* read:    io.ReadFull on the caller's reader fails                       *)
(* folder:  EnsureFolder fails without having done anything                *)
(* upload:  Store.Upload fails without having stored anything              *)
(* md5:     Drive stored the chunk and reports another MD5                 *)
(* delete:  Store.Delete fails                                             *)
(* exists:  the manifest already has a file of this name                   *)
(* db:      a manifest statement fails                                     *)
(* lost:    a Drive or manifest call takes effect and reports an error     *)
(* cancel:  ctx is cancelled (the HTTP client went away, or ctrl-C)        *)
(* crash:   the process dies                                               *)
(***************************************************************************)
AllFaults == {"read", "folder", "upload", "md5", "delete", "exists", "db",
              "lost", "cancel", "crash"}

ASSUME MaxParallelAssumption == MaxParallel \in Nat \ {0}
ASSUME FaultsAssumption == Faults \subseteq AllFaults

VARIABLES
  phase, size, quota, single, available, unlimited, remaining, placed,
  pc,           \* where the reader goroutine is
  worker,       \* worker[i]: where the goroutine of chunk i is
  folderLock,   \* folderResolver.mu: the chunk whose worker holds it, or 0
  folders,      \* folderResolver.folders, as the set of accounts it has
  results,      \* chunks whose uploadedChunk is in results
  readErr, firstErr,   \* set or not
  todo,         \* chunks the cleanup or AddChunk loop has still to visit
  vf,           \* the virtual file's row: "none", "incomplete", "complete"
  rows,         \* chunks with a row in the manifest
  remote,       \* chunks stored on Drive, each on placed[i].acc
  driveFolders, \* number of folders of this file on each account's Drive
  cancelled,    \* ctx.Done() is closed
  ret,          \* "none", "ok" or "error": what PutStream returned
  excused       \* history: chunks on Drive the call cannot know of or delete,
                \*   because an Upload or a Delete reported an error

P == INSTANCE Placement

(* What Placement asks of the constants it is given.                       *)
ASSUME ChunkSizeAssumption == ChunkSize \in Nat \ {0}
ASSUME SizesAssumption == Sizes \subseteq Nat
ASSUME QuotasAssumption == Quotas \subseteq P!QuotaAnswer
ASSUME MaxInt64Assumption ==
  MaxInt64 \in Nat /\ \A q \in Quotas : q.limit <= MaxInt64
ASSUME NoAccountAssumption == P!NoAccount \notin Accounts

placeVars == <<phase, size, quota, single, available, unlimited, remaining, placed>>
readerVars == <<pc, readErr, todo, ret>>
workerVars == <<worker, folderLock, folders, results, firstErr>>
driveVars == <<remote, driveFolders, excused>>
manifestVars == <<vf, rows>>
vars == <<placeVars, readerVars, workerVars, driveVars, manifestVars,
          cancelled>>

-----------------------------------------------------------------------------
Init ==
  /\ P!Init
  /\ pc = "plan"
  /\ worker = <<>>
  /\ folderLock = 0
  /\ folders = {}
  /\ results = {}
  /\ readErr = FALSE
  /\ firstErr = FALSE
  /\ todo = {}
  /\ vf = "none"
  /\ rows = {}
  /\ remote = {}
  /\ driveFolders = [a \in Accounts |-> 0]
  /\ excused = {}
  /\ cancelled = FALSE
  /\ ret = "none"

Alive == pc # "crashed"

(* A call fails when the fault is enabled, or when its context is gone.    *)
CanFail(f) == f \in Faults \/ cancelled

(* A call may take effect and still report an error: the answer was lost,  *)
(* or the context was cancelled while the request was on its way.          *)
CanLose == "lost" \in Faults \/ cancelled

Return(r) == pc' = "returned" /\ ret' = r

-----------------------------------------------------------------------------
(* The reader: placement and the read loop.                                *)

Plan ==
  /\ pc = "plan"
  /\ P!PlanSingle \/ P!PlanTracker
  /\ pc' = "read"
  /\ UNCHANGED <<readErr, todo, ret, workerVars, driveVars, manifestVars, cancelled>>

PlanFails ==
  /\ pc = "plan"
  /\ P!PlanFails
  /\ Return("error")
  /\ UNCHANGED <<readErr, todo, workerVars, driveVars, manifestVars, cancelled>>

(* Read one piece and choose its account.                                  *)
ReadChunk ==
  /\ pc = "read"
  /\ \E a \in Accounts : P!Place(a)
  /\ pc' = "acquire"
  /\ UNCHANGED <<readErr, todo, ret, workerVars, driveVars, manifestVars, cancelled>>

(* Mutant of ReadFails: the piece that could not be read is skipped.       *)
ReadFailsSkips ==
  /\ pc = "read"
  /\ P!More
  /\ P!NextLen > 0
  /\ CanFail("read")
  /\ remaining' = remaining - P!NextLen
  /\ UNCHANGED <<phase, size, quota, single, available, unlimited, placed, readerVars,
                 workerVars, driveVars, manifestVars, cancelled>>

(* io.ReadFull fails: leave the loop.                                      *)
ReadFails ==
  /\ pc = "read"
  /\ P!More
  /\ P!NextLen > 0
  /\ CanFail("read")
  /\ readErr' = TRUE
  /\ pc' = "wait"
  /\ UNCHANGED <<placeVars, todo, ret, workerVars, driveVars, manifestVars, cancelled>>

(* tracker.reserve fails: leave the loop.                                  *)
ReserveFails ==
  /\ pc = "read"
  /\ P!Refuse
  /\ readErr' = TRUE
  /\ pc' = "wait"
  /\ UNCHANGED <<todo, ret, workerVars, driveVars, manifestVars, cancelled>>

LoopEnds ==
  /\ pc = "read"
  /\ P!AllPlaced
  /\ pc' = "wait"
  /\ UNCHANGED <<readErr, todo, ret, workerVars, driveVars, manifestVars, cancelled>>

Running == {i \in 1..Len(worker) : worker[i] # "done"}

(* Mutant of HasSlot: the semaphore admits one worker too many.            *)
HasSlotOneMore == Cardinality(Running) <= MaxParallel

HasSlot == Cardinality(Running) < MaxParallel

(* sem <- struct{}{}, then go func.                                        *)
Spawn ==
  /\ pc = "acquire"
  /\ HasSlot
  /\ worker' = Append(worker, "resolve")
  /\ pc' = "read"
  /\ UNCHANGED <<placeVars, readErr, todo, ret, folderLock, folders, results, firstErr,
                 driveVars, manifestVars, cancelled>>

-----------------------------------------------------------------------------
(* The worker of chunk i: folderResolver.resolve, Upload, then its result. *)

Acc(i) == placed[i].acc

Go(i, s) == worker' = [worker EXCEPT ![i] = s]

(* Mutant of Resolve: folders is checked without holding the mutex.        *)
ResolveUnlocked(i) ==
  /\ worker[i] = "resolve"
  /\ IF Acc(i) \in folders
       THEN Go(i, "upload") /\ UNCHANGED folderLock
       ELSE Go(i, "list") /\ folderLock' = i
  /\ UNCHANGED <<folders, results, firstErr, driveVars>>

(* Take the mutex; a folder already in the map is returned at once.        *)
Resolve(i) ==
  /\ worker[i] = "resolve"
  /\ folderLock = 0
  /\ IF Acc(i) \in folders
       THEN Go(i, "upload") /\ UNCHANGED folderLock
       ELSE Go(i, "list") /\ folderLock' = i
  /\ UNCHANGED <<folders, results, firstErr, driveVars>>

(* EnsureFolder lists the folders of this name ...                         *)
ListFolder(i) ==
  /\ worker[i] = "list"
  /\ ~cancelled
  /\ IF driveFolders[Acc(i)] > 0
       THEN Go(i, "upload") /\ folderLock' = 0 /\ folders' = folders \cup {Acc(i)}
       ELSE Go(i, "mkdir") /\ UNCHANGED <<folderLock, folders>>
  /\ UNCHANGED <<results, firstErr, driveVars>>

(* ... and creates one when there is none.                                 *)
CreateFolder(i) ==
  /\ worker[i] = "mkdir"
  /\ ~cancelled
  /\ driveFolders' = [driveFolders EXCEPT ![Acc(i)] = @ + 1]
  /\ folders' = folders \cup {Acc(i)}
  /\ folderLock' = 0
  /\ Go(i, "upload")
  /\ UNCHANGED <<results, firstErr, remote, excused>>

(* Mutant of FolderFails: the early return forgets the mutex.              *)
FolderFailsLocked(i) ==
  /\ worker[i] \in {"list", "mkdir"}
  /\ CanFail("folder")
  /\ Go(i, "failed")
  /\ UNCHANGED <<folderLock, folders, results, firstErr, driveVars>>

FolderFails(i) ==
  /\ worker[i] \in {"list", "mkdir"}
  /\ CanFail("folder")
  /\ folderLock' = 0
  /\ Go(i, "failed")
  /\ UNCHANGED <<folders, results, firstErr, driveVars>>

CreateFolderLost(i) ==
  /\ worker[i] = "mkdir"
  /\ CanLose
  /\ driveFolders' = [driveFolders EXCEPT ![Acc(i)] = @ + 1]
  /\ folderLock' = 0
  /\ Go(i, "failed")
  /\ UNCHANGED <<folders, results, firstErr, remote, excused>>

UploadChunk(i) ==
  /\ worker[i] = "upload"
  /\ ~cancelled
  /\ remote' = remote \cup {i}
  /\ Go(i, "uploaded")
  /\ UNCHANGED <<folderLock, folders, results, firstErr, driveFolders, excused>>

UploadFails(i) ==
  /\ worker[i] = "upload"
  /\ CanFail("upload")
  /\ Go(i, "failed")
  /\ UNCHANGED <<folderLock, folders, results, firstErr, driveVars>>

(* The chunk is stored, but Upload reports an error, or the MD5 differs    *)
(* and uploadChunk does.                                                   *)
UploadStoredButFails(i) ==
  /\ worker[i] = "upload"
  /\ CanLose \/ "md5" \in Faults
  /\ remote' = remote \cup {i}
  /\ excused' = excused \cup {i}
  /\ Go(i, "failed")
  /\ UNCHANGED <<folderLock, folders, results, firstErr, driveFolders>>

(* Mutant of Report: a failed chunk also leaves its entry in results.      *)
ReportFailureAsResult(i) ==
  /\ worker[i] \in {"uploaded", "failed"}
  /\ results' = results \cup {i}
  /\ UNCHANGED firstErr
  /\ Go(i, "done")
  /\ UNCHANGED <<folderLock, folders, driveVars>>

(* Under mu: results[idx] or firstErr.  Then <-sem and wg.Done.            *)
Report(i) ==
  /\ worker[i] \in {"uploaded", "failed"}
  /\ IF worker[i] = "uploaded"
       THEN results' = results \cup {i} /\ UNCHANGED firstErr
       ELSE firstErr' = TRUE /\ UNCHANGED results
  /\ Go(i, "done")
  /\ UNCHANGED <<folderLock, folders, driveVars>>

Work(i) ==
  /\ Alive
  /\ \/ Resolve(i)
     \/ ListFolder(i)
     \/ CreateFolder(i)
     \/ FolderFails(i)
     \/ CreateFolderLost(i)
     \/ UploadChunk(i)
     \/ UploadFails(i)
     \/ UploadStoredButFails(i)
     \/ Report(i)
  /\ UNCHANGED <<placeVars, readerVars, manifestVars, cancelled>>

-----------------------------------------------------------------------------
(* The reader again: wg.Wait, then cleanup or recording.                   *)

(* Mutants of WaitAll: a worker's error is not looked at; the reader goes  *)
(* on without wg.Wait when the read failed.                                *)
WaitAllIgnoringErrors ==
  /\ pc = "wait"
  /\ Running = {}
  /\ pc' = IF readErr THEN "cleanup" ELSE "create"
  /\ todo' = results
  /\ UNCHANGED <<placeVars, readErr, ret, workerVars, driveVars, manifestVars, cancelled>>
WaitAllNotWaiting ==
  /\ pc = "wait"
  /\ readErr \/ Running = {}
  /\ pc' = IF readErr \/ firstErr THEN "cleanup" ELSE "create"
  /\ todo' = results
  /\ UNCHANGED <<placeVars, readErr, ret, workerVars, driveVars, manifestVars, cancelled>>

WaitAll ==
  /\ pc = "wait"
  /\ Running = {}
  /\ pc' = IF readErr \/ firstErr THEN "cleanup" ELSE "create"
  /\ todo' = results
  /\ UNCHANGED <<placeVars, readErr, ret, workerVars, driveVars, manifestVars, cancelled>>

(* cleanupChunks: one Delete per uploaded chunk, in order; an error is     *)
(* logged and the loop goes on.                                            *)
CleanupChunk ==
  /\ pc = "cleanup"
  /\ todo # {}
  /\ todo' = todo \ {Min(todo)}
  /\ \/ ~cancelled /\ remote' = remote \ {Min(todo)} /\ UNCHANGED excused
     \/ CanFail("delete") /\ UNCHANGED remote /\ excused' = excused \cup {Min(todo)}
  /\ UNCHANGED <<placeVars, pc, readErr, ret, workerVars, driveFolders, manifestVars,
                 cancelled>>

CleanupEnds ==
  /\ pc = "cleanup"
  /\ todo = {}
  /\ Return("error")
  /\ UNCHANGED <<placeVars, readErr, todo, workerVars, driveVars, manifestVars, cancelled>>

(* CreateVirtualFile, with status incomplete.                              *)
CreateVirtualFile ==
  /\ pc = "create"
  /\ ~cancelled
  /\ vf' = "incomplete"
  /\ pc' = "record"
  /\ todo' = results
  /\ UNCHANGED <<placeVars, readErr, ret, workerVars, driveVars, rows, cancelled>>

(* Mutant of CreateVirtualFileFails: returned without cleanup.             *)
CreateVirtualFileFailsAtOnce ==
  /\ pc = "create"
  /\ CanFail("db") \/ "exists" \in Faults
  /\ Return("error")
  /\ UNCHANGED <<placeVars, readErr, todo, workerVars, driveVars, manifestVars, cancelled>>

(* The insert fails, or the name is taken: the chunks are cleaned up.      *)
CreateVirtualFileFails ==
  /\ pc = "create"
  /\ \/ (CanFail("db") \/ "exists" \in Faults) /\ UNCHANGED vf
     \/ CanLose /\ vf' = "incomplete"
  /\ pc' = "cleanup"
  /\ todo' = results
  /\ UNCHANGED <<placeVars, readErr, ret, workerVars, driveVars, rows, cancelled>>

(* Mutant of AddChunk: the index is off by one.                            *)
AddChunkNextIndex ==
  /\ pc = "record"
  /\ todo # {}
  /\ ~cancelled
  /\ rows' = rows \cup {Min(todo) + 1}
  /\ todo' = todo \ {Min(todo)}
  /\ UNCHANGED <<placeVars, pc, readErr, ret, workerVars, driveVars, vf, cancelled>>

(* One AddChunk per uploaded chunk, in order.                              *)
AddChunk ==
  /\ pc = "record"
  /\ todo # {}
  /\ ~cancelled
  /\ rows' = rows \cup {Min(todo)}
  /\ todo' = todo \ {Min(todo)}
  /\ UNCHANGED <<placeVars, pc, readErr, ret, workerVars, driveVars, vf, cancelled>>

(* A failed AddChunk returns at once: no cleanup, no change of status.     *)
AddChunkFails ==
  /\ pc = "record"
  /\ todo # {}
  /\ \/ CanFail("db") /\ UNCHANGED rows
     \/ CanLose /\ rows' = rows \cup {Min(todo)}
  /\ Return("error")
  /\ UNCHANGED <<placeVars, readErr, todo, workerVars, driveVars, vf, cancelled>>

SetComplete ==
  /\ pc = "record"
  /\ todo = {}
  /\ ~cancelled
  /\ vf' = "complete"
  /\ Return("ok")
  /\ UNCHANGED <<placeVars, readErr, todo, workerVars, driveVars, rows, cancelled>>

SetCompleteFails ==
  /\ pc = "record"
  /\ todo = {}
  /\ \/ CanFail("db") /\ UNCHANGED vf
     \/ CanLose /\ vf' = "complete"
  /\ Return("error")
  /\ UNCHANGED <<placeVars, readErr, todo, workerVars, driveVars, rows, cancelled>>

-----------------------------------------------------------------------------
Ended == pc \in {"returned", "crashed"}

Cancel ==
  /\ "cancel" \in Faults
  /\ ~Ended
  /\ ~cancelled
  /\ cancelled' = TRUE
  /\ UNCHANGED <<placeVars, readerVars, workerVars, driveVars, manifestVars>>

Crash ==
  /\ "crash" \in Faults
  /\ ~Ended
  /\ pc' = "crashed"
  /\ UNCHANGED <<placeVars, readErr, todo, ret, workerVars, driveVars, manifestVars,
                 cancelled>>

Reader ==
  \/ Plan \/ PlanFails
  \/ ReadChunk \/ ReadFails \/ ReserveFails \/ LoopEnds \/ Spawn
  \/ WaitAll
  \/ CleanupChunk \/ CleanupEnds
  \/ CreateVirtualFile \/ CreateVirtualFileFails
  \/ AddChunk \/ AddChunkFails
  \/ SetComplete \/ SetCompleteFails

Stopped == Ended /\ UNCHANGED vars

Next ==
  \/ Reader
  \/ \E i \in 1..Len(worker) : Work(i)
  \/ Cancel
  \/ Crash
  \/ Stopped

Spec == Init /\ [][Next]_vars

(* Goroutines are scheduled, and Drive and the database answer each call   *)
(* with a result or an error.  Nothing is assumed of Cancel and Crash.     *)
Workers == \E i \in 1..Len(worker) : Work(i)
FairSpec == Spec /\ WF_vars(Reader) /\ WF_vars(Workers)

-----------------------------------------------------------------------------
Chunks == 1..Len(placed)

WorkerState == {"resolve", "list", "mkdir", "upload", "uploaded", "failed", "done"}

TypeOK ==
  /\ P!TypeOK
  /\ pc \in {"plan", "read", "acquire", "wait", "cleanup", "create", "record",
             "returned", "crashed"}
  /\ worker \in Seq(WorkerState)
  /\ Len(worker) <= Len(placed)
  /\ folderLock \in 0..Len(worker)
  /\ folders \subseteq Accounts
  /\ results \subseteq Chunks
  /\ readErr \in BOOLEAN
  /\ firstErr \in BOOLEAN
  /\ todo \subseteq results
  /\ vf \in {"none", "incomplete", "complete"}
  /\ rows \subseteq Chunks
  /\ remote \subseteq Chunks
  /\ driveFolders \in [Accounts -> Nat]
  /\ excused \subseteq Chunks
  /\ cancelled \in BOOLEAN
  /\ ret \in {"none", "ok", "error"}

(* Every chunk of the declared size has a row and is stored on its         *)
(* account; a caller told "ok" has such a file.                            *)
CompleteMeansStored ==
  /\ vf = "complete" => rows = 1..P!NumChunks /\ rows \subseteq remote
  /\ ret = "ok" => vf = "complete"

(***************************************************************************)
(* A file the manifest calls complete is whole, whatever failed on the way *)
(* and even if the process died: every chunk has a row and is on Drive,    *)
(* and together the chunks hold as many bytes as the caller declared.  A   *)
(* caller told "ok" has such a file.                                       *)
(***************************************************************************)
CompleteMeansWhole ==
  /\ CompleteMeansStored
  /\ vf = "complete" => P!BytesPlaced = size

(***************************************************************************)
(* A chunk's row never points to nothing: at no point of the call does the *)
(* manifest name a chunk that is not (or no longer) on Drive.              *)
(***************************************************************************)
RowsPointSomewhere == rows \subseteq remote

(***************************************************************************)
(* A read, placement or upload error leaves no trace in the manifest.      *)
(***************************************************************************)
FailureLeavesNoRecord == readErr \/ firstErr => vf = "none" /\ rows = {}

(***************************************************************************)
(* cleanupChunks: "a partial failure doesn't leave orphaned ciphertext on  *)
(* some accounts with no manifest row pointing to it".  When PutStream has *)
(* returned an error, every chunk still on Drive has a row.                *)
(***************************************************************************)
NoOrphans == pc = "returned" => remote \subseteq rows

(***************************************************************************)
(* What cleanupChunks does achieve, whichever chunks fail in whichever     *)
(* order: a chunk left on Drive without a row is one whose Upload or whose *)
(* Delete was answered with an error, or one of a file whose recording was *)
(* begun and failed.                                                       *)
(***************************************************************************)
OrphansExcused ==
  pc = "returned" /\ vf = "none" => remote \subseteq rows \cup excused

(***************************************************************************)
(* folderResolver: a call never leaves two folders of the same name on one *)
(* account, also when an answer of Drive is lost or a worker fails.        *)
(***************************************************************************)
OneFolderPerAccount == \A a \in Accounts : driveFolders[a] <= 1

(***************************************************************************)
(* Memory: at most MaxParallel workers hold a chunk, and the reader one    *)
(* more, however many chunks the file has.                                 *)
(***************************************************************************)
BuffersBounded ==
  Len(placed) - Cardinality({i \in 1..Len(worker) : worker[i] = "done"})
    <= MaxParallel + 1

(***************************************************************************)
(* A caller that has its answer may reuse the reader and the name: once    *)
(* PutStream has returned no goroutine of it changes Drive any more.       *)
(***************************************************************************)
QuietAfterReturn == [][pc = "returned" => UNCHANGED driveVars]_vars

(***************************************************************************)
(* Deadlock.  The reader can only block on the semaphore or in wg.Wait, a  *)
(* worker only on the folder mutex: whenever the reader is blocked, some   *)
(* worker is running and not blocked itself.                               *)
(***************************************************************************)
ReaderBlocked ==
  \/ pc = "acquire" /\ ~HasSlot
  \/ pc = "wait" /\ Running # {}

WorkerBlocked(i) == worker[i] = "resolve" /\ folderLock # 0

NeverStuck == ReaderBlocked => \E i \in Running : ~WorkerBlocked(i)

(***************************************************************************)
(* PutStream returns: the semaphore, the folder mutex and wg.Wait never    *)
(* leave reader and workers waiting for each other.                        *)
(***************************************************************************)
Terminates == <>Ended

(***************************************************************************)
(* The reader goroutine follows Placement, whatever the workers do.        *)
(***************************************************************************)
PlacementSpec == P!Spec
=============================================================================
