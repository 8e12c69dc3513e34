---------------------------- MODULE UploadProofs ----------------------------
(***************************************************************************)
(* Proofs about Upload for every set of accounts, every quota, file size,  *)
(* chunk size and number of parallel uploads, and every set of faults.     *)
(***************************************************************************)
EXTENDS Upload, SequenceTheorems, FiniteSetTheorems, WellFoundedInduction, TLAPS

PP == INSTANCE PlacementProofs

USE DEF placeVars, readerVars, workerVars, driveVars, manifestVars

-----------------------------------------------------------------------------
(* Facts about the operators the model is built from.                      *)

(***************************************************************************)
(* The loops over uploaded chunks visit the smallest index first: there is *)
(* one, whenever a chunk is left.                                          *)
(***************************************************************************)
LEMMA MinInSet ==
  ASSUME NEW S, S \subseteq Nat, S # {}
  PROVE  Min(S) \in S
<1> DEFINE Less == {p \in Nat \X Nat : p[1] < p[2]}
<1>1. IsWellFoundedOn(Less, Nat)
  BY NatLessThanWellFounded DEF OpToRel
<1>2. \E x \in S : \A y \in S : ~(<<y, x>> \in Less)
  <2> HIDE DEF Less
  <2> QED BY <1>1, WFMin
<1>3. \E x \in S : \A y \in S : x <= y
  <2>1. PICK x \in S : \A y \in S : ~(<<y, x>> \in Less)
    BY <1>2
  <2>2. \A y \in S : x \in Nat /\ y \in Nat /\ ~(y < x)
    BY <2>1
  <2> QED
    BY <2>2
<1> QED
  BY <1>3 DEF Min

(***************************************************************************)
(* A worker that moves on leaves the other workers where they are.         *)
(***************************************************************************)
LEMMA GoEffect ==
  ASSUME worker \in Seq(WorkerState), NEW i \in 1..Len(worker),
         NEW s \in WorkerState, Go(i, s)
  PROVE  /\ worker' \in Seq(WorkerState)
         /\ Len(worker') = Len(worker)
         /\ worker'[i] = s
         /\ \A j \in 1..Len(worker) : j # i => worker'[j] = worker[j]
BY ExceptSeq DEF Go

-----------------------------------------------------------------------------
(* The reader goroutine and Placement.                                     *)

(***************************************************************************)
(* Every step of PutStream is a step of Placement or leaves the placement  *)
(* alone: the property PlacementSpec, for every instance.                  *)
(***************************************************************************)
THEOREM UploadImplementsPlacement == Spec => PlacementSpec
<1>1. Init => P!Init
  BY DEF Init
<1>2. [Next]_vars => [P!Next]_(P!placementVars)
  <2> SUFFICES ASSUME [Next]_vars PROVE [P!Next]_(P!placementVars)
    OBVIOUS
  <2>1. CASE Plan \/ PlanFails \/ ReadChunk \/ ReserveFails \/ LoopEnds
    BY <2>1 DEF Plan, PlanFails, ReadChunk, ReserveFails, LoopEnds, P!Next
  <2>2. CASE UNCHANGED placeVars
    BY <2>2 DEF P!placementVars
  <2>3. CASE ReadFails \/ Spawn \/ WaitAll \/ CleanupChunk \/ CleanupEnds
    BY <2>2, <2>3 DEF ReadFails, Spawn, WaitAll, CleanupChunk, CleanupEnds
  <2>4. CASE CreateVirtualFile \/ CreateVirtualFileFails \/ AddChunk \/ AddChunkFails
               \/ SetComplete \/ SetCompleteFails
    BY <2>2, <2>4 DEF CreateVirtualFile, CreateVirtualFileFails, AddChunk, AddChunkFails,
                      SetComplete, SetCompleteFails
  <2>5. CASE (\E i \in 1..Len(worker) : Work(i)) \/ Cancel \/ Crash
    BY <2>2, <2>5 DEF Work, Cancel, Crash
  <2>6. CASE Stopped \/ UNCHANGED vars
    BY <2>2, <2>6 DEF Stopped, vars
  <2> QED
    BY <2>1, <2>3, <2>4, <2>5, <2>6 DEF Next, Reader
<1> QED
  BY <1>1, <1>2, PTL DEF Spec, PlacementSpec, P!Spec

(***************************************************************************)
(* What was proved about Placement holds inside PutStream.                 *)
(***************************************************************************)
LEMMA PlacementSpecHere == Spec => PP!Spec
<1>1. P!Init => PP!Init
  BY DEF P!Init, PP!Init, P!NoAccount, PP!NoAccount
<1>2. [P!Next]_(P!placementVars) => [PP!Next]_(PP!placementVars)
  BY DEF P!Next, PP!Next, P!placementVars, PP!placementVars, P!PlanSingle, PP!PlanSingle,
         P!PlanTracker, PP!PlanTracker, P!PlanFails, PP!PlanFails, P!Place, PP!Place,
         P!Refuse, PP!Refuse, P!AllPlaced, PP!AllPlaced, P!Finished, PP!Finished,
         P!NumChunks, PP!NumChunks, P!PickAccount, PP!PickAccount, P!Healthy, PP!Healthy,
         P!Available, PP!Available, P!More, PP!More, P!NextLen, PP!NextLen,
         P!Reservable, PP!Reservable, P!BudgetsSpent, PP!BudgetsSpent, P!Deduct, PP!Deduct,
         P!NoAccount, PP!NoAccount
<1> QED
  BY UploadImplementsPlacement, <1>1, <1>2, PTL DEF PlacementSpec, P!Spec, PP!Spec

LEMMA PlacementTypeOKHere == Spec => []P!TypeOK
<1>1. PP!TypeOK => P!TypeOK
  BY DEF PP!TypeOK, P!TypeOK, P!NoAccount, PP!NoAccount, P!Chunk, PP!Chunk,
         P!QuotaAnswer, PP!QuotaAnswer
<1>2. PP!Spec => []PP!TypeOK
  BY PP!PlacementTypeOK, ChunkSizeAssumption, SizesAssumption, QuotasAssumption,
     MaxInt64Assumption, NoAccountAssumption
     DEF P!QuotaAnswer, PP!QuotaAnswer, P!NoAccount, PP!NoAccount
<1> QED
  BY <1>1, <1>2, PlacementSpecHere, PTL

-----------------------------------------------------------------------------
(* Type correctness.                                                       *)

(***************************************************************************)
(* Between two iterations of the loop every chunk placed has a worker; the *)
(* one in the reader's hands is the only exception.                        *)
(***************************************************************************)
Aligned ==
  /\ pc = "acquire" => Len(placed) = Len(worker) + 1
  /\ pc \notin {"acquire", "crashed"} => Len(placed) = Len(worker)

(***************************************************************************)
(* A worker's step keeps the types.                                        *)
(***************************************************************************)
LEMMA WorkKeepsTypes ==
  ASSUME TypeOK, Aligned, P!TypeOK', NEW i \in 1..Len(worker), Work(i)
  PROVE  TypeOK' /\ Aligned'
<1> USE DEF WorkerState
<1>1. PICK s \in WorkerState : Go(i, s)
  BY DEF Work, Resolve, ListFolder, CreateFolder, FolderFails, CreateFolderLost, UploadChunk,
         UploadFails, UploadStoredButFails, Report
<1>2. worker' \in Seq(WorkerState) /\ Len(worker') = Len(worker)
  BY <1>1, GoEffect DEF TypeOK
<1>3. UNCHANGED <<placeVars, readerVars, manifestVars, cancelled>>
  BY DEF Work
<1>4. placed \in Seq(P!Chunk) /\ Len(worker) \in Nat /\ Len(placed) \in Nat
      /\ i \in Chunks
  BY DEF TypeOK, P!TypeOK, Chunks
<1>5. Acc(i) \in Accounts
  <2>1. placed[i] \in P!Chunk
    BY <1>4 DEF Chunks
  <2> QED
    BY <2>1 DEF Acc, P!Chunk
<1>6. folderLock' \in 0..Len(worker) /\ folders' \subseteq Accounts
  BY <1>4, <1>5 DEF TypeOK, Work, Resolve, ListFolder, CreateFolder, FolderFails,
         CreateFolderLost, UploadChunk, UploadFails, UploadStoredButFails, Report
<1>7. results' \subseteq Chunks /\ results \subseteq results' /\ firstErr' \in BOOLEAN
  BY <1>4 DEF TypeOK, Work, Resolve, ListFolder, CreateFolder, FolderFails,
         CreateFolderLost, UploadChunk, UploadFails, UploadStoredButFails, Report
<1>8. remote' \subseteq Chunks /\ excused' \subseteq Chunks
  BY <1>4 DEF TypeOK, Work, Resolve, ListFolder, CreateFolder, FolderFails,
         CreateFolderLost, UploadChunk, UploadFails, UploadStoredButFails, Report
<1>9. driveFolders' \in [Accounts -> Nat]
  BY <1>5 DEF TypeOK, Work, Resolve, ListFolder, CreateFolder, FolderFails,
         CreateFolderLost, UploadChunk, UploadFails, UploadStoredButFails, Report
<1>10. Chunks' = Chunks
  BY <1>3 DEF Chunks
<1> QED
  BY <1>2, <1>3, <1>4, <1>6, <1>7, <1>8, <1>9, <1>10 DEF TypeOK, Aligned

(***************************************************************************)
(* The inductive step of type correctness.                                 *)
(***************************************************************************)
LEMMA StepKeepsTypes ==
  ASSUME TypeOK, Aligned, P!TypeOK', [Next]_vars
  PROVE  TypeOK' /\ Aligned'
<1> USE DEF Chunks
<1>0. /\ placed \in Seq(P!Chunk) /\ placed' \in Seq(P!Chunk)
      /\ Len(worker) \in Nat /\ Len(placed) \in Nat /\ Len(placed') \in Nat
      /\ 1..Len(placed) \subseteq Nat
  BY DEF TypeOK, P!TypeOK
<1>1. CASE Plan
  BY <1>1 DEF Plan, P!PlanSingle, P!PlanTracker, TypeOK, Aligned
<1>2. CASE PlanFails
  BY <1>2 DEF PlanFails, P!PlanFails, Return, TypeOK, Aligned
<1>3. CASE ReadChunk
  <2>1. Len(placed') = Len(placed) + 1
    BY <1>0, <1>3 DEF ReadChunk, P!Place
  <2> QED
    BY <1>0, <1>3, <2>1 DEF ReadChunk, TypeOK, Aligned
<1>4. CASE ReadFails
  BY <1>4 DEF ReadFails, TypeOK, Aligned
<1>5. CASE ReserveFails
  BY <1>5 DEF ReserveFails, P!Refuse, TypeOK, Aligned
<1>6. CASE LoopEnds
  BY <1>6 DEF LoopEnds, P!AllPlaced, TypeOK, Aligned
<1>7. CASE Spawn
  <2>1. worker' \in Seq(WorkerState) /\ Len(worker') = Len(worker) + 1
    BY <1>7 DEF Spawn, TypeOK, WorkerState
  <2> QED
    BY <1>0, <1>7, <2>1 DEF Spawn, TypeOK, Aligned
<1>8. CASE WaitAll
  BY <1>8 DEF WaitAll, TypeOK, Aligned
<1>9. CASE CleanupChunk
  <2>1. todo \subseteq Nat /\ Min(todo) \in todo
    BY <1>0, <1>9, MinInSet DEF CleanupChunk, TypeOK
  <2> QED
    BY <1>9, <2>1 DEF CleanupChunk, TypeOK, Aligned
<1>10. CASE CleanupEnds
  BY <1>10 DEF CleanupEnds, Return, TypeOK, Aligned
<1>11. CASE CreateVirtualFile \/ CreateVirtualFileFails
  BY <1>11 DEF CreateVirtualFile, CreateVirtualFileFails, TypeOK, Aligned
<1>12. CASE AddChunk \/ AddChunkFails
  <2>1. todo \subseteq Nat /\ Min(todo) \in todo
    BY <1>0, <1>12, MinInSet DEF AddChunk, AddChunkFails, TypeOK
  <2> QED
    BY <1>12, <2>1 DEF AddChunk, AddChunkFails, Return, TypeOK, Aligned
<1>13. CASE SetComplete \/ SetCompleteFails
  BY <1>13 DEF SetComplete, SetCompleteFails, Return, TypeOK, Aligned
<1>14. CASE \E i \in 1..Len(worker) : Work(i)
  BY <1>14, WorkKeepsTypes
<1>15. CASE Cancel \/ Crash
  <2>1. CASE Cancel
    BY <2>1 DEF Cancel, TypeOK, Aligned
  <2>2. CASE Crash
    BY <2>2 DEF Crash, TypeOK, Aligned
  <2> QED
    BY <1>15, <2>1, <2>2
<1>16. CASE Stopped \/ UNCHANGED vars
  <2>1. UNCHANGED <<placed, pc, worker, folderLock, folders, results, readErr, firstErr>>
    BY <1>16 DEF Stopped, vars
  <2>2. UNCHANGED <<todo, vf, rows, remote, driveFolders, excused, cancelled, ret>>
    BY <1>16 DEF Stopped, vars
  <2> QED
    BY <2>1, <2>2 DEF TypeOK, Aligned
<1> QED
  BY <1>1, <1>2, <1>3, <1>4, <1>5, <1>6, <1>7, <1>8, <1>9, <1>10, <1>11, <1>12, <1>13,
     <1>14, <1>15, <1>16 DEF Next, Reader

(***************************************************************************)
(* Type correctness of PutStream with its workers, together with the fact  *)
(* that makes it inductive.                                                *)
(***************************************************************************)
THEOREM UploadTypeOK == Spec => [](TypeOK /\ Aligned)
<1>1. Init /\ P!TypeOK => TypeOK /\ Aligned
  <2> SUFFICES ASSUME Init, P!TypeOK PROVE TypeOK /\ Aligned
    OBVIOUS
  <2>1. placed = <<>> /\ worker = <<>> /\ worker \in Seq(WorkerState)
    BY DEF Init, P!Init
  <2>2. Len(placed) = 0 /\ Len(worker) = 0
    BY <2>1
  <2>3. driveFolders \in [Accounts -> Nat]
    BY DEF Init
  <2>4. Aligned
    BY <2>2 DEF Init, Aligned
  <2>5. /\ pc = "plan" /\ folderLock = 0 /\ folders = {} /\ results = {} /\ todo = {}
        /\ readErr = FALSE /\ firstErr = FALSE /\ vf = "none" /\ rows = {}
        /\ remote = {} /\ excused = {} /\ cancelled = FALSE /\ ret = "none"
    BY DEF Init
  <2>6. worker \in Seq(WorkerState)
    BY <2>1
  <2>7. Len(worker) <= Len(placed) /\ folderLock \in 0..Len(worker)
    BY <2>2, <2>5
  <2>8. /\ pc \in {"plan", "read", "acquire", "wait", "cleanup", "create", "record",
                   "returned", "crashed"}
        /\ vf \in {"none", "incomplete", "complete"} /\ ret \in {"none", "ok", "error"}
        /\ readErr \in BOOLEAN /\ firstErr \in BOOLEAN /\ cancelled \in BOOLEAN
    BY <2>5
  <2>9. /\ folders \subseteq Accounts /\ results \subseteq Chunks /\ todo \subseteq results
        /\ rows \subseteq Chunks /\ remote \subseteq Chunks /\ excused \subseteq Chunks
    BY <2>5
  <2> QED
    BY <2>3, <2>4, <2>6, <2>7, <2>8, <2>9 DEF TypeOK
<1>2. TypeOK /\ Aligned /\ P!TypeOK' /\ [Next]_vars => (TypeOK /\ Aligned)'
  BY StepKeepsTypes
<1> QED
  BY <1>1, <1>2, PlacementTypeOKHere, PTL DEF Spec

-----------------------------------------------------------------------------
(* The inductive invariant.                                                *)

(***************************************************************************)
(* The folder mutex: only its holder is inside EnsureFolder, and between   *)
(* listing and creating the account's folder does not appear.              *)
(***************************************************************************)
LockHeld ==
  \A i \in 1..Len(worker) : worker[i] \in {"list", "mkdir"} => folderLock = i

FolderAbsent ==
  \A i \in 1..Len(worker) : worker[i] = "mkdir" => driveFolders[Acc(i)] = 0

(***************************************************************************)
(* Nothing has happened before the plan, and no worker is running once the *)
(* reader is past wg.Wait.                                                 *)
(***************************************************************************)
Quiet ==
  /\ pc = "plan" => worker = <<>> /\ remote = {} /\ results = {}
  /\ pc \in {"cleanup", "create", "record", "returned"} =>
       \A i \in 1..Len(worker) : worker[i] = "done"

(***************************************************************************)
(* What the workers hand over: a chunk that counts as uploaded is on       *)
(* Drive, a worker that ended left a result or an error, and the chunks on *)
(* Drive are all accounted for.                                            *)
(***************************************************************************)
HandedOver ==
  /\ \A i \in 1..Len(worker) : worker[i] = "uploaded" => i \in remote
  /\ pc \notin {"cleanup", "returned", "crashed"} => results \subseteq remote
  /\ \A i \in 1..Len(worker) : worker[i] = "done" => i \in results \/ firstErr
  /\ \A i \in remote : \/ i \in results \cup excused
                       \/ i \in 1..Len(worker) /\ worker[i] = "uploaded"
  /\ pc = "cleanup" => remote \subseteq todo \cup excused

(***************************************************************************)
(* The order of recording: nothing before the workers have all succeeded,  *)
(* then the rows of exactly the results, then the status.                  *)
(***************************************************************************)
Recording ==
  /\ phase = "placed" => Len(placed) = P!NumChunks
  /\ pc \in {"plan", "read", "acquire", "wait", "create"} => vf = "none" /\ rows = {}
  /\ pc = "cleanup" => rows = {}
  /\ pc = "wait" /\ ~readErr => phase = "placed"
  /\ pc \in {"create", "record"} => phase = "placed" /\ ~readErr /\ ~firstErr
  /\ pc = "record" => vf = "incomplete" /\ results = rows \cup todo
  /\ vf = "complete" => pc = "returned"
  /\ ret # "none" => pc = "returned"

UploadInv ==
  /\ TypeOK
  /\ Aligned
  /\ LockHeld
  /\ FolderAbsent
  /\ OneFolderPerAccount
  /\ Quiet
  /\ HandedOver
  /\ Recording
  /\ RowsPointSomewhere
  /\ FailureLeavesNoRecord
  /\ CompleteMeansStored
  /\ OrphansExcused

(***************************************************************************)
(* A worker's step keeps the invariant.  The reader is not past wg.Wait,   *)
(* for the worker is not done.                                             *)
(***************************************************************************)
LEMMA WorkKeepsInv ==
  ASSUME UploadInv, TypeOK', Aligned', NEW i \in 1..Len(worker), Work(i)
  PROVE  UploadInv'
<1>0. PICK s \in WorkerState : Go(i, s)
  BY DEF Work, WorkerState, Resolve, ListFolder, CreateFolder, FolderFails, CreateFolderLost,
         UploadChunk, UploadFails, UploadStoredButFails, Report
<1>1. /\ Len(worker') = Len(worker)
      /\ \A j \in 1..Len(worker) : worker'[j] = IF j = i THEN s ELSE worker[j]
  BY <1>0, GoEffect DEF UploadInv, TypeOK
<1>2. UNCHANGED <<placeVars, readerVars, manifestVars, cancelled>>
  BY DEF Work
<1>3. \A j \in 1..Len(worker) : Acc(j)' = Acc(j)
  BY <1>2 DEF Acc
<1>4. worker[i] # "done" /\ pc \in {"read", "acquire", "wait"}
  <2>1. worker[i] # "done" /\ pc # "crashed"
    BY DEF Work, Alive, Resolve, ListFolder, CreateFolder, FolderFails, CreateFolderLost,
         UploadChunk, UploadFails, UploadStoredButFails, Report
  <2>2. pc # "plan"
    BY DEF UploadInv, Quiet
  <2> QED
    BY <2>1, <2>2 DEF UploadInv, Quiet, TypeOK
<1>5. Acc(i) \in Accounts /\ driveFolders \in [Accounts -> Nat]
  <2>1. placed \in Seq(P!Chunk) /\ i \in 1..Len(placed)
    BY DEF UploadInv, TypeOK, P!TypeOK
  <2>2. placed[i] \in P!Chunk
    BY <2>1
  <2> QED
    BY <2>2 DEF Acc, P!Chunk, UploadInv, TypeOK
<1>6. LockHeld'
  BY <1>0, <1>1 DEF UploadInv, LockHeld, TypeOK, Go, Work, Resolve, ListFolder, CreateFolder, FolderFails, CreateFolderLost,
         UploadChunk, UploadFails, UploadStoredButFails, Report
<1>7. FolderAbsent' /\ OneFolderPerAccount'
  <2>1. CASE Resolve(i) \/ UploadChunk(i) \/ UploadFails(i) \/ UploadStoredButFails(i)
              \/ Report(i) \/ FolderFails(i)
    <3>1. UNCHANGED driveFolders
      BY <2>1 DEF Resolve, UploadChunk, UploadFails, UploadStoredButFails, Report, FolderFails
    <3>2. worker'[i] # "mkdir"
      BY <1>1, <2>1 DEF Resolve, UploadChunk, UploadFails, UploadStoredButFails, Report,
                        FolderFails, Go, UploadInv, TypeOK
    <3> QED
      BY <1>1, <1>3, <3>1, <3>2 DEF UploadInv, FolderAbsent, OneFolderPerAccount
  <2>2. CASE ListFolder(i)
    <3>1. UNCHANGED driveFolders
      BY <2>2 DEF ListFolder
    <3>2. worker'[i] = "mkdir" => driveFolders[Acc(i)] = 0
      BY <1>1, <1>5, <2>2 DEF ListFolder, Go, UploadInv, TypeOK
    <3> QED
      BY <1>1, <1>3, <3>1, <3>2 DEF UploadInv, FolderAbsent, OneFolderPerAccount
  <2>3. CASE CreateFolder(i) \/ CreateFolderLost(i)
    <3>1. worker[i] = "mkdir" /\ worker'[i] # "mkdir"
      BY <1>1, <2>3 DEF CreateFolder, CreateFolderLost, Go, UploadInv, TypeOK
    <3>2. \A j \in 1..Len(worker) : worker'[j] # "mkdir"
      BY <1>1, <3>1 DEF UploadInv, LockHeld
    <3>3. driveFolders[Acc(i)] = 0 /\ driveFolders' = [driveFolders EXCEPT ![Acc(i)] = @ + 1]
      BY <2>3, <3>1 DEF CreateFolder, CreateFolderLost, UploadInv, FolderAbsent
    <3> QED
      BY <1>1, <1>5, <3>2, <3>3 DEF UploadInv, FolderAbsent, OneFolderPerAccount
  <2> QED
    BY <2>1, <2>2, <2>3 DEF Work
<1>8. Quiet'
  BY <1>2, <1>4 DEF Quiet
<1>9. HandedOver'
  <2>1. CASE Resolve(i) \/ ListFolder(i) \/ CreateFolder(i) \/ FolderFails(i)
               \/ CreateFolderLost(i) \/ UploadFails(i)
    <3>1. UNCHANGED <<remote, results, excused, firstErr>>
      BY <2>1 DEF Resolve, ListFolder, CreateFolder, FolderFails, CreateFolderLost, UploadFails
    <3>2. worker[i] # "uploaded" /\ worker'[i] \notin {"uploaded", "done"}
      BY <1>1, <2>1 DEF Resolve, ListFolder, CreateFolder, FolderFails, CreateFolderLost,
                        UploadFails, Go, UploadInv, TypeOK
    <3> QED
      BY <1>1, <1>2, <3>1, <3>2 DEF UploadInv, HandedOver
  <2>2. CASE UploadChunk(i)
    <3>1. worker[i] = "upload" /\ worker'[i] = "uploaded" /\ remote' = remote \cup {i}
          /\ UNCHANGED <<results, excused, firstErr>>
      BY <1>1, <2>2 DEF UploadChunk, Go, UploadInv, TypeOK
    <3> QED
      BY <1>1, <1>2, <1>4, <3>1 DEF UploadInv, HandedOver
  <2>3. CASE UploadStoredButFails(i)
    <3>1. /\ worker[i] = "upload" /\ worker'[i] = "failed" /\ remote' = remote \cup {i}
          /\ excused' = excused \cup {i} /\ UNCHANGED <<results, firstErr>>
      BY <1>1, <2>3 DEF UploadStoredButFails, Go, UploadInv, TypeOK
    <3> QED
      BY <1>1, <1>2, <1>4, <3>1 DEF UploadInv, HandedOver
  <2>4. CASE Report(i)
    <3>1. worker'[i] = "done" /\ UNCHANGED <<remote, excused>>
      BY <1>1, <2>4 DEF Report, Go, UploadInv, TypeOK
    <3>2. \/ worker[i] = "uploaded" /\ results' = results \cup {i} /\ UNCHANGED firstErr
          \/ worker[i] = "failed" /\ results' = results /\ firstErr'
      BY <2>4 DEF Report
    <3> QED
      BY <1>1, <1>2, <1>4, <3>1, <3>2 DEF UploadInv, HandedOver
  <2> QED
    BY <2>1, <2>2, <2>3, <2>4 DEF Work
<1>10. Recording'
  BY <1>2, <1>4 DEF UploadInv, Recording, P!NumChunks
<1>11. rows = {} /\ vf = "none" /\ ret = "none"
  BY <1>4 DEF UploadInv, Recording
<1>12. RowsPointSomewhere' /\ FailureLeavesNoRecord' /\ CompleteMeansStored' /\ OrphansExcused'
  BY <1>2, <1>4, <1>11 DEF RowsPointSomewhere, FailureLeavesNoRecord, CompleteMeansStored,
         OrphansExcused
<1> QED
  BY <1>6, <1>7, <1>8, <1>9, <1>10, <1>12 DEF UploadInv

(***************************************************************************)
(* A step that leaves the workers, their locks and the folders alone keeps *)
(* what is said about them.                                                *)
(***************************************************************************)
LEMMA WorkersAlone ==
  ASSUME UploadInv, UNCHANGED <<worker, folderLock, driveFolders>>,
         \A i \in 1..Len(placed) : placed'[i] = placed[i]
  PROVE  LockHeld' /\ FolderAbsent' /\ OneFolderPerAccount'
<1>1. 1..Len(worker) \subseteq 1..Len(placed)
  BY DEF UploadInv, TypeOK, P!TypeOK
<1> QED
  BY <1>1 DEF UploadInv, LockHeld, FolderAbsent, OneFolderPerAccount, Acc

(***************************************************************************)
(* The steps of the reader before wg.Wait.                                 *)
(***************************************************************************)
LEMMA LoopKeepsInv ==
  ASSUME UploadInv, TypeOK', Aligned',
         Plan \/ PlanFails \/ ReadChunk \/ ReadFails \/ ReserveFails \/ LoopEnds \/ Spawn
  PROVE  UploadInv'
<1> DEFINE Rest == HandedOver /\ Recording /\ RowsPointSomewhere /\ FailureLeavesNoRecord
                     /\ CompleteMeansStored /\ OrphansExcused
<1>0. pc \in {"plan", "read", "acquire"} /\ rows = {} /\ vf = "none" /\ ret = "none"
  BY DEF Plan, PlanFails, ReadChunk, ReadFails, ReserveFails, LoopEnds, Spawn, UploadInv, Recording
<1>1. CASE Plan \/ PlanFails
  <2>1. UNCHANGED <<worker, folderLock, driveFolders, placed, remote, results, excused, rows, vf,
                    size, readErr, firstErr, todo>>
    BY <1>1 DEF Plan, PlanFails, P!PlanSingle, P!PlanTracker, P!PlanFails
  <2>2. worker = <<>> /\ remote = {} /\ results = {} /\ Len(worker) = 0
    BY <1>1 DEF Plan, PlanFails, UploadInv, Quiet
  <2>3. \/ pc' = "read" /\ ret' = "none" /\ phase' = "loop"
        \/ pc' = "returned" /\ ret' = "error" /\ phase' = "unhealthy"
    BY <1>0, <1>1 DEF Plan, PlanFails, Return, P!PlanSingle, P!PlanTracker, P!PlanFails
  <2>4. Quiet'
    BY <2>1, <2>2, <2>3 DEF Quiet
  <2>5. Rest'
    BY <1>0, <2>1, <2>2, <2>3 DEF UploadInv, HandedOver, Recording, RowsPointSomewhere,
           FailureLeavesNoRecord, CompleteMeansStored, OrphansExcused
  <2> QED
    BY <2>1, <2>4, <2>5, WorkersAlone DEF UploadInv
<1>2. CASE ReadChunk
  <2>1. UNCHANGED <<worker, folderLock, driveFolders, remote, results, excused, rows, vf,
                    size, readErr, firstErr, todo, phase, ret>>
    BY <1>2 DEF ReadChunk, P!Place
  <2>2. PICK ch : placed' = Append(placed, ch)
    BY <1>2 DEF ReadChunk, P!Place
  <2>3. \A i \in 1..Len(placed) : placed'[i] = placed[i]
    BY <2>2 DEF UploadInv, TypeOK, P!TypeOK
  <2>4. pc = "read" /\ pc' = "acquire" /\ phase = "loop"
    BY <1>2 DEF ReadChunk, P!Place, P!More
  <2>5. Quiet' /\ Rest'
    BY <1>0, <2>1, <2>4 DEF UploadInv, Quiet, HandedOver, Recording, RowsPointSomewhere,
           FailureLeavesNoRecord, CompleteMeansStored, OrphansExcused
  <2> QED
    BY <2>1, <2>3, <2>5, WorkersAlone DEF UploadInv
<1>3. CASE ReadFails \/ ReserveFails
  <2>1. UNCHANGED <<worker, folderLock, driveFolders, remote, results, excused, rows, vf,
                    size, placed, firstErr, todo, ret>>
    BY <1>3 DEF ReadFails, ReserveFails, P!Refuse
  <2>2. pc = "read" /\ pc' = "wait" /\ readErr' /\ phase' # "placed"
    BY <1>3 DEF ReadFails, ReserveFails, P!Refuse, P!More
  <2>3. Quiet' /\ Rest'
    BY <1>0, <2>1, <2>2 DEF UploadInv, Quiet, HandedOver, Recording, RowsPointSomewhere,
           FailureLeavesNoRecord, CompleteMeansStored, OrphansExcused
  <2> QED
    BY <2>1, <2>3, WorkersAlone DEF UploadInv
<1>4. CASE LoopEnds
  <2>1. UNCHANGED <<worker, folderLock, driveFolders, remote, results, excused, rows, vf,
                    size, placed, readErr, firstErr, todo, ret>>
    BY <1>4 DEF LoopEnds, P!AllPlaced
  <2>2. pc = "read" /\ pc' = "wait" /\ phase' = "placed" /\ Len(placed') = P!NumChunks'
    BY <1>4 DEF LoopEnds, P!AllPlaced, P!NumChunks
  <2>3. Quiet' /\ Rest'
    BY <1>0, <2>1, <2>2 DEF UploadInv, Quiet, HandedOver, Recording, RowsPointSomewhere,
           FailureLeavesNoRecord, CompleteMeansStored, OrphansExcused
  <2> QED
    BY <2>1, <2>3, WorkersAlone DEF UploadInv
<1>5. CASE Spawn
  <2>1. UNCHANGED <<placeVars, folderLock, driveFolders, remote, results, excused, rows, vf,
                    readErr, firstErr, todo, ret>>
    BY <1>5 DEF Spawn
  <2>2. pc = "acquire" /\ pc' = "read" /\ worker' = Append(worker, "resolve")
    BY <1>5 DEF Spawn
  <2>3. /\ Len(worker') = Len(worker) + 1 /\ Len(worker) \in Nat
        /\ worker'[Len(worker) + 1] = "resolve"
        /\ \A i \in 1..Len(worker) : worker'[i] = worker[i]
    BY <2>2 DEF UploadInv, TypeOK
  <2>4. LockHeld' /\ FolderAbsent' /\ OneFolderPerAccount'
    BY <2>1, <2>3 DEF UploadInv, LockHeld, FolderAbsent, OneFolderPerAccount, Acc
  <2>5. HandedOver'
    BY <2>1, <2>2, <2>3 DEF UploadInv, HandedOver
  <2>6. Quiet' /\ Recording'
    BY <1>0, <2>1, <2>2 DEF UploadInv, Quiet, Recording, P!NumChunks
  <2>7. RowsPointSomewhere' /\ FailureLeavesNoRecord' /\ CompleteMeansStored' /\ OrphansExcused'
    BY <1>0, <2>1, <2>2 DEF RowsPointSomewhere, FailureLeavesNoRecord, CompleteMeansStored,
           OrphansExcused
  <2> QED
    BY <2>4, <2>5, <2>6, <2>7 DEF UploadInv
<1> QED
  BY <1>1, <1>2, <1>3, <1>4, <1>5

(***************************************************************************)
(* The steps of the reader after the loop: cleanup or recording.           *)
(***************************************************************************)
LEMMA EndKeepsInv ==
  ASSUME UploadInv, TypeOK', Aligned',
         \/ WaitAll \/ CleanupChunk \/ CleanupEnds
         \/ CreateVirtualFile \/ CreateVirtualFileFails
         \/ AddChunk \/ AddChunkFails \/ SetComplete \/ SetCompleteFails
  PROVE  UploadInv'
<1> DEFINE Rest == HandedOver /\ Recording /\ RowsPointSomewhere /\ FailureLeavesNoRecord
                     /\ CompleteMeansStored /\ OrphansExcused
<1>0. /\ UNCHANGED <<placeVars, workerVars, driveFolders, readErr>>
      /\ P!NumChunks' = P!NumChunks
  BY DEF WaitAll, CleanupChunk, CleanupEnds, CreateVirtualFile, CreateVirtualFileFails,
         AddChunk, AddChunkFails, SetComplete, SetCompleteFails, P!NumChunks
<1>1. LockHeld' /\ FolderAbsent' /\ OneFolderPerAccount'
  BY <1>0, WorkersAlone
<1>2. \A i \in 1..Len(worker) : worker[i] = "done"
  BY DEF WaitAll, CleanupChunk, CleanupEnds, CreateVirtualFile, CreateVirtualFileFails,
         AddChunk, AddChunkFails, SetComplete, SetCompleteFails, UploadInv, Quiet, Running
<1>3. Quiet'
  <2>1. pc' # "plan"
    BY DEF WaitAll, CleanupChunk, CleanupEnds, CreateVirtualFile, CreateVirtualFileFails,
           AddChunk, AddChunkFails, SetComplete, SetCompleteFails, Return
  <2> QED
    BY <1>0, <1>2, <2>1 DEF Quiet
<1>4. remote \subseteq results \cup excused
  BY <1>2 DEF UploadInv, HandedOver
<1>5. todo # {} => Min(todo) \in todo
  <2>1. todo \subseteq Nat
    BY DEF UploadInv, TypeOK, P!TypeOK, Chunks
  <2> QED
    BY <2>1, MinInSet
<1>6. CASE WaitAll
  <2>1. /\ pc = "wait" /\ pc' = IF readErr \/ firstErr THEN "cleanup" ELSE "create"
        /\ todo' = results /\ UNCHANGED <<driveVars, manifestVars, ret>>
    BY <1>6 DEF WaitAll
  <2>2. HandedOver'
    BY <1>0, <1>2, <1>4, <2>1 DEF UploadInv, HandedOver
  <2>3. Recording'
    BY <1>0, <2>1 DEF UploadInv, Recording
  <2>4. RowsPointSomewhere' /\ FailureLeavesNoRecord' /\ CompleteMeansStored' /\ OrphansExcused'
    BY <1>0, <2>1 DEF UploadInv, RowsPointSomewhere, FailureLeavesNoRecord,
           CompleteMeansStored, OrphansExcused
  <2> QED
    BY <1>1, <1>3, <2>2, <2>3, <2>4 DEF UploadInv
<1>7. CASE CleanupChunk
  <2>1. /\ pc = "cleanup" /\ pc' = "cleanup" /\ UNCHANGED <<manifestVars, ret>>
        /\ Min(todo) \in todo /\ todo' = todo \ {Min(todo)}
        /\ \/ remote' = remote \ {Min(todo)} /\ UNCHANGED excused
           \/ remote' = remote /\ excused' = excused \cup {Min(todo)}
    BY <1>5, <1>7 DEF CleanupChunk
  <2>2. HandedOver'
    BY <1>0, <1>2, <1>4, <2>1 DEF UploadInv, HandedOver
  <2>3. Recording'
    BY <1>0, <2>1 DEF UploadInv, Recording
  <2>4. rows = {} /\ vf # "complete" /\ ret = "none"
    BY <2>1 DEF UploadInv, Recording
  <2>5. RowsPointSomewhere' /\ FailureLeavesNoRecord' /\ CompleteMeansStored' /\ OrphansExcused'
    BY <1>0, <2>1, <2>4 DEF UploadInv, RowsPointSomewhere, FailureLeavesNoRecord,
           CompleteMeansStored, OrphansExcused
  <2> QED
    BY <1>1, <1>3, <2>2, <2>3, <2>5 DEF UploadInv
<1>8. CASE CleanupEnds
  <2>1. /\ pc = "cleanup" /\ pc' = "returned" /\ ret' = "error" /\ todo = {}
        /\ UNCHANGED <<driveVars, manifestVars, todo>>
    BY <1>8 DEF CleanupEnds, Return
  <2>2. Rest'
    BY <1>0, <1>2, <2>1 DEF UploadInv, HandedOver, Recording, RowsPointSomewhere,
           FailureLeavesNoRecord, CompleteMeansStored, OrphansExcused
  <2> QED
    BY <1>1, <1>3, <2>2 DEF UploadInv
<1>9. CASE CreateVirtualFile \/ CreateVirtualFileFails
  <2>1. /\ pc = "create" /\ todo' = results /\ UNCHANGED <<driveVars, rows, ret>>
        /\ \/ pc' = "record" /\ vf' = "incomplete"
           \/ pc' = "cleanup" /\ vf' \in {"none", "incomplete"}
    BY <1>9 DEF CreateVirtualFile, CreateVirtualFileFails, UploadInv, Recording
  <2>2. ~readErr /\ ~firstErr /\ rows = {} /\ ret = "none" /\ phase = "placed"
    BY <2>1 DEF UploadInv, Recording
  <2>3. HandedOver'
    BY <1>0, <1>2, <1>4, <2>1 DEF UploadInv, HandedOver
  <2>4. Recording'
    BY <1>0, <2>1, <2>2 DEF UploadInv, Recording
  <2>5. RowsPointSomewhere' /\ FailureLeavesNoRecord' /\ CompleteMeansStored' /\ OrphansExcused'
    BY <1>0, <2>1, <2>2 DEF RowsPointSomewhere, FailureLeavesNoRecord,
           CompleteMeansStored, OrphansExcused
  <2> QED
    BY <1>1, <1>3, <2>3, <2>4, <2>5 DEF UploadInv
<1>10. CASE AddChunk \/ AddChunkFails
  <2>1. /\ pc = "record" /\ Min(todo) \in todo /\ UNCHANGED <<driveVars, vf>>
        /\ rows' \in {rows, rows \cup {Min(todo)}}
        /\ \/ pc' = "record" /\ UNCHANGED ret /\ todo' = todo \ {Min(todo)}
              /\ rows' = rows \cup {Min(todo)}
           \/ pc' = "returned" /\ ret' = "error" /\ UNCHANGED todo
    BY <1>5, <1>10 DEF AddChunk, AddChunkFails, Return
  <2>2. /\ ~readErr /\ ~firstErr /\ vf = "incomplete" /\ ret = "none" /\ phase = "placed"
        /\ results = rows \cup todo /\ results \subseteq remote
    BY <2>1 DEF UploadInv, Recording, HandedOver
  <2>3. HandedOver'
    BY <1>0, <1>2, <2>1 DEF UploadInv, HandedOver
  <2>4. Recording'
    BY <1>0, <2>1, <2>2 DEF UploadInv, Recording
  <2>5. RowsPointSomewhere' /\ FailureLeavesNoRecord' /\ CompleteMeansStored' /\ OrphansExcused'
    BY <1>0, <2>1, <2>2 DEF UploadInv, RowsPointSomewhere, FailureLeavesNoRecord,
           CompleteMeansStored, OrphansExcused
  <2> QED
    BY <1>1, <1>3, <2>3, <2>4, <2>5 DEF UploadInv
<1>11. CASE SetComplete \/ SetCompleteFails
  <2>1. /\ pc = "record" /\ todo = {} /\ pc' = "returned" /\ UNCHANGED <<driveVars, rows, todo>>
        /\ \/ vf' = "complete" /\ ret' = "ok"
           \/ vf' \in {vf, "complete"} /\ ret' = "error"
    BY <1>11 DEF SetComplete, SetCompleteFails, Return
  <2>2. /\ ~readErr /\ ~firstErr /\ vf = "incomplete" /\ phase = "placed"
        /\ results = rows /\ results \subseteq remote
    BY <2>1 DEF UploadInv, Recording, HandedOver
  <2>3. results = 1..Len(worker) /\ Len(worker) = P!NumChunks
    <3>1. 1..Len(worker) \subseteq results
      BY <1>2, <2>2 DEF UploadInv, HandedOver
    <3>2. results \subseteq 1..Len(placed) /\ Len(placed) = Len(worker)
      BY <2>1 DEF UploadInv, TypeOK, Chunks, Aligned
    <3> QED
      BY <2>2, <3>1, <3>2 DEF UploadInv, Recording
  <2>4. HandedOver'
    BY <1>0, <1>2, <2>1 DEF UploadInv, HandedOver
  <2>5. Recording'
    BY <1>0, <2>1, <2>2 DEF UploadInv, Recording
  <2>6. RowsPointSomewhere' /\ FailureLeavesNoRecord' /\ CompleteMeansStored' /\ OrphansExcused'
    BY <1>0, <2>1, <2>2, <2>3 DEF UploadInv, RowsPointSomewhere, FailureLeavesNoRecord,
           CompleteMeansStored, OrphansExcused
  <2> QED
    BY <1>1, <1>3, <2>4, <2>5, <2>6 DEF UploadInv
<1> QED
  BY <1>6, <1>7, <1>8, <1>9, <1>10, <1>11

(***************************************************************************)
(* UploadInv holds throughout PutStream, whatever fails.                   *)
(***************************************************************************)
THEOREM UploadInvariant == Spec => []UploadInv
<1>1. Init /\ TypeOK /\ Aligned => UploadInv
  <2> SUFFICES ASSUME Init, TypeOK, Aligned PROVE UploadInv
    OBVIOUS
  <2>1. worker = <<>> /\ Len(worker) = 0 /\ phase = "plan" /\ pc = "plan"
    BY DEF Init, P!Init
  <2>2. \A a \in Accounts : driveFolders[a] = 0
    BY DEF Init
  <2>3. LockHeld /\ FolderAbsent /\ OneFolderPerAccount
    BY <2>1, <2>2 DEF LockHeld, FolderAbsent, OneFolderPerAccount
  <2>4. Quiet /\ HandedOver
    BY <2>1 DEF Init, Quiet, HandedOver
  <2>5. Recording
    BY <2>1 DEF Init, Recording
  <2>6. RowsPointSomewhere /\ FailureLeavesNoRecord /\ CompleteMeansStored /\ OrphansExcused
    BY DEF Init, RowsPointSomewhere, FailureLeavesNoRecord, CompleteMeansStored, OrphansExcused
  <2> QED
    BY <2>3, <2>4, <2>5, <2>6 DEF UploadInv
<1>2. UploadInv /\ (TypeOK /\ Aligned)' /\ [Next]_vars => UploadInv'
  <2> SUFFICES ASSUME UploadInv, TypeOK', Aligned', [Next]_vars PROVE UploadInv'
    OBVIOUS
  <2>1. CASE Plan \/ PlanFails \/ ReadChunk \/ ReadFails \/ ReserveFails \/ LoopEnds \/ Spawn
    BY <2>1, LoopKeepsInv
  <2>2. CASE \/ WaitAll \/ CleanupChunk \/ CleanupEnds
             \/ CreateVirtualFile \/ CreateVirtualFileFails
             \/ AddChunk \/ AddChunkFails \/ SetComplete \/ SetCompleteFails
    BY <2>2, EndKeepsInv
  <2>3. CASE \E i \in 1..Len(worker) : Work(i)
    BY <2>3, WorkKeepsInv
  <2>4. CASE Cancel \/ Crash \/ Stopped \/ UNCHANGED vars
    <3>1. /\ UNCHANGED <<placeVars, readErr, todo, ret, workerVars, driveVars, manifestVars>>
          /\ \/ pc' = pc
             \/ pc' = "crashed" /\ pc \notin {"returned", "crashed"}
          /\ P!NumChunks' = P!NumChunks
      BY <2>4 DEF Cancel, Crash, Stopped, Ended, vars, P!NumChunks
    <3>2. LockHeld' /\ FolderAbsent' /\ OneFolderPerAccount'
      BY <3>1, WorkersAlone
    <3>3. Quiet' /\ HandedOver'
      BY <3>1 DEF UploadInv, Quiet, HandedOver
    <3>4. Recording'
      BY <3>1 DEF UploadInv, Recording
    <3>5. RowsPointSomewhere' /\ FailureLeavesNoRecord' /\ CompleteMeansStored'
            /\ OrphansExcused'
      BY <3>1 DEF UploadInv, Recording, RowsPointSomewhere, FailureLeavesNoRecord,
             CompleteMeansStored, OrphansExcused
    <3> QED
      BY <3>2, <3>3, <3>4, <3>5 DEF UploadInv
  <2> QED
    BY <2>1, <2>2, <2>3, <2>4 DEF Next, Reader
<1> QED
  BY <1>1, <1>2, UploadTypeOK, PTL DEF Spec

-----------------------------------------------------------------------------
(* The properties of the runs, for every instance.                         *)

(***************************************************************************)
(* A file whose status is complete has a row for every chunk, and every    *)
(* chunk is on Drive; PutStream returns nil only for such a file.          *)
(***************************************************************************)
THEOREM CompleteFilesAreStored == Spec => []CompleteMeansStored
BY UploadInvariant, PTL DEF UploadInv

(***************************************************************************)
(* At no time does a chunk row point to an object that is not on Drive.    *)
(***************************************************************************)
THEOREM RowsAlwaysPointSomewhere == Spec => []RowsPointSomewhere
BY UploadInvariant, PTL DEF UploadInv

(***************************************************************************)
(* An error of the reader or of a worker leaves nothing in the manifest.   *)
(***************************************************************************)
THEOREM FailuresLeaveNoRecord == Spec => []FailureLeavesNoRecord
BY UploadInvariant, PTL DEF UploadInv

(***************************************************************************)
(* cleanupChunks leaves only chunks behind that Drive answered with an     *)
(* error for, as long as the file was not recorded.                        *)
(***************************************************************************)
THEOREM CleanupLeavesOnlyExcused == Spec => []OrphansExcused
BY UploadInvariant, PTL DEF UploadInv

(***************************************************************************)
(* folderResolver creates at most one folder per account and call.         *)
(***************************************************************************)
THEOREM FoldersAreUnique == Spec => []OneFolderPerAccount
BY UploadInvariant, PTL DEF UploadInv

(***************************************************************************)
(* Once PutStream has returned, no goroutine of it touches Drive.          *)
(***************************************************************************)
THEOREM NothingAfterReturn == Spec => QuietAfterReturn
<1>1. UploadInv /\ [Next]_vars => [pc = "returned" => UNCHANGED driveVars]_vars
  <2> SUFFICES ASSUME UploadInv, Next, pc = "returned" PROVE UNCHANGED driveVars
    OBVIOUS
  <2>1. ~Reader /\ ~Cancel /\ ~Crash
    BY DEF Reader, Cancel, Crash, Ended, Plan, PlanFails, ReadChunk, ReadFails, ReserveFails,
           LoopEnds, Spawn, WaitAll, CleanupChunk, CleanupEnds, CreateVirtualFile,
           CreateVirtualFileFails, AddChunk, AddChunkFails, SetComplete, SetCompleteFails
  <2>2. ~\E i \in 1..Len(worker) : Work(i)
    BY DEF UploadInv, Quiet, Work, Resolve, ListFolder, CreateFolder, FolderFails,
           CreateFolderLost, UploadChunk, UploadFails, UploadStoredButFails, Report
  <2> QED
    BY <2>1, <2>2 DEF Next, Stopped, vars
<1> QED
  BY <1>1, UploadInvariant, PTL DEF Spec, QuietAfterReturn

-----------------------------------------------------------------------------
(* The semaphore.                                                          *)

(***************************************************************************)
(* At most MaxParallel workers are running, and at most one chunk is in    *)
(* the reader's hands, also after a crash.                                 *)
(***************************************************************************)
Bounded ==
  /\ Cardinality(Running) <= MaxParallel
  /\ Len(placed) <= Len(worker) + 1

(***************************************************************************)
(* The running workers are a finite set: they are numbered.                *)
(***************************************************************************)
LEMMA RunningIsFinite ==
  ASSUME worker \in Seq(WorkerState)
  PROVE  IsFiniteSet(Running) /\ Cardinality(Running) \in Nat
<1>1. IsFiniteSet(1..Len(worker))
  BY FS_Interval
<1>2. Running \in SUBSET (1..Len(worker))
  BY DEF Running
<1>3. IsFiniteSet(Running)
  BY <1>1, <1>2, FS_Subset
<1> QED
  BY <1>3, FS_CardinalityType

(***************************************************************************)
(* A worker's step starts no other worker.                                 *)
(***************************************************************************)
LEMMA WorkKeepsBounded ==
  ASSUME TypeOK, Bounded, NEW i \in 1..Len(worker), Work(i)
  PROVE  Bounded'
<1>1. worker[i] # "done" /\ UNCHANGED placed
  BY DEF Work, Resolve, ListFolder, CreateFolder, FolderFails, CreateFolderLost, UploadChunk,
         UploadFails, UploadStoredButFails, Report
<1>2. PICK s \in WorkerState : Go(i, s)
  BY DEF Work, Resolve, ListFolder, CreateFolder, FolderFails, CreateFolderLost, UploadChunk,
         UploadFails, UploadStoredButFails, Report, WorkerState
<1>3. /\ worker' \in Seq(WorkerState) /\ Len(worker') = Len(worker)
      /\ \A j \in 1..Len(worker) : j # i => worker'[j] = worker[j]
  BY <1>2, GoEffect DEF TypeOK
<1>4. Running' \in SUBSET Running
  BY <1>1, <1>3 DEF Running
<1>5. IsFiniteSet(Running) /\ Cardinality(Running) \in Nat
  BY RunningIsFinite DEF TypeOK
<1>6. IsFiniteSet(Running') /\ Cardinality(Running') <= Cardinality(Running)
  BY <1>4, <1>5, FS_Subset
<1>7. Cardinality(Running') \in Nat
  BY <1>6, FS_CardinalityType
<1> QED
  BY <1>1, <1>3, <1>5, <1>6, <1>7, MaxParallelAssumption DEF Bounded

(***************************************************************************)
(* The semaphore's slot is taken before the worker starts.                 *)
(***************************************************************************)
LEMMA SpawnKeepsBounded ==
  ASSUME TypeOK, Aligned, Bounded, Spawn
  PROVE  Bounded'
<1>1. /\ worker \in Seq(WorkerState) /\ worker' = Append(worker, "resolve")
      /\ "resolve" \in WorkerState /\ Len(worker) \in Nat
  BY DEF Spawn, TypeOK, WorkerState
<1>2. /\ Len(worker') = Len(worker) + 1 /\ worker'[Len(worker) + 1] = "resolve"
      /\ \A j \in 1..Len(worker) : worker'[j] = worker[j]
  BY <1>1
<1>3. Running' = Running \cup {Len(worker) + 1}
  BY <1>1, <1>2 DEF Running
<1>4. IsFiniteSet(Running) /\ Cardinality(Running) \in Nat
  BY <1>1, RunningIsFinite
<1>5. Len(worker) + 1 \notin Running
  BY <1>1 DEF Running
<1>6. Cardinality(Running') = Cardinality(Running) + 1
  BY <1>3, <1>4, <1>5, FS_AddElement
<1>7. Cardinality(Running) < MaxParallel
  BY DEF Spawn, HasSlot
<1>8. Len(placed') <= Len(worker') + 1
  <2>1. Len(placed) = Len(worker) + 1 /\ placed' = placed
    BY DEF Spawn, Aligned
  <2> QED
    BY <1>1, <1>2, <2>1
<1> QED
  BY <1>4, <1>6, <1>7, <1>8, MaxParallelAssumption DEF Bounded

(***************************************************************************)
(* The semaphore bounds the workers, whatever they and the reader do.      *)
(***************************************************************************)
LEMMA UploadBounded == Spec => []Bounded
<1>1. Init => Bounded
  <2> SUFFICES ASSUME Init PROVE Bounded
    OBVIOUS
  <2>1. Len(placed) = 0 /\ Len(worker) = 0
    BY DEF Init, P!Init
  <2>2. Running = {}
    BY <2>1 DEF Running
  <2> QED
    BY <2>1, <2>2, FS_EmptySet, MaxParallelAssumption DEF Bounded
<1>2. TypeOK /\ Aligned /\ Bounded /\ TypeOK' /\ Aligned' /\ [Next]_vars => Bounded'
  <2> SUFFICES ASSUME TypeOK, Aligned, Bounded, TypeOK', Aligned', [Next]_vars
               PROVE  Bounded'
    OBVIOUS
  <2>1. CASE Spawn
    BY <2>1, SpawnKeepsBounded
  <2>2. CASE \E i \in 1..Len(worker) : Work(i)
    BY <2>2, WorkKeepsBounded
  <2>3. ASSUME UNCHANGED worker, UNCHANGED placed \/ pc' # "crashed" PROVE Bounded'
    <3>1. Running' = Running
      BY <2>3 DEF Running
    <3>2. Len(placed') <= Len(worker') + 1
      <4>1. Len(placed') \in Nat /\ Len(worker') \in Nat
        BY DEF TypeOK, P!TypeOK
      <4>2. CASE UNCHANGED placed
        BY <2>3, <4>2 DEF Bounded
      <4>3. CASE pc' # "crashed"
        BY <4>1, <4>3 DEF Aligned
      <4> QED
        BY <2>3, <4>2, <4>3
    <3> QED
      BY <3>1, <3>2 DEF Bounded
  <2>4. CASE Reader /\ ~Spawn
    <3>1. UNCHANGED worker /\ pc' # "crashed"
      BY <2>4 DEF Reader, Return, Plan, PlanFails, ReadChunk, ReadFails, ReserveFails,
           LoopEnds, WaitAll, CleanupChunk, CleanupEnds, CreateVirtualFile,
           CreateVirtualFileFails, AddChunk, AddChunkFails, SetComplete, SetCompleteFails
    <3> QED
      BY <2>3, <3>1
  <2>5. CASE Cancel \/ Crash \/ Stopped \/ UNCHANGED vars
    <3>1. UNCHANGED worker /\ UNCHANGED placed
      BY <2>5 DEF Cancel, Crash, Stopped, vars
    <3> QED
      BY <2>3, <3>1
  <2> QED
    BY <2>1, <2>2, <2>4, <2>5 DEF Next
<1> QED
  BY <1>1, <1>2, UploadTypeOK, PTL DEF Spec

(***************************************************************************)
(* PutStream holds at most MaxParallel + 1 chunks in memory, whatever the  *)
(* size of the file: the ones of the running workers and the reader's own. *)
(***************************************************************************)
THEOREM BuffersAreBounded == Spec => []BuffersBounded
<1>1. TypeOK /\ Bounded => BuffersBounded
  <2> SUFFICES ASSUME TypeOK, Bounded PROVE BuffersBounded
    OBVIOUS
  <2> DEFINE All == 1..Len(worker)
             Done == {i \in All : worker[i] = "done"}
  <2>1. worker \in Seq(WorkerState) /\ Len(worker) \in Nat /\ Len(placed) \in Nat
    BY DEF TypeOK, P!TypeOK
  <2>2. Cardinality(Running) \in Nat
    BY <2>1, RunningIsFinite
  <2>3. IsFiniteSet(All) /\ Cardinality(All) = Len(worker)
    <3>1. 1 \in Int /\ Len(worker) \in Int
      BY <2>1
    <3>2. /\ IsFiniteSet(1..Len(worker))
          /\ Cardinality(1..Len(worker)) =
               IF 1 > Len(worker) THEN 0 ELSE Len(worker) - 1 + 1
      BY <3>1, FS_Interval, Zenon
    <3>3. (IF 1 > Len(worker) THEN 0 ELSE Len(worker) - 1 + 1) = Len(worker)
      BY <2>1
    <3> QED
      BY <3>2, <3>3
  <2>4. Done = All \ Running /\ All \cap Running = Running
    BY DEF Running
  <2>5. Cardinality(Done) = Len(worker) - Cardinality(Running)
    <3> HIDE DEF Done, All
    <3>1. Cardinality(All \ Running) = Cardinality(All) - Cardinality(All \cap Running)
      BY <2>3, FS_Difference
    <3> QED BY <2>3, <2>4, <3>1
  <2> QED
    BY <2>1, <2>2, <2>5, MaxParallelAssumption DEF Bounded, BuffersBounded
<1> QED
  BY <1>1, UploadBounded, UploadTypeOK, PTL

-----------------------------------------------------------------------------
(* The bytes of a complete file.                                           *)

(***************************************************************************)
(* Only a file whose chunks are all placed is ever complete.               *)
(***************************************************************************)
CompleteIsPlaced == vf = "complete" => phase = "placed"

LEMMA CompleteIsAlwaysPlaced == Spec => []CompleteIsPlaced
<1>1. Init => CompleteIsPlaced
  BY DEF Init, CompleteIsPlaced
<1>2. UploadInv /\ CompleteIsPlaced /\ [Next]_vars => CompleteIsPlaced'
  <2> SUFFICES ASSUME UploadInv, CompleteIsPlaced, [Next]_vars, vf' = "complete"
               PROVE  phase' = "placed"
    BY DEF CompleteIsPlaced
  <2>1. CASE SetComplete \/ SetCompleteFails
    BY <2>1 DEF SetComplete, SetCompleteFails, UploadInv, Recording
  <2>2. CASE vf = "complete"
    <3>1. phase = "placed" /\ pc = "returned"
      BY <2>2 DEF CompleteIsPlaced, UploadInv, Recording
    <3>2. ~Reader
      BY <3>1 DEF Reader, Plan, PlanFails, ReadChunk, ReadFails, ReserveFails, LoopEnds,
             Spawn, WaitAll, CleanupChunk, CleanupEnds, CreateVirtualFile,
             CreateVirtualFileFails, AddChunk, AddChunkFails, SetComplete, SetCompleteFails
    <3>3. UNCHANGED phase
      BY <3>2 DEF Next, Work, Cancel, Crash, Stopped, vars
    <3> QED
      BY <3>1, <3>3
  <2>3. CASE vf # "complete"
    <3>1. CASE Reader
      BY <2>1, <2>3, <3>1 DEF Reader, Plan, PlanFails, ReadChunk, ReadFails, ReserveFails,
             LoopEnds, Spawn, WaitAll, CleanupChunk, CleanupEnds, CreateVirtualFile,
             CreateVirtualFileFails, AddChunk, AddChunkFails
    <3>2. CASE (\E i \in 1..Len(worker) : Work(i)) \/ Cancel \/ Crash \/ Stopped
                 \/ UNCHANGED vars
      BY <2>3, <3>2 DEF Work, Cancel, Crash, Stopped, vars
    <3> QED
      BY <3>1, <3>2 DEF Next
  <2> QED
    BY <2>2, <2>3
<1> QED
  BY <1>1, <1>2, UploadInvariant, PTL DEF Spec

(***************************************************************************)
(* A complete file has all its bytes on Drive: what Placement guarantees   *)
(* of the pieces (SplitMakesWhole) and what PutStream guarantees of the    *)
(* chunks, put together.                                                   *)
(***************************************************************************)
THEOREM CompleteFilesAreWhole == Spec => []CompleteMeansWhole
<1>1. PP!Spec => []PP!SplitIsWhole
  BY PP!SplitMakesWhole, ChunkSizeAssumption, SizesAssumption, QuotasAssumption,
     MaxInt64Assumption, NoAccountAssumption
     DEF P!QuotaAnswer, PP!QuotaAnswer, P!NoAccount, PP!NoAccount
<1>2. PP!SplitIsWhole /\ UploadInv /\ CompleteIsPlaced => CompleteMeansWhole
  <2> SUFFICES ASSUME PP!SplitIsWhole, UploadInv, CompleteIsPlaced, vf = "complete"
               PROVE  P!BytesPlaced = size
    BY DEF CompleteMeansWhole, UploadInv
  <2>1. PP!BytesPlaced = size
    BY DEF PP!SplitIsWhole, CompleteIsPlaced
  <2>2. P!BytesPlaced = PP!BytesPlaced
    BY DEF P!BytesPlaced, PP!BytesPlaced, P!PieceLens, PP!PieceLens, P!Total, PP!Total
  <2> QED
    BY <2>1, <2>2
<1> QED
  BY <1>1, <1>2, PlacementSpecHere, UploadInvariant, CompleteIsAlwaysPlaced, PTL

-----------------------------------------------------------------------------
(* Why PutStream returns: nobody waits for ever, and nobody goes back.     *)

(***************************************************************************)
(* The folder mutex is held by a worker that is inside EnsureFolder: every *)
(* way out of it, the failures too, has given the mutex back.              *)
(***************************************************************************)
LockOwned == folderLock # 0 => worker[folderLock] \in {"list", "mkdir"}

LEMMA LockIsOwned == Spec => []LockOwned
<1>1. Init => LockOwned
  BY DEF Init, LockOwned
<1>2. UploadInv /\ LockOwned /\ [Next]_vars => LockOwned'
  <2> SUFFICES ASSUME UploadInv, LockOwned, [Next]_vars PROVE LockOwned'
    OBVIOUS
  <2>0. worker \in Seq(WorkerState) /\ folderLock \in 0..Len(worker) /\ Len(worker) \in Nat
    BY DEF UploadInv, TypeOK
  <2>1. CASE Spawn
    <3>1. UNCHANGED folderLock /\ \A i \in 1..Len(worker) : worker'[i] = worker[i]
      BY <2>0, <2>1 DEF Spawn
    <3> QED
      BY <2>0, <3>1 DEF LockOwned
  <2>2. ASSUME NEW i \in 1..Len(worker), Work(i) PROVE LockOwned'
    <3>1. PICK s \in WorkerState : Go(i, s)
      BY <2>2 DEF Work, WorkerState, Resolve, ListFolder, CreateFolder, FolderFails,
           CreateFolderLost, UploadChunk, UploadFails, UploadStoredButFails, Report
    <3>2. \A j \in 1..Len(worker) : worker'[j] = IF j = i THEN s ELSE worker[j]
      BY <2>0, <3>1, GoEffect
    <3>3. CASE Resolve(i)
      <4>1. \/ folderLock' = 0
            \/ folderLock' = i /\ worker'[i] = "list"
        BY <2>0, <2>2, <3>3, GoEffect DEF Resolve, WorkerState
      <4> QED
        BY <4>1 DEF LockOwned
    <3>4. CASE ListFolder(i) \/ CreateFolder(i) \/ FolderFails(i) \/ CreateFolderLost(i)
      <4>1. worker[i] \in {"list", "mkdir"}
        BY <3>4 DEF ListFolder, CreateFolder, FolderFails, CreateFolderLost
      <4>2. folderLock = i
        BY <2>2, <4>1 DEF UploadInv, LockHeld
      <4>3. \/ folderLock' = 0
            \/ folderLock' = i /\ worker'[i] = "mkdir"
        BY <2>0, <2>2, <3>4, <4>2, GoEffect
           DEF ListFolder, CreateFolder, FolderFails, CreateFolderLost, WorkerState
      <4> QED
        BY <4>3 DEF LockOwned
    <3>5. CASE UploadChunk(i) \/ UploadFails(i) \/ UploadStoredButFails(i) \/ Report(i)
      <4>1. UNCHANGED folderLock /\ worker[i] \notin {"list", "mkdir"}
        BY <3>5 DEF UploadChunk, UploadFails, UploadStoredButFails, Report
      <4> QED
        BY <2>0, <3>2, <4>1 DEF LockOwned
    <3> QED
      BY <2>2, <3>3, <3>4, <3>5 DEF Work
  <2>3. CASE Reader /\ ~Spawn
    <3>1. UNCHANGED <<worker, folderLock>>
      BY <2>3 DEF Reader, Plan, PlanFails, ReadChunk, ReadFails, ReserveFails,
           LoopEnds, WaitAll, CleanupChunk, CleanupEnds, CreateVirtualFile,
           CreateVirtualFileFails, AddChunk, AddChunkFails, SetComplete, SetCompleteFails
    <3> QED
      BY <3>1 DEF LockOwned
  <2>4. CASE Cancel \/ Crash \/ Stopped \/ UNCHANGED vars
    <3>1. UNCHANGED <<worker, folderLock>>
      BY <2>4 DEF Cancel, Crash, Stopped, vars
    <3> QED
      BY <3>1 DEF LockOwned
  <2> QED
    BY <2>1, <2>2, <2>3, <2>4 DEF Next
<1> QED
  BY <1>1, <1>2, UploadInvariant, PTL DEF Spec

(***************************************************************************)
(* PutStream never deadlocks, however many chunks and however few slots:   *)
(* a worker that waits for the folder mutex waits for one that runs.       *)
(***************************************************************************)
THEOREM UploadNeverStuck == Spec => []NeverStuck
<1>1. UploadInv /\ LockOwned => NeverStuck
  <2> SUFFICES ASSUME UploadInv, LockOwned, ReaderBlocked
               PROVE  \E i \in Running : ~WorkerBlocked(i)
    BY DEF NeverStuck
  <2>1. Running # {}
    <3>1. CASE ~HasSlot
      BY <3>1, FS_EmptySet, MaxParallelAssumption DEF HasSlot
    <3> QED
      BY <3>1 DEF ReaderBlocked
  <2>2. CASE folderLock = 0
    BY <2>1, <2>2 DEF WorkerBlocked
  <2>3. CASE folderLock # 0
    <3>1. folderLock \in 1..Len(worker) /\ worker[folderLock] \in {"list", "mkdir"}
      BY <2>3 DEF UploadInv, TypeOK, LockOwned
    <3>2. folderLock \in Running /\ ~WorkerBlocked(folderLock)
      BY <3>1 DEF Running, WorkerBlocked
    <3> QED
      BY <3>2
  <2> QED
    BY <2>2, <2>3
<1> QED
  BY <1>1, UploadInvariant, LockIsOwned, PTL

(* What is left to do: the stages the reader has not reached, the pieces   *)
(* not yet placed, the uploaded chunks still to delete or record, the      *)
(* steps of every chunk's worker, and a cancellation.                      *)
StagesLeft ==
  CASE pc = "plan" -> 1..5 [] pc \in {"read", "acquire"} -> 1..4
    [] pc = "wait" -> 1..3 [] pc = "create" -> 1..2
    [] pc \in {"cleanup", "record"} -> {1} [] OTHER -> {}

ToPlace == (Len(placed) + 1)..P!NumChunks

ToVisit ==
  IF pc \in {"cleanup", "record"} THEN todo
  ELSE IF Ended THEN {} ELSE 1..P!NumChunks

WorkerSteps(i) ==
  IF i > Len(worker) THEN 6
  ELSE CASE worker[i] = "resolve" -> 5 [] worker[i] = "list" -> 4
         [] worker[i] = "mkdir" -> 3 [] worker[i] = "upload" -> 2
         [] worker[i] = "done" -> 0 [] OTHER -> 1

ToWork == {w \in (1..P!NumChunks) \X (1..6) : w[2] <= WorkerSteps(w[1])}

ToCancel == IF cancelled THEN {} ELSE {1}

Left == <<StagesLeft, ToPlace, ToVisit, ToWork, ToCancel>>

(* Something is taken off what is left, and nothing is added.              *)
Forward ==
  /\ StagesLeft' \subseteq StagesLeft
  /\ ToPlace' \subseteq ToPlace
  /\ ToVisit' \subseteq ToVisit
  /\ ToWork' \subseteq ToWork
  /\ ToCancel' \subseteq ToCancel
  /\ Left' # Left

(***************************************************************************)
(* PutStream never goes back: every step of the reader or of a worker, a   *)
(* failure, a cancellation or a crash takes something off what is left to  *)
(* do and adds nothing to it; nothing is tried again.                      *)
(***************************************************************************)
Advances == [][Forward]_vars

(***************************************************************************)
(* The number of chunks is fixed, and no more are placed or uploaded.      *)
(***************************************************************************)
WithinFile ==
  /\ P!NumChunks \in Nat
  /\ Len(placed) <= P!NumChunks

LEMMA AlwaysWithinFile == Spec => []WithinFile
<1>1. PP!Spec => []PP!Cut
  BY PP!CutInvariant, ChunkSizeAssumption, SizesAssumption, QuotasAssumption,
     MaxInt64Assumption, NoAccountAssumption
     DEF P!QuotaAnswer, PP!QuotaAnswer, P!NoAccount, PP!NoAccount
<1>2. PP!Cut /\ TypeOK => WithinFile
  <2> SUFFICES ASSUME PP!Cut, TypeOK PROVE WithinFile
    OBVIOUS
  <2>1. size \in Nat /\ ChunkSize \in Nat \ {0}
    BY ChunkSizeAssumption DEF TypeOK, P!TypeOK
  <2>2. P!NumChunks \in Nat
    BY <2>1 DEF P!NumChunks
  <2>3. Len(placed) <= P!NumChunks
    BY DEF PP!Cut, PP!NumChunks, P!NumChunks
  <2> QED
    BY <2>2, <2>3 DEF WithinFile
<1> QED
  BY <1>1, <1>2, PlacementSpecHere, UploadTypeOK, PTL

LEMMA NumChunksFixed ==
  ASSUME [Next]_vars
  PROVE  P!NumChunks' = P!NumChunks
<1>1. UNCHANGED size
  <2>1. CASE Plan \/ PlanFails \/ ReadChunk \/ ReserveFails \/ LoopEnds
    BY <2>1 DEF Plan, PlanFails, ReadChunk, ReserveFails, LoopEnds, P!PlanSingle,
           P!PlanTracker, P!PlanFails, P!Place, P!Refuse, P!AllPlaced
  <2>2. CASE ReadFails \/ Spawn \/ WaitAll \/ CleanupChunk \/ CleanupEnds
    BY <2>2 DEF ReadFails, Spawn, WaitAll, CleanupChunk, CleanupEnds
  <2>3. CASE CreateVirtualFile \/ CreateVirtualFileFails \/ AddChunk \/ AddChunkFails
               \/ SetComplete \/ SetCompleteFails
    BY <2>3 DEF CreateVirtualFile, CreateVirtualFileFails, AddChunk, AddChunkFails,
           SetComplete, SetCompleteFails
  <2>4. CASE (\E i \in 1..Len(worker) : Work(i)) \/ Cancel \/ Crash \/ Stopped
               \/ UNCHANGED vars
    BY <2>4 DEF Work, Cancel, Crash, Stopped, vars
  <2> QED
    BY <2>1, <2>2, <2>3, <2>4 DEF Next, Reader
<1> QED
  BY <1>1 DEF P!NumChunks

(***************************************************************************)
(* A worker has at most six steps to go, counting its start.               *)
(***************************************************************************)
LEMMA WorkerStepsBounds ==
  ASSUME NEW w \in Seq(WorkerState), NEW i \in Nat \ {0}
  PROVE  (IF i > Len(w) THEN 6
          ELSE CASE w[i] = "resolve" -> 5 [] w[i] = "list" -> 4
                 [] w[i] = "mkdir" -> 3 [] w[i] = "upload" -> 2
                 [] w[i] = "done" -> 0 [] OTHER -> 1) \in 0..6
<1>1. CASE i > Len(w)
  BY <1>1
<1>2. CASE ~(i > Len(w))
  <2>1. i \in 1..Len(w)
    BY <1>2
  <2>2. w[i] \in WorkerState
    BY <2>1
  <2> QED
    BY <1>2, <2>2 DEF WorkerState
<1> QED
  BY <1>1, <1>2

(***************************************************************************)
(* A step that brings one worker forward and none back takes something off *)
(* ToWork.                                                                 *)
(***************************************************************************)
LEMMA ToWorkShrinks ==
  ASSUME TypeOK, TypeOK', P!NumChunks \in Nat, P!NumChunks' = P!NumChunks,
         NEW i \in 1..P!NumChunks,
         WorkerSteps(i)' < WorkerSteps(i),
         \A j \in 1..P!NumChunks : j # i => WorkerSteps(j)' = WorkerSteps(j)
  PROVE  ToWork' \subseteq ToWork /\ ToWork' # ToWork
<1>1. \A j \in 1..P!NumChunks : WorkerSteps(j) \in 0..6 /\ WorkerSteps(j)' \in 0..6
  <2> SUFFICES ASSUME NEW j \in 1..P!NumChunks
               PROVE  WorkerSteps(j) \in 0..6 /\ WorkerSteps(j)' \in 0..6
    OBVIOUS
  <2>1. j \in Nat \ {0}
    OBVIOUS
  <2>2. worker \in Seq(WorkerState) /\ worker' \in Seq(WorkerState)
    BY DEF TypeOK
  <2>3. WorkerSteps(j) \in 0..6
    BY <2>1, <2>2, WorkerStepsBounds, Zenon DEF WorkerSteps
  <2>4. WorkerSteps(j)' \in 0..6
    BY <2>1, <2>2, WorkerStepsBounds, Zenon DEF WorkerSteps
  <2> QED
    BY <2>3, <2>4
<1>2. ASSUME NEW w \in ToWork' PROVE w \in ToWork
  <2>1. w \in (1..P!NumChunks) \X (1..6) /\ w[2] <= WorkerSteps(w[1])'
    BY DEF ToWork
  <2>2. w[1] \in 1..P!NumChunks /\ w[2] \in 1..6
    BY <2>1
  <2>3. w[2] <= WorkerSteps(w[1])
    <3>1. CASE w[1] = i
      BY <1>1, <2>1, <2>2, <3>1
    <3>2. CASE w[1] # i
      BY <2>1, <2>2, <3>2
    <3> QED
      BY <3>1, <3>2
  <2> QED
    BY <2>1, <2>3 DEF ToWork
<1>3. PICK n \in 1..6 : n = WorkerSteps(i)
  BY <1>1
<1>4. <<i, n>> \in ToWork
  BY <1>3 DEF ToWork
<1>5. <<i, n>> \notin ToWork'
  BY <1>1, <1>3 DEF ToWork
<1> QED
  BY <1>2, <1>4, <1>5

(***************************************************************************)
(* A step of a worker, and the start of one.                               *)
(***************************************************************************)
LEMMA WorkAdvances ==
  ASSUME TypeOK, TypeOK', WithinFile, P!NumChunks' = P!NumChunks,
         NEW i \in 1..Len(worker), Work(i)
  PROVE  /\ UNCHANGED <<StagesLeft, ToPlace, ToVisit, ToCancel>>
         /\ ToWork' \subseteq ToWork /\ ToWork' # ToWork
<1>0. /\ Len(worker) \in Nat /\ Len(placed) \in Nat /\ Len(worker) <= Len(placed)
      /\ P!NumChunks \in Nat /\ Len(placed) <= P!NumChunks
  BY DEF TypeOK, P!TypeOK, WithinFile
<1>1. UNCHANGED <<StagesLeft, ToPlace, ToVisit, ToCancel>>
  BY DEF Work, StagesLeft, ToPlace, ToVisit, ToCancel, Ended
<1>2. i \in 1..P!NumChunks
  BY <1>0
<1>3. PICK s \in WorkerState :
        /\ Go(i, s)
        /\ \/ worker[i] = "resolve" /\ s \in {"list", "upload"}
           \/ worker[i] = "list" /\ s \in {"mkdir", "upload", "failed"}
           \/ worker[i] = "mkdir" /\ s \in {"upload", "failed"}
           \/ worker[i] = "upload" /\ s \in {"uploaded", "failed"}
           \/ worker[i] \in {"uploaded", "failed"} /\ s = "done"
  BY DEF Work, WorkerState, Resolve, ListFolder, CreateFolder, FolderFails, CreateFolderLost,
         UploadChunk, UploadFails, UploadStoredButFails, Report
<1>4. /\ Len(worker') = Len(worker)
      /\ worker'[i] = s
      /\ \A j \in 1..Len(worker) : j # i => worker'[j] = worker[j]
  BY <1>3, GoEffect DEF TypeOK
<1>5. WorkerSteps(i)' < WorkerSteps(i)
  <2>1. ~(i > Len(worker)) /\ ~(i > Len(worker'))
    BY <1>0, <1>4
  <2>2. CASE worker[i] = "resolve"
    BY <1>3, <1>4, <2>1, <2>2 DEF WorkerSteps
  <2>3. CASE worker[i] = "list"
    BY <1>3, <1>4, <2>1, <2>3 DEF WorkerSteps
  <2>4. CASE worker[i] = "mkdir"
    BY <1>3, <1>4, <2>1, <2>4 DEF WorkerSteps
  <2>5. CASE worker[i] = "upload"
    BY <1>3, <1>4, <2>1, <2>5 DEF WorkerSteps
  <2>6. CASE worker[i] \in {"uploaded", "failed"}
    BY <1>3, <1>4, <2>1, <2>6 DEF WorkerSteps
  <2> QED
    BY <1>3, <2>2, <2>3, <2>4, <2>5, <2>6
<1>6. ASSUME NEW j \in 1..P!NumChunks, j # i PROVE WorkerSteps(j)' = WorkerSteps(j)
  <2>1. j > Len(worker) \/ worker'[j] = worker[j]
    BY <1>0, <1>4, <1>6
  <2> QED
    BY <1>4, <2>1 DEF WorkerSteps
<1> QED
  BY <1>0, <1>1, <1>2, <1>5, <1>6, ToWorkShrinks

LEMMA SpawnAdvances ==
  ASSUME TypeOK, TypeOK', Aligned, WithinFile, P!NumChunks' = P!NumChunks, Spawn
  PROVE  /\ UNCHANGED <<StagesLeft, ToPlace, ToVisit, ToCancel>>
         /\ ToWork' \subseteq ToWork /\ ToWork' # ToWork
<1>0. /\ Len(worker) \in Nat /\ Len(placed) = Len(worker) + 1
      /\ P!NumChunks \in Nat /\ Len(placed) <= P!NumChunks
  BY DEF TypeOK, WithinFile, Aligned, Spawn
<1>1. UNCHANGED <<StagesLeft, ToPlace, ToVisit, ToCancel>>
  BY DEF Spawn, StagesLeft, ToPlace, ToVisit, ToCancel, Ended
<1>2. PICK n \in 1..P!NumChunks : n = Len(worker) + 1
  BY <1>0
<1>3. /\ Len(worker') = n /\ worker'[n] = "resolve"
      /\ \A j \in 1..Len(worker) : worker'[j] = worker[j]
  BY <1>2 DEF Spawn, TypeOK
<1>4. WorkerSteps(n)' < WorkerSteps(n)
  <2>1. n > Len(worker) /\ ~(n > n)
    BY <1>0, <1>2
  <2> QED
    BY <1>3, <2>1 DEF WorkerSteps
<1>5. ASSUME NEW j \in 1..P!NumChunks, j # n PROVE WorkerSteps(j)' = WorkerSteps(j)
  <2>1. CASE j \in 1..Len(worker)
    <3>1. ~(j > Len(worker)) /\ ~(j > n)
      BY <1>0, <1>2, <2>1
    <3> QED
      BY <1>3, <2>1, <3>1 DEF WorkerSteps
  <2>2. CASE j > n
    <3>1. j > Len(worker)
      BY <1>0, <1>2, <2>2
    <3> QED
      BY <1>3, <2>2, <3>1 DEF WorkerSteps
  <2> QED
    BY <1>0, <1>2, <1>5, <2>1, <2>2
<1> QED
  BY <1>0, <1>1, <1>4, <1>5, ToWorkShrinks

(***************************************************************************)
(* The stages shrink from one to the next.                                 *)
(***************************************************************************)
LEMMA StagesDescend ==
  /\ 1..4 \subseteq 1..5 /\ 1..4 # 1..5 /\ {} # 1..5
  /\ 1..3 \subseteq 1..4 /\ 1..3 # 1..4 /\ {} # 1..4
  /\ 1..2 \subseteq 1..3 /\ 1..2 # 1..3 /\ {} # 1..3
  /\ {1} \subseteq 1..3 /\ {1} # 1..3
  /\ {1} \subseteq 1..2 /\ {1} # 1..2 /\ {} # 1..2
<1>1. 5 \in 1..5 /\ 5 \notin 1..4 /\ 4 \in 1..4 /\ 4 \notin 1..3 /\ 3 \in 1..3 /\ 3 \notin 1..2
  OBVIOUS
<1>2. 3 \notin {1} /\ 2 \in 1..2 /\ 2 \notin {1}
  OBVIOUS
<1>3. 1..4 \subseteq 1..5 /\ 1..3 \subseteq 1..4 /\ 1..2 \subseteq 1..3 /\ {1} \subseteq 1..3
      /\ {1} \subseteq 1..2
  OBVIOUS
<1> QED
  BY <1>1, <1>2, <1>3

(***************************************************************************)
(* The steps of the reader up to wg.Wait, and the ones after it.           *)
(***************************************************************************)
LEMMA LoopAdvances ==
  ASSUME TypeOK, TypeOK', WithinFile, P!NumChunks' = P!NumChunks,
         Plan \/ PlanFails \/ ReadChunk \/ ReadFails \/ ReserveFails \/ LoopEnds
  PROVE  Forward
<1>0. Len(placed) \in Nat /\ P!NumChunks \in Nat /\ placed \in Seq(P!Chunk)
  BY DEF TypeOK, P!TypeOK, WithinFile
<1>1. UNCHANGED <<ToWork, ToCancel>>
  <2>1. UNCHANGED <<worker, cancelled>>
    BY DEF Plan, PlanFails, ReadChunk, ReadFails, ReserveFails, LoopEnds
  <2> QED
    BY <2>1 DEF ToWork, WorkerSteps, ToCancel
<1>2. CASE ReadChunk
  <2>1. pc = "read" /\ pc' = "acquire" /\ Len(placed) < P!NumChunks
        /\ Len(placed') = Len(placed) + 1
    BY <1>0, <1>2 DEF ReadChunk, P!Place, P!More
  <2>2. UNCHANGED <<StagesLeft, ToVisit>>
    BY <2>1 DEF StagesLeft, ToVisit, Ended
  <2>3. PICK n \in Nat : n = Len(placed) + 1
    BY <1>0
  <2>4. n \in ToPlace /\ n \notin ToPlace' /\ ToPlace' \subseteq ToPlace
    BY <1>0, <2>1, <2>3 DEF ToPlace
  <2> QED
    BY <1>1, <2>2, <2>4 DEF Forward, Left
<1>3. CASE Plan \/ PlanFails \/ ReadFails \/ ReserveFails \/ LoopEnds
  <2>1. UNCHANGED ToPlace
    BY <1>3 DEF Plan, PlanFails, ReadFails, ReserveFails, LoopEnds, P!PlanSingle,
           P!PlanTracker, P!PlanFails, P!Refuse, P!AllPlaced, ToPlace
  <2>2. \/ pc = "plan" /\ pc' \in {"read", "returned"}
        \/ pc = "read" /\ pc' = "wait"
    BY <1>3 DEF Plan, PlanFails, ReadFails, ReserveFails, LoopEnds, Return
  <2>3. \/ StagesLeft = 1..5 /\ StagesLeft' \in {1..4, {}}
        \/ StagesLeft = 1..4 /\ StagesLeft' = 1..3
    BY <2>2 DEF StagesLeft
  <2>4. StagesLeft' \subseteq StagesLeft /\ StagesLeft' # StagesLeft
    BY <2>3, StagesDescend
  <2>5. ToVisit' \subseteq ToVisit
    BY <2>2 DEF ToVisit, Ended
  <2> QED
    BY <1>1, <2>1, <2>4, <2>5 DEF Forward, Left
<1> QED
  BY <1>2, <1>3

LEMMA EndAdvances ==
  ASSUME TypeOK, TypeOK', WithinFile, P!NumChunks' = P!NumChunks,
         \/ WaitAll \/ CleanupChunk \/ CleanupEnds
         \/ CreateVirtualFile \/ CreateVirtualFileFails
         \/ AddChunk \/ AddChunkFails \/ SetComplete \/ SetCompleteFails
  PROVE  Forward
<1>1. UNCHANGED <<ToPlace, ToWork, ToCancel>>
  <2>1. UNCHANGED <<worker, placed, cancelled>>
    BY DEF WaitAll, CleanupChunk, CleanupEnds, CreateVirtualFile, CreateVirtualFileFails,
           AddChunk, AddChunkFails, SetComplete, SetCompleteFails
  <2> QED
    BY <2>1 DEF ToPlace, ToWork, WorkerSteps, ToCancel
<1>2. results \subseteq 1..P!NumChunks /\ todo \subseteq Nat
  BY DEF TypeOK, P!TypeOK, Chunks, WithinFile
<1>3. CASE CleanupChunk \/ AddChunk
  <2>1. pc \in {"cleanup", "record"} /\ pc' = pc /\ todo # {} /\ todo' = todo \ {Min(todo)}
    BY <1>3 DEF CleanupChunk, AddChunk
  <2>2. Min(todo) \in todo
    BY <1>2, <2>1, MinInSet
  <2>3. UNCHANGED StagesLeft /\ ToVisit = todo /\ ToVisit' = todo'
    BY <2>1 DEF StagesLeft, ToVisit
  <2> QED
    BY <1>1, <2>1, <2>2, <2>3 DEF Forward, Left
<1>4. CASE WaitAll \/ CreateVirtualFile \/ CreateVirtualFileFails
  <2>1. /\ todo' = results
        /\ \/ pc = "wait" /\ pc' \in {"create", "cleanup"}
           \/ pc = "create" /\ pc' \in {"record", "cleanup"}
    BY <1>4 DEF WaitAll, CreateVirtualFile, CreateVirtualFileFails
  <2>2. \/ StagesLeft = 1..3 /\ StagesLeft' \in {1..2, {1}}
        \/ StagesLeft = 1..2 /\ StagesLeft' = {1}
    BY <2>1 DEF StagesLeft
  <2>3. StagesLeft' \subseteq StagesLeft /\ StagesLeft' # StagesLeft
    BY <2>2, StagesDescend
  <2>4. ToVisit' \subseteq ToVisit
    <3>1. ToVisit = 1..P!NumChunks
      BY <2>1 DEF ToVisit, Ended
    <3>2. ToVisit' \in {results, 1..P!NumChunks}
      BY <2>1 DEF ToVisit, Ended
    <3> QED
      BY <1>2, <3>1, <3>2
  <2> QED
    BY <1>1, <2>3, <2>4 DEF Forward, Left
<1>5. CASE CleanupEnds \/ AddChunkFails \/ SetComplete \/ SetCompleteFails
  <2>1. pc \in {"cleanup", "record"} /\ pc' = "returned"
    BY <1>5 DEF CleanupEnds, AddChunkFails, SetComplete, SetCompleteFails, Return
  <2>2. StagesLeft = {1} /\ StagesLeft' = {} /\ ToVisit' = {}
    BY <2>1 DEF StagesLeft, ToVisit, Ended
  <2> QED
    BY <1>1, <2>2 DEF Forward, Left
<1> QED
  BY <1>3, <1>4, <1>5

(***************************************************************************)
(* A cancellation happens once, and a crash ends everything.               *)
(***************************************************************************)
LEMMA FaultAdvances ==
  ASSUME TypeOK, TypeOK', WithinFile, P!NumChunks' = P!NumChunks, Cancel \/ Crash
  PROVE  Forward
<1>1. UNCHANGED <<ToPlace, ToWork>>
  <2>1. UNCHANGED <<worker, placed>>
    BY DEF Cancel, Crash
  <2> QED
    BY <2>1 DEF ToPlace, ToWork, WorkerSteps
<1>2. CASE Cancel
  <2>1. ToCancel = {1} /\ ToCancel' = {}
    BY <1>2 DEF Cancel, ToCancel
  <2>2. UNCHANGED <<StagesLeft, ToVisit>>
    BY <1>2 DEF Cancel, StagesLeft, ToVisit, Ended
  <2> QED
    BY <1>1, <2>1, <2>2 DEF Forward, Left
<1>3. CASE Crash
  <2>1. UNCHANGED ToCancel /\ pc' = "crashed"
    BY <1>3 DEF Crash, ToCancel
  <2>2. pc \in {"plan", "read", "acquire", "wait", "cleanup", "create", "record"}
    BY <1>3 DEF Crash, Ended, TypeOK
  <2>3. StagesLeft' = {} /\ ToVisit' = {}
    BY <2>1 DEF StagesLeft, ToVisit, Ended
  <2>4. StagesLeft \in {1..5, 1..4, 1..3, 1..2, {1}}
    BY <2>2 DEF StagesLeft
  <2>5. StagesLeft # {}
    BY <2>4, StagesDescend
  <2> QED
    BY <1>1, <2>1, <2>3, <2>5 DEF Forward, Left
<1> QED
  BY <1>2, <1>3

(***************************************************************************)
(* Every step of PutStream brings the call forward.                        *)
(***************************************************************************)
THEOREM UploadAdvances == Spec => Advances
<1>1. TypeOK /\ Aligned /\ TypeOK' /\ WithinFile /\ [Next]_vars => [Forward]_vars
  <2> SUFFICES ASSUME TypeOK, Aligned, TypeOK', WithinFile, [Next]_vars, ~UNCHANGED vars
               PROVE  Forward
    OBVIOUS
  <2>0. P!NumChunks' = P!NumChunks
    BY NumChunksFixed
  <2>1. CASE Plan \/ PlanFails \/ ReadChunk \/ ReadFails \/ ReserveFails \/ LoopEnds
    BY <2>0, <2>1, LoopAdvances
  <2>2. CASE \/ WaitAll \/ CleanupChunk \/ CleanupEnds
             \/ CreateVirtualFile \/ CreateVirtualFileFails
             \/ AddChunk \/ AddChunkFails \/ SetComplete \/ SetCompleteFails
    BY <2>0, <2>2, EndAdvances
  <2>3. CASE Spawn \/ \E i \in 1..Len(worker) : Work(i)
    <3>1. /\ UNCHANGED <<StagesLeft, ToPlace, ToVisit, ToCancel>>
          /\ ToWork' \subseteq ToWork /\ ToWork' # ToWork
      BY <2>0, <2>3, SpawnAdvances, WorkAdvances
    <3> QED
      BY <3>1 DEF Forward, Left
  <2>4. CASE Cancel \/ Crash
    BY <2>0, <2>4, FaultAdvances
  <2> QED
    BY <2>1, <2>2, <2>3, <2>4 DEF Next, Reader, Stopped
<1> QED
  BY <1>1, UploadTypeOK, AlwaysWithinFile, PTL DEF Spec, Advances

(* How many steps that is.                                                 *)
StepsLeft ==
  Cardinality(StagesLeft) + Cardinality(ToPlace) + Cardinality(ToVisit)
    + Cardinality(ToWork) + Cardinality(ToCancel)

(* Five stages and a cancellation, and for each chunk its placement, its   *)
(* worker's six steps and a visit of the last loop.                        *)
MaxSteps == 6 + 8 * P!NumChunks

LeftFinite ==
  /\ IsFiniteSet(StagesLeft)
  /\ IsFiniteSet(ToPlace)
  /\ IsFiniteSet(ToVisit)
  /\ IsFiniteSet(ToWork)
  /\ IsFiniteSet(ToCancel)

(***************************************************************************)
(* A part of a finite set has fewer members, unless it is all of it.       *)
(***************************************************************************)
LEMMA PartIsSmaller ==
  ASSUME NEW S, IsFiniteSet(S), NEW T, T \subseteq S
  PROVE  /\ IsFiniteSet(T)
         /\ Cardinality(S) \in Nat /\ Cardinality(T) \in Nat
         /\ Cardinality(T) <= Cardinality(S)
         /\ T # S => Cardinality(T) < Cardinality(S)
<1>1. /\ IsFiniteSet(T) /\ Cardinality(T) <= Cardinality(S)
      /\ Cardinality(S) = Cardinality(T) => S = T
  BY FS_Subset
<1>2. Cardinality(S) \in Nat /\ Cardinality(T) \in Nat
  BY <1>1, FS_CardinalityType
<1> QED
  BY <1>1, <1>2

(***************************************************************************)
(* An interval from 1 has as many members as its upper end says.           *)
(***************************************************************************)
LEMMA UpTo ==
  ASSUME NEW n \in Nat
  PROVE  IsFiniteSet(1..n) /\ Cardinality(1..n) = n
<1>1. 1 \in Int /\ n \in Int
  OBVIOUS
<1>2. IsFiniteSet(1..n) /\ Cardinality(1..n) = IF 1 > n THEN 0 ELSE n - 1 + 1
  BY <1>1, FS_Interval, Zenon
<1> QED
  BY <1>2

(***************************************************************************)
(* A count of what is left to do, and how large it can be.                 *)
(***************************************************************************)
LEMMA LeftCounted ==
  ASSUME TypeOK, WithinFile
  PROVE  LeftFinite /\ StepsLeft \in 0..MaxSteps
<1>0. P!NumChunks \in Nat /\ 1 \in Nat /\ 5 \in Nat /\ 6 \in Nat
  BY DEF WithinFile
<1>1. /\ IsFiniteSet(1..5) /\ Cardinality(1..5) = 5
      /\ IsFiniteSet(1..6) /\ Cardinality(1..6) = 6
      /\ IsFiniteSet(1..1) /\ Cardinality(1..1) = 1
      /\ IsFiniteSet(1..P!NumChunks) /\ Cardinality(1..P!NumChunks) = P!NumChunks
  BY <1>0, UpTo, Zenon
<1>2. /\ IsFiniteSet((1..P!NumChunks) \X (1..6))
      /\ Cardinality((1..P!NumChunks) \X (1..6)) = P!NumChunks * 6
  <2>1. /\ IsFiniteSet((1..P!NumChunks) \X (1..6))
        /\ Cardinality((1..P!NumChunks) \X (1..6))
             = Cardinality(1..P!NumChunks) * Cardinality(1..6)
    BY <1>1, FS_Product, Zenon
  <2> QED
    BY <1>1, <2>1
<1>3. StagesLeft \subseteq 1..5 /\ ToCancel \subseteq 1..1
  BY DEF StagesLeft, ToCancel
<1>4. ToPlace \subseteq 1..P!NumChunks
  BY <1>0 DEF ToPlace, TypeOK, P!TypeOK
<1>5. ToVisit \subseteq 1..P!NumChunks
  <2>1. todo \subseteq 1..P!NumChunks
    BY DEF TypeOK, P!TypeOK, Chunks, WithinFile
  <2> QED
    BY <2>1 DEF ToVisit
<1>6. ToWork \subseteq (1..P!NumChunks) \X (1..6)
  BY DEF ToWork
<1>7. /\ IsFiniteSet(StagesLeft) /\ Cardinality(StagesLeft) \in Nat
      /\ Cardinality(StagesLeft) <= 5
  BY <1>1, <1>3, PartIsSmaller, Zenon
<1>8. /\ IsFiniteSet(ToPlace) /\ Cardinality(ToPlace) \in Nat
      /\ Cardinality(ToPlace) <= P!NumChunks
  BY <1>1, <1>4, PartIsSmaller, Zenon
<1>9. /\ IsFiniteSet(ToVisit) /\ Cardinality(ToVisit) \in Nat
      /\ Cardinality(ToVisit) <= P!NumChunks
  BY <1>1, <1>5, PartIsSmaller, Zenon
<1>10. /\ IsFiniteSet(ToWork) /\ Cardinality(ToWork) \in Nat
       /\ Cardinality(ToWork) <= P!NumChunks * 6
  BY <1>2, <1>6, PartIsSmaller, Zenon
<1>11. /\ IsFiniteSet(ToCancel) /\ Cardinality(ToCancel) \in Nat
       /\ Cardinality(ToCancel) <= 1
  BY <1>1, <1>3, PartIsSmaller, Zenon
<1> QED
  BY <1>0, <1>7, <1>8, <1>9, <1>10, <1>11 DEF LeftFinite, StepsLeft, MaxSteps

(***************************************************************************)
(* An upload of n chunks ends in at most 6 + 8n steps of the reader and    *)
(* the workers together, failures, a cancellation and a crash included, in *)
(* whatever order they come: each step lowers a count that starts no       *)
(* higher than that and never falls below 0.                               *)
(***************************************************************************)
StepsBounded == [](StepsLeft \in 0..MaxSteps) /\ [][StepsLeft' < StepsLeft]_vars

THEOREM UploadStepsBounded == Spec => StepsBounded
<1>1. TypeOK /\ WithinFile => StepsLeft \in 0..MaxSteps
  BY LeftCounted
<1>2. TypeOK /\ WithinFile /\ [Forward]_vars => [StepsLeft' < StepsLeft]_vars
  <2> SUFFICES ASSUME TypeOK, WithinFile, Forward PROVE StepsLeft' < StepsLeft
    OBVIOUS
  <2>1. LeftFinite
    BY LeftCounted
  <2>2. /\ Cardinality(StagesLeft) \in Nat /\ Cardinality(StagesLeft') \in Nat
        /\ Cardinality(StagesLeft') <= Cardinality(StagesLeft)
        /\ StagesLeft' # StagesLeft => Cardinality(StagesLeft') < Cardinality(StagesLeft)
    BY <2>1, PartIsSmaller, Zenon DEF LeftFinite, Forward
  <2>3. /\ Cardinality(ToPlace) \in Nat /\ Cardinality(ToPlace') \in Nat
        /\ Cardinality(ToPlace') <= Cardinality(ToPlace)
        /\ ToPlace' # ToPlace => Cardinality(ToPlace') < Cardinality(ToPlace)
    BY <2>1, PartIsSmaller, Zenon DEF LeftFinite, Forward
  <2>4. /\ Cardinality(ToVisit) \in Nat /\ Cardinality(ToVisit') \in Nat
        /\ Cardinality(ToVisit') <= Cardinality(ToVisit)
        /\ ToVisit' # ToVisit => Cardinality(ToVisit') < Cardinality(ToVisit)
    BY <2>1, PartIsSmaller, Zenon DEF LeftFinite, Forward
  <2>5. /\ Cardinality(ToWork) \in Nat /\ Cardinality(ToWork') \in Nat
        /\ Cardinality(ToWork') <= Cardinality(ToWork)
        /\ ToWork' # ToWork => Cardinality(ToWork') < Cardinality(ToWork)
    BY <2>1, PartIsSmaller, Zenon DEF LeftFinite, Forward
  <2>6. /\ Cardinality(ToCancel) \in Nat /\ Cardinality(ToCancel') \in Nat
        /\ Cardinality(ToCancel') <= Cardinality(ToCancel)
        /\ ToCancel' # ToCancel => Cardinality(ToCancel') < Cardinality(ToCancel)
    BY <2>1, PartIsSmaller, Zenon DEF LeftFinite, Forward
  <2>7. \/ StagesLeft' # StagesLeft \/ ToPlace' # ToPlace \/ ToVisit' # ToVisit
        \/ ToWork' # ToWork \/ ToCancel' # ToCancel
    BY DEF Forward, Left
  <2> QED
    BY <2>2, <2>3, <2>4, <2>5, <2>6, <2>7 DEF StepsLeft
<1> QED
  BY <1>1, <1>2, UploadTypeOK, AlwaysWithinFile, UploadAdvances, PTL
     DEF StepsBounded, Advances
=============================================================================
