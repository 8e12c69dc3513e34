------------------------------ MODULE Download ------------------------------
(***************************************************************************)
(* One call of Pool.GetStream (drivepool/pool.go): one goroutine per chunk *)
(* row downloads and verifies it, at most MaxParallel at a time, and hands *)
(* it over through a channel of its own; the caller's goroutine launches   *)
(* them all, then drains the channels in order into the writer and checks  *)
(* the hash of what it wrote.                                              *)
(*                                                                         *)
(* The file was put in as the pieces 1..FileChunks; a hash is modelled by  *)
(* the sequence of pieces it is taken over.                                *)
(***************************************************************************)
EXTENDS Integers, Sequences, FiniteSets

CONSTANTS FileChunks,    \* number of pieces of the file, at least one
          MaxParallel,   \* p.maxParallelUploads()
          Faults         \* which failures may happen, see AllFaults

(***************************************************************************)
(* account:   the chunk's account is gone (account_id NULL), unknown to    *)
(*            this pool, or has initErr                                    *)
(* download:  Store.Download or reading its body fails, or decrypting or   *)
(*            decompressing the body does                                  *)
(* corrupt:   the plaintext does not have the recorded SHA-256             *)
(* write:     the writer fails, perhaps after part of the piece            *)
(***************************************************************************)
AllFaults == {"account", "download", "corrupt", "write"}

ASSUME FileChunksAssumption == FileChunks \in Nat \ {0}
ASSUME MaxParallelAssumption == MaxParallel \in Nat \ {0}
ASSUME FaultsAssumption == Faults \subseteq AllFaults

VARIABLES
  numRows,    \* len(chunks): rows ListChunks returned
  pc,         \* "list", "launch", "drain", "wait", "returned"
  getter,     \* getter[i]: where the goroutine of row i is
  ready,      \* ready[i]: its channel, "empty", "full", "closed", or "taken"
  next,       \* the i of the drain loop
  sent,       \* pieces written to w in full, in order
  torn,       \* part of a further piece was written
  hashed,     \* pieces written to fileHash, in order
  firstErr, writeErr,
  ret         \* "none", "ok" or "error"

vars == <<numRows, pc, getter, ready, next, sent, torn, hashed, firstErr, writeErr, ret>>

(* The pieces 1..n, in order.                                              *)
Pieces(n) == [i \in 1..n |-> i]

ContentHash == Pieces(FileChunks)

Rows == 1..numRows

-----------------------------------------------------------------------------
(* PutStream records rows in order of index and the status is not looked   *)
(* at, so the rows found are those of a prefix of the pieces: all of them, *)
(* or fewer for a file whose upload died while recording.                  *)
Init ==
  /\ numRows \in 0..FileChunks
  /\ pc = "list"
  /\ getter = <<>>
  /\ ready = [i \in 1..FileChunks |-> "empty"]
  /\ next = 1
  /\ sent = <<>>
  /\ torn = FALSE
  /\ hashed = <<>>
  /\ firstErr = FALSE
  /\ writeErr = FALSE
  /\ ret = "none"

(* GetVirtualFile and ListChunks answered; no rows at all is an error.     *)
ListRows ==
  /\ pc = "list"
  /\ IF numRows = 0 THEN pc' = "returned" /\ ret' = "error"
                    ELSE pc' = "launch" /\ UNCHANGED ret
  /\ UNCHANGED <<numRows, getter, ready, next, sent, torn, hashed, firstErr, writeErr>>

Running == {i \in 1..Len(getter) : getter[i] # "done"}

(* Mutant of Launch: the loop runs once too often.                         *)
LaunchOneMore ==
  /\ pc = "launch"
  /\ Len(getter) <= numRows
  /\ Cardinality(Running) < MaxParallel
  /\ getter' = Append(getter, "fetch")
  /\ UNCHANGED <<numRows, pc, ready, next, sent, torn, hashed, firstErr, writeErr, ret>>

(* sem <- struct{}{}, then go func.                                        *)
Launch ==
  /\ pc = "launch"
  /\ Len(getter) < numRows
  /\ Cardinality(Running) < MaxParallel
  /\ getter' = Append(getter, "fetch")
  /\ UNCHANGED <<numRows, pc, ready, next, sent, torn, hashed, firstErr, writeErr, ret>>

LaunchEnds ==
  /\ pc = "launch"
  /\ Len(getter) = numRows
  /\ pc' = "drain"
  /\ UNCHANGED <<numRows, getter, ready, next, sent, torn, hashed, firstErr, writeErr, ret>>

-----------------------------------------------------------------------------
(* The goroutine of row i.                                                 *)

Go(i, s) == getter' = [getter EXCEPT ![i] = s]

(* downloadChunk: the piece, verified against its own hash ...             *)
Fetch(i) ==
  /\ getter[i] = "fetch"
  /\ Go(i, "fetched")
  /\ UNCHANGED <<ready, firstErr>>

(* ... or an error, kept under mu in firstErr.                             *)
FetchFails(i) ==
  /\ getter[i] = "fetch"
  /\ Faults \cap {"account", "download", "corrupt"} # {}
  /\ firstErr' = TRUE
  /\ Go(i, "failed")
  /\ UNCHANGED ready

(* Mutant of CanSend: a channel without a buffer needs a receiver.         *)
CanSendUnbuffered(i) == pc = "drain" /\ next = i

(* ready[i] has room for one.                                              *)
CanSend(i) == ready[i] = "empty"

(* ready[i] <- plaintext, then <-sem and wg.Done.                          *)
Send(i) ==
  /\ getter[i] = "fetched"
  /\ CanSend(i)
  /\ ready' = [ready EXCEPT ![i] = "full"]
  /\ Go(i, "done")
  /\ UNCHANGED firstErr

(* close(ready[i]), then <-sem and wg.Done.                                *)
Close(i) ==
  /\ getter[i] = "failed"
  /\ ready' = [ready EXCEPT ![i] = "closed"]
  /\ Go(i, "done")
  /\ UNCHANGED firstErr

Getter(i) ==
  /\ Fetch(i) \/ FetchFails(i) \/ Send(i) \/ Close(i)
  /\ UNCHANGED <<numRows, pc, next, sent, torn, hashed, writeErr, ret>>

-----------------------------------------------------------------------------
(* The drain loop.                                                         *)

Draining == pc = "drain" /\ next <= numRows

(* Mutant of Write: the piece is not added to the hash.                    *)
WriteUnhashed ==
  /\ Draining
  /\ ready[next] = "full"
  /\ ready' = [ready EXCEPT ![next] = "taken"]
  /\ next' = next + 1
  /\ IF writeErr THEN UNCHANGED sent ELSE sent' = Append(sent, next)
  /\ UNCHANGED <<numRows, pc, getter, torn, hashed, firstErr, writeErr, ret>>

(* Mutant of Write: pieces after a failed write are written all the same.  *)
WriteAfterFailure ==
  /\ Draining
  /\ ready[next] = "full"
  /\ ready' = [ready EXCEPT ![next] = "taken"]
  /\ next' = next + 1
  /\ sent' = Append(sent, next)
  /\ hashed' = Append(hashed, next)
  /\ UNCHANGED <<numRows, pc, getter, torn, firstErr, writeErr, ret>>

(* A piece arrives and is written and hashed, unless a write failed before.*)
Write ==
  /\ Draining
  /\ ready[next] = "full"
  /\ ready' = [ready EXCEPT ![next] = "taken"]
  /\ next' = next + 1
  /\ IF writeErr THEN UNCHANGED <<sent, hashed>>
                 ELSE sent' = Append(sent, next) /\ hashed' = Append(hashed, next)
  /\ UNCHANGED <<numRows, pc, getter, torn, firstErr, writeErr, ret>>

(* w.Write fails: remembered, the loop goes on receiving.                  *)
WriteFails ==
  /\ Draining
  /\ ready[next] = "full"
  /\ "write" \in Faults
  /\ ~writeErr
  /\ ready' = [ready EXCEPT ![next] = "taken"]
  /\ next' = next + 1
  /\ writeErr' = TRUE
  /\ torn' \in BOOLEAN
  /\ UNCHANGED <<numRows, pc, getter, sent, hashed, firstErr, ret>>

(* A closed channel: the chunk failed, leave the loop.                     *)
Break ==
  /\ Draining
  /\ ready[next] = "closed"
  /\ pc' = "wait"
  /\ UNCHANGED <<numRows, getter, ready, next, sent, torn, hashed, firstErr, writeErr, ret>>

DrainEnds ==
  /\ pc = "drain"
  /\ next > numRows
  /\ pc' = "wait"
  /\ UNCHANGED <<numRows, getter, ready, next, sent, torn, hashed, firstErr, writeErr, ret>>

(* Mutant of Outcome: no check of the content hash.                        *)
OutcomeUnhashed == IF firstErr \/ writeErr THEN "error" ELSE "ok"

Outcome ==
  IF firstErr \/ writeErr \/ hashed # ContentHash THEN "error" ELSE "ok"

(* Mutant of Finish: returns without wg.Wait.                              *)
FinishNotWaiting ==
  /\ pc = "wait"
  /\ pc' = "returned"
  /\ ret' = Outcome
  /\ UNCHANGED <<numRows, getter, ready, next, sent, torn, hashed, firstErr, writeErr>>

(* wg.Wait, then firstErr, writeErr and the hash, in that order.           *)
Finish ==
  /\ pc = "wait"
  /\ Running = {}
  /\ pc' = "returned"
  /\ ret' = Outcome
  /\ UNCHANGED <<numRows, getter, ready, next, sent, torn, hashed, firstErr, writeErr>>

-----------------------------------------------------------------------------
Caller ==
  \/ ListRows \/ Launch \/ LaunchEnds
  \/ Write \/ WriteFails \/ Break \/ DrainEnds
  \/ Finish

Getters == \E i \in 1..Len(getter) : Getter(i)

Stopped == pc = "returned" /\ UNCHANGED vars

Next == Caller \/ Getters \/ Stopped

Spec == Init /\ [][Next]_vars

(* Goroutines are scheduled; Drive answers or fails every download.        *)
FairSpec == Spec /\ WF_vars(Caller) /\ WF_vars(Getters)

-----------------------------------------------------------------------------
TypeOK ==
  /\ numRows \in 0..FileChunks
  /\ pc \in {"list", "launch", "drain", "wait", "returned"}
  /\ getter \in Seq({"fetch", "fetched", "failed", "done"})
  /\ Len(getter) <= numRows
  /\ ready \in [1..FileChunks -> {"empty", "full", "closed", "taken"}]
  /\ next \in 1..(numRows + 1)
  /\ sent \in Seq(1..FileChunks)
  /\ torn \in BOOLEAN
  /\ hashed \in Seq(1..FileChunks)
  /\ firstErr \in BOOLEAN
  /\ writeErr \in BOOLEAN
  /\ ret \in {"none", "ok", "error"}

(***************************************************************************)
(* A client told that the download succeeded has the whole file, also when *)
(* the manifest holds the rows of an upload that never completed.          *)
(***************************************************************************)
OkMeansWhole == ret = "ok" => sent = ContentHash /\ ~torn

(***************************************************************************)
(* The check of the content hash refuses nothing it should not: when every *)
(* row is there and neither a download nor a write failed, the answer is   *)
(* "ok".                                                                   *)
(***************************************************************************)
FaultlessSucceeds ==
  pc = "returned" /\ numRows = FileChunks /\ ~firstErr /\ ~writeErr => ret = "ok"

(***************************************************************************)
(* Once GetStream has returned none of its goroutines is left running, so  *)
(* none of them touches the writer's buffers or a closed account later.    *)
(***************************************************************************)
NoGetterOutlives == pc = "returned" => Running = {}

(***************************************************************************)
(* GetStream returns: launching every goroutine before the first receive,  *)
(* with fewer slots than chunks, never leaves all of them waiting.         *)
(***************************************************************************)
Terminates == <>(pc = "returned")

(***************************************************************************)
(* GetStream implements the abstract delivery: seen from the writer, all   *)
(* the goroutines, channels, missing rows and failures amount to pieces    *)
(* that arrive one by one in order and to one final answer, success only   *)
(* after the last piece; nothing is written once the call has returned.    *)
(***************************************************************************)
D == INSTANCE Delivery WITH out <- sent, result <- ret

DeliverySpec == D!Spec
=============================================================================
