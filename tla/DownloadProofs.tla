--------------------------- MODULE DownloadProofs ---------------------------
(***************************************************************************)
(* Proofs about Download for every number of pieces and rows, every number *)
(* of parallel downloads and every set of faults.                          *)
(***************************************************************************)
EXTENDS Download, SequenceTheorems, FiniteSetTheorems, TLAPS

-----------------------------------------------------------------------------
(***************************************************************************)
(* The drain loop has received next - 1 pieces.  As long as no write       *)
(* failed these are what the client has; afterwards it has fewer.  What    *)
(* was written was hashed.                                                 *)
(***************************************************************************)
Drained ==
  /\ ~writeErr => sent = Pieces(next - 1)
  /\ writeErr => Len(sent) < next /\ sent = Pieces(Len(sent))
  /\ hashed = sent
  /\ torn => writeErr

(***************************************************************************)
(* A chunk that failed has left its error, and only such a chunk ends the  *)
(* drain loop early.                                                       *)
(***************************************************************************)
ErrorsKept ==
  /\ \A i \in 1..Len(getter) : getter[i] = "failed" => firstErr
  /\ \A i \in 1..FileChunks : ready[i] = "closed" => firstErr
  /\ pc = "wait" /\ ~firstErr => next = numRows + 1

(***************************************************************************)
(* The answer is given on return, and what it says is true.                *)
(***************************************************************************)
Answered ==
  /\ pc = "returned" <=> ret # "none"
  /\ OkMeansWhole
  /\ FaultlessSucceeds
  /\ NoGetterOutlives
  /\ pc = "list" => getter = <<>>

DInv == TypeOK /\ Drained /\ ErrorsKept /\ Answered

-----------------------------------------------------------------------------
(***************************************************************************)
(* The pieces 1..n are a sequence of length n, and differ for different n. *)
(***************************************************************************)
LEMMA PiecesLen ==
  ASSUME NEW n \in Nat
  PROVE  /\ Pieces(n) \in Seq(Nat)
         /\ Len(Pieces(n)) = n
         /\ Append(Pieces(n), n + 1) = Pieces(n + 1)
<1>1. Pieces(n) \in Seq(Nat) /\ Len(Pieces(n)) = n
  BY DEF Pieces
<1>2. Append(Pieces(n), n + 1) \in Seq(Nat) /\ Pieces(n + 1) \in Seq(Nat)
  BY <1>1 DEF Pieces
<1>3. Len(Append(Pieces(n), n + 1)) = n + 1 /\ Len(Pieces(n + 1)) = n + 1
  BY <1>1 DEF Pieces
<1>4. \A i \in 1..(n + 1) : Append(Pieces(n), n + 1)[i] = Pieces(n + 1)[i]
  BY <1>1 DEF Pieces
<1>5. Append(Pieces(n), n + 1) = Pieces(n + 1)
  BY <1>2, <1>3, <1>4, SeqEqual
<1> QED
  BY <1>1, <1>5

(***************************************************************************)
(* A goroutine that moves on leaves the others where they are.             *)
(***************************************************************************)
LEMMA GoEffect ==
  ASSUME TypeOK, NEW i \in 1..Len(getter), NEW s \in {"fetched", "failed", "done"}, Go(i, s)
  PROVE  /\ getter' \in Seq({"fetch", "fetched", "failed", "done"})
         /\ Len(getter') = Len(getter)
         /\ getter'[i] = s
         /\ \A j \in 1..Len(getter) : j # i => getter'[j] = getter[j]
BY ExceptSeq DEF Go, TypeOK

-----------------------------------------------------------------------------
(* The three kinds of steps.                                               *)

(***************************************************************************)
(* Listing and launching: nothing is written yet.                          *)
(***************************************************************************)
LEMMA LaunchKeeps ==
  ASSUME DInv, ListRows \/ Launch \/ LaunchEnds
  PROVE  DInv'
<1> USE FileChunksAssumption
<1>1. CASE ListRows
  <2>1. TypeOK'
    BY <1>1 DEF DInv, TypeOK, ListRows
  <2>2. Drained' /\ ErrorsKept'
    BY <1>1 DEF DInv, TypeOK, ListRows, Drained, ErrorsKept
  <2>3. Answered'
    BY <1>1 DEF DInv, TypeOK, ListRows, Answered, OkMeansWhole, FaultlessSucceeds,
                NoGetterOutlives, Running, ContentHash
  <2> QED
    BY <2>1, <2>2, <2>3 DEF DInv
<1>2. CASE Launch
  <2>1. /\ getter' \in Seq({"fetch", "fetched", "failed", "done"})
        /\ Len(getter') = Len(getter) + 1
        /\ getter'[Len(getter) + 1] = "fetch"
        /\ \A i \in 1..Len(getter) : getter'[i] = getter[i]
    BY <1>2 DEF DInv, TypeOK, Launch
  <2>2. TypeOK'
    BY <1>2, <2>1 DEF DInv, TypeOK, Launch
  <2>3. Drained' /\ ErrorsKept'
    BY <1>2, <2>1 DEF DInv, TypeOK, Launch, Drained, ErrorsKept
  <2>4. Answered'
    BY <1>2 DEF DInv, TypeOK, Launch, Answered, OkMeansWhole, FaultlessSucceeds,
                NoGetterOutlives, ContentHash
  <2> QED
    BY <2>2, <2>3, <2>4 DEF DInv
<1>3. CASE LaunchEnds
  BY <1>3 DEF DInv, TypeOK, LaunchEnds, Drained, ErrorsKept, Answered, OkMeansWhole,
              FaultlessSucceeds, NoGetterOutlives, ContentHash
<1> QED
  BY <1>1, <1>2, <1>3

(***************************************************************************)
(* A goroutine: it changes its own channel and firstErr.  After the return *)
(* there is none left to take a step.                                      *)
(***************************************************************************)
LEMMA GetterKeeps ==
  ASSUME DInv, NEW i \in 1..Len(getter), Getter(i)
  PROVE  DInv'
<1> USE DEF Getter
<1>0. i \in 1..FileChunks /\ TypeOK
  <2>1. TypeOK /\ Len(getter) \in Nat /\ numRows \in 0..FileChunks /\ Len(getter) <= numRows
    BY DEF DInv, TypeOK
  <2> QED
    BY <2>1, FileChunksAssumption
<1>1. pc # "returned"
  BY DEF DInv, Answered, NoGetterOutlives, Running, Fetch, FetchFails, Send, Close
<1>2. PICK s \in {"fetched", "failed", "done"} : Go(i, s) /\ (s = "failed" => firstErr')
  BY DEF Fetch, FetchFails, Send, Close
<1>3. /\ getter' \in Seq({"fetch", "fetched", "failed", "done"})
      /\ Len(getter') = Len(getter)
      /\ getter'[i] = s
      /\ \A j \in 1..Len(getter) : j # i => getter'[j] = getter[j]
  BY <1>0, <1>2, GoEffect
<1>4. /\ ready' \in [1..FileChunks -> {"empty", "full", "closed", "taken"}]
      /\ firstErr' \in BOOLEAN
      /\ firstErr => firstErr'
  BY <1>0 DEF TypeOK, Fetch, FetchFails, Send, Close
<1>5. \A j \in 1..FileChunks : ready'[j] = "closed" => firstErr'
  BY <1>0 DEF DInv, ErrorsKept, TypeOK, Fetch, FetchFails, Send, Close
<1>6. TypeOK'
  BY <1>0, <1>3, <1>4 DEF TypeOK
<1>7. Drained'
  BY DEF DInv, Drained
<1>8. ErrorsKept'
  BY <1>2, <1>3, <1>4, <1>5 DEF DInv, ErrorsKept
<1>9. Answered'
  <2>1. pc # "list"
    BY DEF DInv, Answered
  <2> QED
    BY <1>1, <2>1 DEF DInv, Answered, OkMeansWhole, FaultlessSucceeds, NoGetterOutlives
<1> QED
  BY <1>6, <1>7, <1>8, <1>9 DEF DInv

(***************************************************************************)
(* The drain loop and the return.                                          *)
(***************************************************************************)
LEMMA DrainKeeps ==
  ASSUME DInv, Write \/ WriteFails \/ Break \/ DrainEnds \/ Finish
  PROVE  DInv'
<1> USE FileChunksAssumption
<1>0. TypeOK /\ next \in Nat /\ numRows \in Nat /\ Len(sent) \in Nat
  BY DEF DInv, TypeOK
<1>1. CASE Write
  <2>0. pc = "drain" /\ next <= numRows /\ next \in 1..FileChunks
    BY <1>0, <1>1 DEF TypeOK, Write, Draining
  <2>1. CASE writeErr
    <3>1. TypeOK'
      BY <1>0, <1>1, <2>0, <2>1 DEF TypeOK, Write
    <3>2. Drained'
      BY <1>0, <1>1, <2>1 DEF DInv, Drained, Write
    <3>3. ErrorsKept' /\ Answered'
      BY <1>0, <1>1, <2>0, <2>1 DEF DInv, TypeOK, ErrorsKept, Answered, Write, OkMeansWhole,
         FaultlessSucceeds, NoGetterOutlives
    <3> QED
      BY <3>1, <3>2, <3>3 DEF DInv
  <2>2. CASE ~writeErr
    <3>0. sent' = Append(sent, next) /\ hashed' = Append(hashed, next) /\ next' = next + 1
      BY <1>1, <2>2 DEF Write
    <3>1. TypeOK'
      BY <1>0, <1>1, <2>0, <3>0 DEF TypeOK, Write
    <3>2. sent' = Pieces(next)
      <4>1. next - 1 \in Nat /\ (next - 1) + 1 = next
        BY <2>0
      <4>2. Append(Pieces(next - 1), (next - 1) + 1) = Pieces((next - 1) + 1)
        BY <4>1, PiecesLen
      <4> QED
        BY <2>2, <3>0, <4>1, <4>2 DEF DInv, Drained
    <3>3. Drained'
      BY <1>0, <1>1, <2>2, <3>0, <3>2 DEF DInv, Drained, Write
    <3>4. ErrorsKept' /\ Answered'
      BY <1>0, <1>1, <2>0, <2>2 DEF DInv, TypeOK, ErrorsKept, Answered, Write, OkMeansWhole,
         FaultlessSucceeds, NoGetterOutlives
    <3> QED
      BY <3>1, <3>3, <3>4 DEF DInv
  <2> QED
    BY <2>1, <2>2
<1>2. CASE WriteFails
  <2>0. pc = "drain" /\ next <= numRows /\ next \in 1..FileChunks
    BY <1>0, <1>2 DEF TypeOK, WriteFails, Draining
  <2>1. TypeOK'
    BY <1>0, <1>2, <2>0 DEF TypeOK, WriteFails
  <2>2. Len(sent) = next - 1 /\ sent = Pieces(Len(sent))
    <3>1. next - 1 \in Nat /\ sent = Pieces(next - 1)
      BY <1>2, <2>0 DEF DInv, Drained, WriteFails
    <3> QED
      BY <3>1, PiecesLen
  <2>3. Drained'
    BY <1>0, <1>2, <2>2 DEF DInv, Drained, WriteFails
  <2>4. ErrorsKept' /\ Answered'
    BY <1>0, <1>2, <2>0 DEF DInv, TypeOK, ErrorsKept, Answered, WriteFails, OkMeansWhole,
       FaultlessSucceeds, NoGetterOutlives
  <2> QED
    BY <2>1, <2>3, <2>4 DEF DInv
<1>3. CASE Break
  <2>0. next \in 1..FileChunks
    BY <1>0, <1>3 DEF TypeOK, Break, Draining
  <2>1. TypeOK' /\ Drained'
    BY <1>3 DEF DInv, TypeOK, Drained, Break
  <2>2. ErrorsKept' /\ Answered'
    BY <1>3, <2>0 DEF DInv, ErrorsKept, Answered, Break, Draining, OkMeansWhole,
       FaultlessSucceeds, NoGetterOutlives
  <2> QED
    BY <2>1, <2>2 DEF DInv
<1>4. CASE DrainEnds
  <2>1. TypeOK' /\ Drained'
    BY <1>4 DEF DInv, TypeOK, Drained, DrainEnds
  <2>2. ErrorsKept' /\ Answered'
    BY <1>0, <1>4 DEF DInv, TypeOK, ErrorsKept, Answered, DrainEnds, OkMeansWhole,
       FaultlessSucceeds, NoGetterOutlives
  <2> QED
    BY <2>1, <2>2 DEF DInv
<1>5. CASE Finish
  <2>1. TypeOK' /\ Drained' /\ ErrorsKept'
    BY <1>5 DEF DInv, TypeOK, Drained, ErrorsKept, Finish, Outcome
  <2>2. OkMeansWhole'
    BY <1>5 DEF DInv, Drained, OkMeansWhole, Finish, Outcome, ContentHash
  <2>3. FaultlessSucceeds'
    <3> SUFFICES ASSUME numRows = FileChunks, ~firstErr, ~writeErr PROVE ret' = "ok"
      BY <1>5 DEF FaultlessSucceeds, Finish
    <3>1. next = FileChunks + 1
      BY <1>5 DEF DInv, ErrorsKept, Finish
    <3>2. hashed = ContentHash
      BY <3>1 DEF DInv, Drained, ContentHash
    <3> QED
      BY <1>5, <3>2 DEF Finish, Outcome
  <2>4. Answered'
    BY <1>5, <2>2, <2>3 DEF Answered, Finish, Outcome, NoGetterOutlives, Running
  <2> QED
    BY <2>1, <2>4 DEF DInv
<1> QED
  BY <1>1, <1>2, <1>3, <1>4, <1>5

(***************************************************************************)
(* DInv holds initially and every step keeps it.                           *)
(***************************************************************************)
THEOREM DownloadInvariant == Spec => []DInv
<1>1. Init => DInv
  <2> SUFFICES ASSUME Init PROVE DInv
    OBVIOUS
  <2>1. TypeOK
    <3>1. numRows \in 0..FileChunks /\ 1 \in 1..(numRows + 1)
      BY FileChunksAssumption DEF Init
    <3>2. /\ Len(getter) <= numRows
          /\ getter \in Seq({"fetch", "fetched", "failed", "done"})
      BY <3>1 DEF Init
    <3>3. /\ ready \in [1..FileChunks -> {"empty", "full", "closed", "taken"}]
          /\ sent \in Seq(1..FileChunks) /\ hashed \in Seq(1..FileChunks)
      BY DEF Init
    <3> QED
      BY <3>1, <3>2, <3>3 DEF Init, TypeOK
  <2>2. Pieces(0) = <<>>
    BY PiecesLen, EmptySeq DEF Pieces
  <2>3. Drained /\ ErrorsKept
    BY <2>2 DEF Init, Drained, ErrorsKept
  <2>4. Answered
    BY DEF Init, Answered, OkMeansWhole, FaultlessSucceeds, NoGetterOutlives
  <2> QED
    BY <2>1, <2>3, <2>4 DEF DInv
<1>2. DInv /\ [Next]_vars => DInv'
  <2> SUFFICES ASSUME DInv, [Next]_vars PROVE DInv'
    OBVIOUS
  <2>1. CASE UNCHANGED vars
    BY <2>1 DEF vars, DInv, TypeOK, Drained, ErrorsKept, Answered, OkMeansWhole,
                FaultlessSucceeds, NoGetterOutlives, Running, ContentHash
  <2> QED
    BY <2>1, LaunchKeeps, GetterKeeps, DrainKeeps DEF Next, Caller, Getters, Stopped
<1> QED
  BY <1>1, <1>2, PTL DEF Spec

(***************************************************************************)
(* Type correctness of GetStream.                                          *)
(***************************************************************************)
THEOREM DownloadTypeOK == Spec => []TypeOK
BY DownloadInvariant, PTL DEF DInv

(***************************************************************************)
(* "emitted strictly in order": whatever order the goroutines finish in    *)
(* and whichever of them fail, what the client has received is a prefix of *)
(* the file: no gap, no repetition, no piece out of order.                 *)
(***************************************************************************)
SentIsPrefix == sent = Pieces(Len(sent))

(***************************************************************************)
(* What the client has received is always a prefix of the file.            *)
(***************************************************************************)
THEOREM DownloadSentIsPrefix == Spec => []SentIsPrefix
<1>1. DInv => SentIsPrefix
  <2> SUFFICES ASSUME DInv, ~writeErr PROVE sent = Pieces(Len(sent))
    BY DEF DInv, Drained, SentIsPrefix
  <2>1. next - 1 \in Nat
    BY DEF DInv, TypeOK
  <2> QED
    BY <2>1, PiecesLen DEF DInv, Drained
<1> QED
  BY <1>1, DownloadInvariant, PTL

(***************************************************************************)
(* A client that is told of success has the whole file.                    *)
(***************************************************************************)
THEOREM DownloadOkMeansWhole == Spec => []OkMeansWhole
BY DownloadInvariant, PTL DEF DInv, Answered

(***************************************************************************)
(* The content hash refuses nothing that was downloaded and written whole. *)
(***************************************************************************)
THEOREM DownloadFaultlessSucceeds == Spec => []FaultlessSucceeds
BY DownloadInvariant, PTL DEF DInv, Answered

(***************************************************************************)
(* No goroutine outlives the call.                                         *)
(***************************************************************************)
THEOREM DownloadNoGetterOutlives == Spec => []NoGetterOutlives
BY DownloadInvariant, PTL DEF DInv, Answered

(***************************************************************************)
(* GetStream implements Delivery: every step of the goroutines and of the  *)
(* drain loop delivers the next piece, ends the call, or is invisible.     *)
(***************************************************************************)
THEOREM DownloadImplementsDelivery == Spec => DeliverySpec
<1>1. Init => D!Init
  BY DEF Init, D!Init
<1>2. DInv /\ [Next]_vars => [D!Next]_<<sent, ret>>
  <2> SUFFICES ASSUME DInv, [Next]_vars PROVE [D!Next]_<<sent, ret>>
    OBVIOUS
  <2>0. TypeOK /\ next \in Nat /\ numRows \in Nat /\ FileChunks \in Nat
    BY FileChunksAssumption DEF DInv, TypeOK
  <2>1. CASE Write /\ ~writeErr
    <3>1. next - 1 \in Nat /\ next <= FileChunks /\ ret = "none"
      BY <2>0, <2>1 DEF TypeOK, Write, Draining, DInv, Answered
    <3>2. Len(sent) = next - 1
      BY <2>1, <3>1, PiecesLen DEF DInv, Drained
    <3>3. D!Deliver
      BY <2>0, <2>1, <3>1, <3>2 DEF D!Deliver, Write
    <3> QED
      BY <3>3 DEF D!Next
  <2>2. CASE Finish
    <3>1. ret = "none" /\ UNCHANGED sent
      BY <2>2 DEF DInv, Answered, Finish
    <3>2. CASE Outcome = "ok"
      <4>1. sent = Pieces(FileChunks)
        BY <3>2 DEF Outcome, ContentHash, DInv, Drained
      <4>2. Len(sent) = FileChunks
        BY <2>0, <4>1, PiecesLen
      <4> QED
        BY <2>2, <3>1, <3>2, <4>2 DEF Finish, D!Next, D!Succeed
    <3>3. CASE Outcome = "error"
      BY <2>2, <3>1, <3>3 DEF Finish, D!Next, D!Fail
    <3> QED
      BY <3>2, <3>3 DEF Outcome
  <2>3. CASE ListRows
    BY <2>3 DEF ListRows, D!Next, D!Fail, DInv, Answered
  <2>4. CASE UNCHANGED <<sent, ret>>
    BY <2>4
  <2>5. CASE Launch \/ LaunchEnds \/ (Write /\ writeErr) \/ WriteFails \/ Break \/ DrainEnds
    BY <2>5 DEF Launch, LaunchEnds, Write, WriteFails, Break, DrainEnds
  <2>6. CASE Getters \/ Stopped \/ UNCHANGED vars
    BY <2>6 DEF Getters, Getter, Stopped, vars
  <2> QED
    BY <2>1, <2>2, <2>3, <2>5, <2>6 DEF Next, Caller
<1> QED
  BY <1>1, <1>2, DownloadInvariant, PTL DEF Spec, DeliverySpec, D!Spec

-----------------------------------------------------------------------------
(* Why GetStream returns: nobody waits for ever, and nobody goes back.     *)

(***************************************************************************)
(* Deadlock.  The caller's goroutine can only block on the semaphore, on   *)
(* the channel of the next chunk or in wg.Wait, a download only when it    *)
(* hands its piece over: whenever the caller is blocked, some goroutine is *)
(* running and not blocked itself.                                         *)
(***************************************************************************)
CallerBlocked ==
  \/ pc = "launch" /\ Len(getter) < numRows /\ ~(Cardinality(Running) < MaxParallel)
  \/ Draining /\ ready[next] \notin {"full", "closed"}
  \/ pc = "wait" /\ Running # {}

GetterBlocked(i) == getter[i] = "fetched" /\ ~CanSend(i)

NeverStuck == CallerBlocked => \E i \in Running : ~GetterBlocked(i)

(***************************************************************************)
(* The channels and the goroutines: the channel of a row is empty until    *)
(* its goroutine is done, then it is full or closed until the drain loop   *)
(* has received from it; draining starts when every row has a goroutine.   *)
(***************************************************************************)
ChannelsFilled ==
  /\ \A i \in 1..FileChunks :
       i > Len(getter) \/ getter[i] # "done" => ready[i] = "empty"
  /\ \A i \in 1..Len(getter) :
       getter[i] = "done" /\ i >= next => ready[i] \in {"full", "closed"}

AllLaunched ==
  /\ pc \in {"list", "launch"} => next = 1
  /\ pc \in {"drain", "wait"} => Len(getter) = numRows

(***************************************************************************)
(* A goroutine's step fills or closes its own channel when it is done.     *)
(***************************************************************************)
LEMMA GetterKeepsChannels ==
  ASSUME DInv, ChannelsFilled, AllLaunched, NEW i \in 1..Len(getter), Getter(i)
  PROVE  ChannelsFilled' /\ AllLaunched'
<1>1. /\ TypeOK /\ Len(getter) \in Nat /\ numRows \in 0..FileChunks
      /\ Len(getter) <= numRows /\ FileChunks \in Nat /\ next \in Nat
  BY FileChunksAssumption DEF DInv, TypeOK
<1>2. i \in 1..FileChunks
  BY <1>1
<1>3. UNCHANGED <<numRows, pc, next>>
  BY DEF Getter
<1>4. PICK s \in {"fetched", "failed", "done"} :
        /\ Go(i, s) /\ getter[i] # "done"
        /\ s = "done" => \E r \in {"full", "closed"} : ready' = [ready EXCEPT ![i] = r]
        /\ s # "done" => UNCHANGED ready
  BY DEF Getter, Fetch, FetchFails, Send, Close
<1>5. /\ Len(getter') = Len(getter)
      /\ getter'[i] = s
      /\ \A j \in 1..Len(getter) : j # i => getter'[j] = getter[j]
  BY <1>1, <1>4, GoEffect
<1>6. /\ \A j \in 1..FileChunks : j # i => ready'[j] = ready[j]
      /\ s = "done" => ready'[i] \in {"full", "closed"}
      /\ s # "done" => ready'[i] = ready[i]
  BY <1>1, <1>2, <1>4 DEF TypeOK
<1>7. ASSUME NEW j \in 1..FileChunks, j > Len(getter') \/ getter'[j] # "done"
      PROVE  ready'[j] = "empty"
  <2>1. CASE j = i
    BY <1>1, <1>2, <1>4, <1>5, <1>6, <1>7, <2>1 DEF ChannelsFilled
  <2>2. CASE j # i
    BY <1>1, <1>5, <1>6, <1>7, <2>2 DEF ChannelsFilled
  <2> QED
    BY <2>1, <2>2
<1>8. ASSUME NEW j \in 1..Len(getter'), getter'[j] = "done", j >= next'
      PROVE  ready'[j] \in {"full", "closed"}
  <2>1. CASE j = i
    BY <1>5, <1>6, <1>8, <2>1
  <2>2. CASE j # i
    <3>1. j \in 1..FileChunks /\ j \in 1..Len(getter)
      BY <1>1, <1>5
    <3> QED
      BY <1>3, <1>5, <1>6, <1>8, <2>2, <3>1 DEF ChannelsFilled
  <2> QED
    BY <2>1, <2>2
<1>9. AllLaunched'
  BY <1>3, <1>5 DEF AllLaunched
<1> QED
  BY <1>7, <1>8, <1>9 DEF ChannelsFilled

(***************************************************************************)
(* The caller's steps: launching adds an empty channel, draining leaves    *)
(* the one it received from behind.                                        *)
(***************************************************************************)
LEMMA CallerKeepsChannels ==
  ASSUME DInv, ChannelsFilled, AllLaunched, Caller
  PROVE  ChannelsFilled' /\ AllLaunched'
<1>1. /\ TypeOK /\ Len(getter) \in Nat /\ numRows \in 0..FileChunks
      /\ Len(getter) <= numRows /\ FileChunks \in Nat /\ next \in Nat
  BY FileChunksAssumption DEF DInv, TypeOK
<1>2. CASE ListRows \/ LaunchEnds \/ Break \/ DrainEnds \/ Finish
  <2>1. UNCHANGED <<numRows, getter, ready, next>>
    BY <1>2 DEF ListRows, LaunchEnds, Break, DrainEnds, Finish
  <2>2. AllLaunched'
    BY <1>2, <2>1 DEF ListRows, LaunchEnds, Break, DrainEnds, Finish, Draining, AllLaunched
  <2> QED
    BY <2>1, <2>2 DEF ChannelsFilled
<1>3. CASE Launch
  <2>1. /\ Len(getter') = Len(getter) + 1
        /\ getter'[Len(getter) + 1] = "fetch"
        /\ \A i \in 1..Len(getter) : getter'[i] = getter[i]
        /\ UNCHANGED <<numRows, pc, ready, next>> /\ pc = "launch"
    BY <1>1, <1>3 DEF TypeOK, Launch
  <2>2. ASSUME NEW i \in 1..FileChunks, i > Len(getter') \/ getter'[i] # "done"
        PROVE  ready'[i] = "empty"
    BY <1>1, <2>1, <2>2 DEF ChannelsFilled
  <2>3. ASSUME NEW i \in 1..Len(getter'), getter'[i] = "done", i >= next'
        PROVE  ready'[i] \in {"full", "closed"}
    <3>1. i \in 1..Len(getter)
      BY <1>1, <2>1, <2>3
    <3> QED
      BY <2>1, <2>3, <3>1 DEF ChannelsFilled
  <2>4. AllLaunched'
    BY <2>1 DEF AllLaunched
  <2> QED
    BY <2>2, <2>3, <2>4 DEF ChannelsFilled
<1>4. CASE Write \/ WriteFails
  <2>1. /\ pc = "drain" /\ next <= numRows /\ ready[next] = "full"
        /\ ready' = [ready EXCEPT ![next] = "taken"] /\ next' = next + 1
        /\ UNCHANGED <<numRows, pc, getter>>
    BY <1>4 DEF Write, WriteFails, Draining
  <2>2. next \in 1..FileChunks /\ next \in 1..Len(getter) /\ getter[next] = "done"
    <3>1. next \in 1..FileChunks
      BY <1>1, <2>1 DEF TypeOK
    <3>2. ~(next > Len(getter) \/ getter[next] # "done")
      BY <2>1, <3>1 DEF ChannelsFilled
    <3> QED
      BY <1>1, <3>1, <3>2
  <2>3. \A i \in 1..FileChunks : i # next => ready'[i] = ready[i]
    BY <1>1, <2>1 DEF TypeOK
  <2>4. ASSUME NEW i \in 1..FileChunks, i > Len(getter') \/ getter'[i] # "done"
        PROVE  ready'[i] = "empty"
    <3>1. i # next
      BY <1>1, <2>1, <2>2, <2>4
    <3> QED
      BY <2>1, <2>3, <2>4, <3>1 DEF ChannelsFilled
  <2>5. ASSUME NEW i \in 1..Len(getter'), getter'[i] = "done", i >= next'
        PROVE  ready'[i] \in {"full", "closed"}
    <3>1. i # next /\ i >= next /\ i \in 1..FileChunks
      BY <1>1, <2>1, <2>5
    <3> QED
      BY <2>1, <2>3, <2>5, <3>1 DEF ChannelsFilled
  <2>6. AllLaunched'
    BY <2>1 DEF AllLaunched
  <2> QED
    BY <2>4, <2>5, <2>6 DEF ChannelsFilled
<1> QED
  BY <1>2, <1>3, <1>4 DEF Caller

(***************************************************************************)
(* Both hold throughout the call.                                          *)
(***************************************************************************)
LEMMA ChannelsInvariant == Spec => [](ChannelsFilled /\ AllLaunched)
<1>1. Init => ChannelsFilled /\ AllLaunched
  BY DEF Init, ChannelsFilled, AllLaunched
<1>2. DInv /\ ChannelsFilled /\ AllLaunched /\ [Next]_vars
        => (ChannelsFilled /\ AllLaunched)'
  <2> SUFFICES ASSUME DInv, ChannelsFilled, AllLaunched, [Next]_vars
               PROVE  (ChannelsFilled /\ AllLaunched)'
    OBVIOUS
  <2>1. CASE UNCHANGED vars
    BY <2>1 DEF vars, ChannelsFilled, AllLaunched
  <2> QED
    BY <2>1, CallerKeepsChannels, GetterKeepsChannels DEF Next, Getters, Stopped
<1> QED
  BY <1>1, <1>2, DownloadInvariant, PTL DEF Spec

(***************************************************************************)
(* GetStream never deadlocks, with however many rows and however few       *)
(* slots: whoever the caller waits for is running, and a running download  *)
(* finds its channel empty.                                                *)
(***************************************************************************)
THEOREM DownloadNeverStuck == Spec => []NeverStuck
<1>1. DInv /\ ChannelsFilled /\ AllLaunched => NeverStuck
  <2> SUFFICES ASSUME DInv, ChannelsFilled, AllLaunched, CallerBlocked
               PROVE  \E i \in Running : ~GetterBlocked(i)
    BY DEF NeverStuck
  <2>1. /\ TypeOK /\ Len(getter) \in Nat /\ numRows \in 0..FileChunks
        /\ Len(getter) <= numRows /\ FileChunks \in Nat
    BY FileChunksAssumption DEF DInv, TypeOK
  <2>2. \A i \in Running : ~GetterBlocked(i)
    BY <2>1 DEF Running, GetterBlocked, CanSend, ChannelsFilled
  <2>3. Running # {}
    <3>1. CASE ~(Cardinality(Running) < MaxParallel)
      BY <3>1, FS_EmptySet, MaxParallelAssumption
    <3>2. CASE Draining /\ ready[next] \notin {"full", "closed"}
      <4>1. Len(getter) = numRows /\ next \in 1..Len(getter)
        BY <2>1, <3>2 DEF Draining, AllLaunched, TypeOK
      <4>2. getter[next] # "done"
        BY <3>2, <4>1 DEF ChannelsFilled
      <4> QED
        BY <4>1, <4>2 DEF Running
    <3> QED
      BY <3>1, <3>2 DEF CallerBlocked
  <2> QED
    BY <2>2, <2>3
<1> QED
  BY <1>1, DownloadInvariant, ChannelsInvariant, PTL

(* What is left to do: the stages the caller has not reached, the channels *)
(* it has not received from, and the steps of every row's goroutine.       *)
StagesLeft ==
  CASE pc = "list" -> 1..4 [] pc = "launch" -> 1..3 [] pc = "drain" -> 1..2
    [] pc = "wait" -> {1} [] OTHER -> {}

ToDrain == next..numRows

GetterSteps(i) ==
  IF i > Len(getter) THEN 3
  ELSE CASE getter[i] = "fetch" -> 2 [] getter[i] = "done" -> 0 [] OTHER -> 1

ToGet == {r \in (1..FileChunks) \X (1..3) : r[2] <= GetterSteps(r[1])}

Left == <<StagesLeft, ToDrain, ToGet>>

(* Something is taken off what is left, and nothing is added.              *)
Forward ==
  /\ StagesLeft' \subseteq StagesLeft
  /\ ToDrain' \subseteq ToDrain
  /\ ToGet' \subseteq ToGet
  /\ Left' # Left

(***************************************************************************)
(* GetStream never goes back: every step of any goroutine takes something  *)
(* off what is left to do and adds nothing to it, also after a failure     *)
(* (nothing is tried again).                                               *)
(***************************************************************************)
Advances == [][Forward]_vars

(***************************************************************************)
(* A goroutine has at most three steps to go: being launched, fetching,    *)
(* and handing over.                                                       *)
(***************************************************************************)
LEMMA GetterStepsBounds ==
  ASSUME TypeOK, NEW i \in 1..FileChunks
  PROVE  GetterSteps(i) \in 0..3
<1>1. CASE i > Len(getter)
  BY <1>1 DEF GetterSteps
<1>2. CASE ~(i > Len(getter))
  <2>1. i \in 1..Len(getter)
    BY <1>2, FileChunksAssumption DEF TypeOK
  <2>2. getter[i] \in {"fetch", "fetched", "failed", "done"}
    BY <2>1 DEF TypeOK
  <2> QED
    BY <1>2, <2>2 DEF GetterSteps
<1> QED
  BY <1>1, <1>2

(***************************************************************************)
(* A step that brings one goroutine forward and none back takes something  *)
(* off ToGet.                                                              *)
(***************************************************************************)
LEMMA ToGetShrinks ==
  ASSUME TypeOK, TypeOK', NEW i \in 1..FileChunks,
         GetterSteps(i)' < GetterSteps(i),
         \A j \in 1..FileChunks : j # i => GetterSteps(j)' = GetterSteps(j)
  PROVE  ToGet' \subseteq ToGet /\ ToGet' # ToGet
<1>1. \A j \in 1..FileChunks : GetterSteps(j) \in 0..3
  BY GetterStepsBounds
<1>2. GetterSteps(i)' \in Int
  <2>1. CASE i > Len(getter')
    BY <2>1 DEF GetterSteps
  <2>2. CASE ~(i > Len(getter'))
    BY <2>2 DEF GetterSteps
  <2> QED
    BY <2>1, <2>2
<1>3. ASSUME NEW r \in ToGet' PROVE r \in ToGet
  <2>1. r \in (1..FileChunks) \X (1..3) /\ r[2] <= GetterSteps(r[1])'
    BY DEF ToGet
  <2>2. r[1] \in 1..FileChunks /\ r[2] \in 1..3
    BY <2>1
  <2>3. r[2] <= GetterSteps(r[1])
    <3>1. CASE r[1] = i
      BY <1>1, <1>2, <2>1, <2>2, <3>1
    <3>2. CASE r[1] # i
      BY <2>1, <2>2, <3>2
    <3> QED
      BY <3>1, <3>2
  <2> QED
    BY <2>1, <2>3 DEF ToGet
<1> DEFINE r == <<i, GetterSteps(i)>>
<1>4. GetterSteps(i) \in 1..3
  <2>1. GetterSteps(i)' \in Nat
    <3>1. CASE i > Len(getter')
      BY <3>1 DEF GetterSteps
    <3>2. CASE ~(i > Len(getter'))
      BY <3>2 DEF GetterSteps
    <3> QED
      BY <3>1, <3>2
  <2> QED
    BY <1>1, <2>1
<1>5. r \in ToGet
  BY <1>4 DEF ToGet
<1>6. r \notin ToGet'
  BY <1>2, <1>4 DEF ToGet
<1> QED
  BY <1>3, <1>5, <1>6

(***************************************************************************)
(* A step of a goroutine.                                                  *)
(***************************************************************************)
LEMMA GetterAdvances ==
  ASSUME TypeOK, TypeOK', NEW i \in 1..Len(getter), Getter(i)
  PROVE  /\ UNCHANGED <<StagesLeft, ToDrain>>
         /\ ToGet' \subseteq ToGet /\ ToGet' # ToGet
<1>1. UNCHANGED <<StagesLeft, ToDrain>>
  BY DEF Getter, StagesLeft, ToDrain
<1>2. i \in 1..FileChunks /\ Len(getter) \in Nat
  BY FileChunksAssumption DEF TypeOK
<1>3. PICK s \in {"fetched", "failed", "done"} :
        /\ Go(i, s)
        /\ \/ getter[i] = "fetch" /\ s \in {"fetched", "failed"}
           \/ getter[i] \in {"fetched", "failed"} /\ s = "done"
  BY DEF Getter, Fetch, FetchFails, Send, Close
<1>4. /\ Len(getter') = Len(getter)
      /\ getter'[i] = s
      /\ \A j \in 1..Len(getter) : j # i => getter'[j] = getter[j]
  BY <1>3, GoEffect
<1>5. GetterSteps(i)' < GetterSteps(i)
  <2>1. ~(i > Len(getter)) /\ ~(i > Len(getter'))
    BY <1>2, <1>4
  <2>2. CASE getter[i] = "fetch"
    BY <1>3, <1>4, <2>1, <2>2 DEF GetterSteps
  <2>3. CASE getter[i] \in {"fetched", "failed"}
    BY <1>3, <1>4, <2>1, <2>3 DEF GetterSteps
  <2> QED
    BY <1>3, <2>2, <2>3
<1>6. \A j \in 1..FileChunks : j # i => GetterSteps(j)' = GetterSteps(j)
  <2> SUFFICES ASSUME NEW j \in 1..FileChunks, j # i
               PROVE  GetterSteps(j)' = GetterSteps(j)
    OBVIOUS
  <2>1. j > Len(getter) \/ getter'[j] = getter[j]
    BY <1>2, <1>4
  <2> QED
    BY <1>4, <2>1 DEF GetterSteps
<1> QED
  BY <1>1, <1>2, <1>5, <1>6, ToGetShrinks

(***************************************************************************)
(* A step of the caller.                                                   *)
(***************************************************************************)
LEMMA CallerAdvances ==
  ASSUME TypeOK, TypeOK', Caller
  PROVE  Forward
<1>0. numRows \in Nat /\ next \in Nat /\ Len(getter) \in Nat
  BY DEF TypeOK
<1>1. CASE ListRows \/ LaunchEnds \/ Break \/ DrainEnds \/ Finish
  <2>1. UNCHANGED <<ToDrain, ToGet>>
    BY <1>1 DEF ListRows, LaunchEnds, Break, DrainEnds, Finish, ToDrain, ToGet, GetterSteps
  <2>2. StagesLeft' \subseteq StagesLeft /\ StagesLeft' # StagesLeft
    <3>1. CASE ListRows
      <4>1. StagesLeft = 1..4 /\ StagesLeft' \in {1..3, {}}
        BY <3>1 DEF ListRows, StagesLeft
      <4>2. 4 \in 1..4 /\ 4 \notin 1..3 /\ 1..3 \subseteq 1..4
        OBVIOUS
      <4> QED
        BY <4>1, <4>2
    <3>2. CASE LaunchEnds
      <4>1. StagesLeft = 1..3 /\ StagesLeft' = 1..2
        BY <3>2 DEF LaunchEnds, StagesLeft
      <4>2. 3 \in 1..3 /\ 3 \notin 1..2 /\ 1..2 \subseteq 1..3
        OBVIOUS
      <4> QED
        BY <4>1, <4>2
    <3>3. CASE Break \/ DrainEnds
      <4>1. StagesLeft = 1..2 /\ StagesLeft' = {1}
        BY <3>3 DEF Break, DrainEnds, Draining, StagesLeft
      <4>2. 2 \in 1..2 /\ 2 \notin {1} /\ {1} \subseteq 1..2
        OBVIOUS
      <4> QED
        BY <4>1, <4>2
    <3>4. CASE Finish
      <4>1. StagesLeft = {1} /\ StagesLeft' = {}
        BY <3>4 DEF Finish, StagesLeft
      <4> QED
        BY <4>1
    <3> QED
      BY <1>1, <3>1, <3>2, <3>3, <3>4
  <2> QED
    BY <2>1, <2>2 DEF Forward, Left
<1>2. CASE Launch
  <2>1. UNCHANGED <<StagesLeft, ToDrain>>
    BY <1>2 DEF Launch, StagesLeft, ToDrain
  <2>2. PICK n \in 1..FileChunks : n = Len(getter) + 1
    BY <1>0, <1>2, FileChunksAssumption DEF Launch, TypeOK
  <2>3. /\ Len(getter') = n /\ getter'[n] = "fetch"
        /\ \A i \in 1..Len(getter) : getter'[i] = getter[i]
    BY <1>2, <2>2 DEF Launch, TypeOK
  <2>4. GetterSteps(n)' < GetterSteps(n)
    <3>1. n > Len(getter) /\ ~(n > n)
      BY <1>0, <2>2
    <3> QED
      BY <2>3, <3>1 DEF GetterSteps
  <2>5. ASSUME NEW j \in 1..FileChunks, j # n PROVE GetterSteps(j)' = GetterSteps(j)
    <3>1. CASE j \in 1..Len(getter)
      <4>1. ~(j > Len(getter)) /\ ~(j > n)
        BY <1>0, <2>2, <3>1
      <4> QED
        BY <2>3, <3>1, <4>1 DEF GetterSteps
    <3>2. CASE j > n
      <4>1. j > Len(getter)
        BY <1>0, <2>2, <3>2
      <4> QED
        BY <2>3, <3>2, <4>1 DEF GetterSteps
    <3> QED
      BY <1>0, <2>2, <2>5, <3>1, <3>2
  <2>6. ToGet' \subseteq ToGet /\ ToGet' # ToGet
    BY <2>4, <2>5, ToGetShrinks
  <2> QED
    BY <2>1, <2>6 DEF Forward, Left
<1>3. CASE Write \/ WriteFails
  <2>1. next' = next + 1 /\ next <= numRows /\ UNCHANGED <<numRows, pc, getter>>
    BY <1>3 DEF Write, WriteFails, Draining
  <2>2. UNCHANGED <<StagesLeft, ToGet>>
    BY <2>1 DEF StagesLeft, ToGet, GetterSteps
  <2>3. ToDrain' \subseteq ToDrain /\ next \in ToDrain /\ next \notin ToDrain'
    BY <1>0, <2>1 DEF ToDrain
  <2> QED
    BY <2>2, <2>3 DEF Forward, Left
<1> QED
  BY <1>1, <1>2, <1>3 DEF Caller

(***************************************************************************)
(* Every step of GetStream brings the call forward.                        *)
(***************************************************************************)
THEOREM DownloadAdvances == Spec => Advances
<1>1. TypeOK /\ TypeOK' /\ [Next]_vars => [Forward]_vars
  <2> SUFFICES ASSUME TypeOK, TypeOK', Next, ~UNCHANGED vars PROVE Forward
    OBVIOUS
  <2>1. CASE Caller
    BY <2>1, CallerAdvances
  <2>2. CASE Getters
    <3>1. PICK i \in 1..Len(getter) : Getter(i)
      BY <2>2 DEF Getters
    <3>2. UNCHANGED <<StagesLeft, ToDrain>> /\ ToGet' \subseteq ToGet /\ ToGet' # ToGet
      BY <3>1, GetterAdvances
    <3> QED
      BY <3>2 DEF Forward, Left
  <2> QED
    BY <2>1, <2>2 DEF Next, Stopped
<1> QED
  BY <1>1, DownloadTypeOK, PTL DEF Spec, Advances

(* How many steps that is.                                                 *)
StepsLeft == Cardinality(StagesLeft) + Cardinality(ToDrain) + Cardinality(ToGet)

(* Four stages, and for each chunk a receive and its goroutine's three     *)
(* steps.                                                                  *)
MaxSteps == 4 + 4 * FileChunks

(***************************************************************************)
(* A count of what is left to do, and how large it can be.                 *)
(***************************************************************************)
LEMMA LeftCounted ==
  ASSUME TypeOK
  PROVE  /\ IsFiniteSet(StagesLeft) /\ IsFiniteSet(ToDrain) /\ IsFiniteSet(ToGet)
         /\ StepsLeft \in 0..MaxSteps
<1>0. /\ numRows \in Int /\ next \in Int /\ FileChunks \in Int
      /\ 1 \in Int /\ 3 \in Int /\ 4 \in Int
  BY FileChunksAssumption DEF TypeOK
<1>1. /\ IsFiniteSet(1..4) /\ Cardinality(1..4) = 4
      /\ IsFiniteSet(1..3) /\ Cardinality(1..3) = 3
  <2>1. /\ IsFiniteSet(1..4) /\ Cardinality(1..4) = IF 1 > 4 THEN 0 ELSE 4 - 1 + 1
        /\ IsFiniteSet(1..3) /\ Cardinality(1..3) = IF 1 > 3 THEN 0 ELSE 3 - 1 + 1
    BY <1>0, FS_Interval, Zenon
  <2> QED
    BY <2>1
<1>2. IsFiniteSet(1..FileChunks) /\ Cardinality(1..FileChunks) = FileChunks
  <2>1. /\ IsFiniteSet(1..FileChunks)
        /\ Cardinality(1..FileChunks) = IF 1 > FileChunks THEN 0 ELSE FileChunks - 1 + 1
    BY <1>0, FS_Interval, Zenon
  <2> QED
    BY <2>1, FileChunksAssumption
<1>3. StagesLeft \subseteq 1..4
  BY DEF StagesLeft
<1>4. ToDrain \subseteq 1..FileChunks
  BY FileChunksAssumption DEF ToDrain, TypeOK
<1>5. /\ ToGet \subseteq (1..FileChunks) \X (1..3)
      /\ IsFiniteSet((1..FileChunks) \X (1..3))
      /\ Cardinality((1..FileChunks) \X (1..3)) = FileChunks * 3
  <2>1. /\ IsFiniteSet((1..FileChunks) \X (1..3))
        /\ Cardinality((1..FileChunks) \X (1..3))
             = Cardinality(1..FileChunks) * Cardinality(1..3)
    BY <1>1, <1>2, FS_Product, Zenon
  <2> QED
    BY <1>1, <1>2, <2>1 DEF ToGet
<1>6. /\ IsFiniteSet(StagesLeft) /\ Cardinality(StagesLeft) <= 4
      /\ IsFiniteSet(ToDrain) /\ Cardinality(ToDrain) <= FileChunks
      /\ IsFiniteSet(ToGet) /\ Cardinality(ToGet) <= FileChunks * 3
  <2>1. IsFiniteSet(StagesLeft) /\ Cardinality(StagesLeft) <= Cardinality(1..4)
    BY <1>1, <1>3, FS_Subset, Zenon
  <2>2. IsFiniteSet(ToDrain) /\ Cardinality(ToDrain) <= Cardinality(1..FileChunks)
    BY <1>2, <1>4, FS_Subset, Zenon
  <2>3. IsFiniteSet(ToGet) /\ Cardinality(ToGet) <= Cardinality((1..FileChunks) \X (1..3))
    BY <1>5, FS_Subset, Zenon
  <2> QED
    BY <1>1, <1>2, <1>5, <2>1, <2>2, <2>3
<1>7. /\ Cardinality(StagesLeft) \in Nat /\ Cardinality(ToDrain) \in Nat
      /\ Cardinality(ToGet) \in Nat
  BY <1>6, FS_CardinalityType
<1> QED
  BY <1>6, <1>7, FileChunksAssumption DEF StepsLeft, MaxSteps

(***************************************************************************)
(* A part of a finite set has fewer members, unless it is all of it.       *)
(***************************************************************************)
LEMMA PartIsSmaller ==
  ASSUME NEW S, IsFiniteSet(S), NEW T, T \subseteq S
  PROVE  /\ Cardinality(S) \in Nat /\ Cardinality(T) \in Nat
         /\ Cardinality(T) <= Cardinality(S)
         /\ T # S => Cardinality(T) < Cardinality(S)
<1>1. /\ IsFiniteSet(T) /\ Cardinality(T) <= Cardinality(S)
      /\ Cardinality(S) = Cardinality(T) => S = T
  BY FS_Subset
<1>2. Cardinality(S) \in Nat /\ Cardinality(T) \in Nat
  BY <1>1, FS_CardinalityType
<1> QED
  BY <1>1, <1>2

(***************************************************************************)
(* A file of n chunks is downloaded, or fails to be, in at most 4 + 4n     *)
(* steps of the caller and the goroutines together, whatever fails and in  *)
(* whatever order they run: each step lowers a count that starts no higher *)
(* than that and never falls below 0.                                      *)
(***************************************************************************)
StepsBounded == [](StepsLeft \in 0..MaxSteps) /\ [][StepsLeft' < StepsLeft]_vars

THEOREM DownloadStepsBounded == Spec => StepsBounded
<1>1. TypeOK => StepsLeft \in 0..MaxSteps
  BY LeftCounted
<1>2. TypeOK /\ [Forward]_vars => [StepsLeft' < StepsLeft]_vars
  <2> SUFFICES ASSUME TypeOK, Forward PROVE StepsLeft' < StepsLeft
    OBVIOUS
  <2>1. IsFiniteSet(StagesLeft) /\ IsFiniteSet(ToDrain) /\ IsFiniteSet(ToGet)
    BY LeftCounted
  <2>2. /\ Cardinality(StagesLeft) \in Nat /\ Cardinality(StagesLeft') \in Nat
        /\ Cardinality(StagesLeft') <= Cardinality(StagesLeft)
        /\ StagesLeft' # StagesLeft => Cardinality(StagesLeft') < Cardinality(StagesLeft)
    BY <2>1, PartIsSmaller DEF Forward
  <2>3. /\ Cardinality(ToDrain) \in Nat /\ Cardinality(ToDrain') \in Nat
        /\ Cardinality(ToDrain') <= Cardinality(ToDrain)
        /\ ToDrain' # ToDrain => Cardinality(ToDrain') < Cardinality(ToDrain)
    BY <2>1, PartIsSmaller DEF Forward
  <2>4. /\ Cardinality(ToGet) \in Nat /\ Cardinality(ToGet') \in Nat
        /\ Cardinality(ToGet') <= Cardinality(ToGet)
        /\ ToGet' # ToGet => Cardinality(ToGet') < Cardinality(ToGet)
    BY <2>1, PartIsSmaller DEF Forward
  <2>5. StagesLeft' # StagesLeft \/ ToDrain' # ToDrain \/ ToGet' # ToGet
    BY DEF Forward, Left
  <2> QED
    BY <2>2, <2>3, <2>4, <2>5 DEF StepsLeft
<1> QED
  BY <1>1, <1>2, DownloadTypeOK, DownloadAdvances, PTL DEF StepsBounded, Advances
=============================================================================
