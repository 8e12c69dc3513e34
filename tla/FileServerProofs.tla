-------------------------- MODULE FileServerProofs --------------------------
(***************************************************************************)
(* Proofs about FileServer for every set of nodes, every bootstrap list,   *)
(* every set of faults and any number of calls.                            *)
(***************************************************************************)
EXTENDS FileServer, SequenceTheorems, TLAPS

USE DEF net, files, history

-----------------------------------------------------------------------------
(* Facts about the operators the model is built from.                      *)

(***************************************************************************)
(* The units the code writes, and the two contents a file can start with.  *)
(***************************************************************************)
LEMMA UnitTypes ==
  /\ {IncomingMessage, IncomingStream, MessageStoreFile, MessageGetFile} \subseteq Units
  /\ \A v \in 1..MaxOps : {Unit("iv", v), Unit("cipher", v), Unit("plain", v)} \subseteq Units
  /\ \A n \in 0..StoreSize : Unit("size", n) \in Units
  /\ {Unit("junk", 0), Unit("none", 0)} \subseteq Units
BY DEF IncomingMessage, IncomingStream, MessageStoreFile, MessageGetFile, Unit, Units

LEMMA NoFileType == NoFile \in Seq(Units) /\ Len(NoFile) = 1
BY UnitTypes DEF NoFile

LEMMA CopyEncryptType ==
  ASSUME NEW v \in 1..MaxOps
  PROVE  /\ CopyEncrypt(v) \in Seq(Units) /\ Len(CopyEncrypt(v)) = 2
         /\ CopyEncrypt(v)[1] = Unit("iv", v) /\ CopyEncrypt(v)[2] = Unit("cipher", v)
BY UnitTypes DEF CopyEncrypt

(***************************************************************************)
(* CopyDecrypt yields units, one fewer than it is given.                   *)
(***************************************************************************)
LEMMA CopyDecryptType ==
  ASSUME NEW s \in Seq(Units), Len(s) > 0
  PROVE  CopyDecrypt(s) \in Seq(Units)
<1> DEFINE m == Len(s) - 1
           f == CopyDecrypt(s)
<1>1. m \in Nat /\ s[1] \in Units
  BY ElementOfSeq
<1>2. s[1].kind = "iv" => Unit("plain", s[1].of) \in Units
  BY <1>1, UnitTypes DEF Units
<1>3. f \in [1..m -> Units]
  BY <1>2, UnitTypes DEF CopyDecrypt
<1>4. f \in UNION {[1..n -> Units] : n \in Nat}
  BY <1>1, <1>3
<1> QED
  BY <1>4, SeqDef

(***************************************************************************)
(* What a read takes and what it leaves.                                   *)
(***************************************************************************)
LEMMA RestAndPart ==
  ASSUME NEW e, in[e] \in Seq(Units), NEW n \in Nat
  PROVE  /\ Rest(e, n) \in Seq(Units)
         /\ Part(e, n) \in Seq(Units)
         /\ Len(Part(e, n)) = IF Len(in[e]) <= n THEN Len(in[e]) ELSE n
         /\ \A k \in 1..Len(Part(e, n)) : Part(e, n)[k] = in[e][k]
         /\ Len(Rest(e, n)) = IF Len(in[e]) <= n THEN 0 ELSE Len(in[e]) - n
         /\ \A k \in 1..Len(Rest(e, n)) : Rest(e, n)[k] = in[e][k + n]
<1> DEFINE q == in[e]
<1>1. q \in Seq(Units) /\ Len(q) \in Nat /\ \A k \in 1..Len(q) : q[k] \in Units
  BY ElementOfSeq
<1>2. \A k \in (n + 1)..Len(q) : q[k] \in Units
  BY <1>1
<1>3. /\ SubSeq(q, n + 1, Len(q)) \in Seq(Units)
      /\ Len(SubSeq(q, n + 1, Len(q))) = IF n + 1 <= Len(q) THEN Len(q) - (n + 1) + 1 ELSE 0
      /\ \A k \in 1..(Len(q) - (n + 1) + 1) : SubSeq(q, n + 1, Len(q))[k] = q[n + 1 + k - 1]
  <2>1. n + 1 \in Int /\ Len(q) \in Int
    BY <1>1
  <2> HIDE DEF q
  <2> QED BY <1>2, <2>1, SubSeqProperties
<1>4. ~(Len(q) <= n) =>
        /\ SubSeq(q, 1, n) \in Seq(Units)
        /\ Len(SubSeq(q, 1, n)) = n
        /\ \A k \in 1..n : SubSeq(q, 1, n)[k] = q[k]
  <2> SUFFICES ASSUME ~(Len(q) <= n)
               PROVE  /\ SubSeq(q, 1, n) \in Seq(Units)
                      /\ Len(SubSeq(q, 1, n)) = n
                      /\ \A k \in 1..n : SubSeq(q, 1, n)[k] = q[k]
    OBVIOUS
  <2>1. \A k \in 1..n : q[k] \in Units
    BY <1>1
  <2>2. 1 \in Int /\ n \in Int
    OBVIOUS
  <2> HIDE DEF q
  <2>3. /\ SubSeq(q, 1, n) \in Seq(Units)
        /\ Len(SubSeq(q, 1, n)) = IF 1 <= n THEN n - 1 + 1 ELSE 0
        /\ \A k \in 1..(n - 1 + 1) : SubSeq(q, 1, n)[k] = q[1 + k - 1]
    BY <2>1, <2>2, SubSeqProperties
  <2> QED
    BY <2>3
<1>5. /\ Rest(e, n) = SubSeq(q, n + 1, Len(q))
      /\ Part(e, n) = IF Len(q) <= n THEN q ELSE SubSeq(q, 1, n)
  BY DEF Rest, Part
<1> HIDE DEF q
<1>6. /\ Rest(e, n) \in Seq(Units)
      /\ Len(Rest(e, n)) = IF Len(q) <= n THEN 0 ELSE Len(q) - n
      /\ \A k \in 1..Len(Rest(e, n)) : Rest(e, n)[k] = q[k + n]
  BY <1>1, <1>3, <1>5
<1>7. /\ Part(e, n) \in Seq(Units)
      /\ Len(Part(e, n)) = IF Len(q) <= n THEN Len(q) ELSE n
      /\ \A k \in 1..Len(Part(e, n)) : Part(e, n)[k] = q[k]
  BY <1>1, <1>4, <1>5
<1> QED
  BY <1>6, <1>7 DEF q

(***************************************************************************)
(* A write of node i reaches the peers whose connection works.             *)
(***************************************************************************)
LEMMA SendEffect ==
  ASSUME in \in [Ends -> Seq(Units)], NEW i \in Nodes, NEW s,
         \A j \in Nodes : s[j] \in Seq(Units), Send(i, s)
  PROVE  /\ in' \in [Ends -> Seq(Units)]
         /\ \A e \in Ends :
              in'[e] = IF e[2] = i /\ e[1] \in peers[i] /\ Works(e[1], i)
                         THEN in[e] \o s[e[1]] ELSE in[e]
<1>1. \A e \in Ends : e[1] \in Nodes /\ in[e] \in Seq(Units)
  BY DEF Ends
<1>2. \A e \in Ends : in[e] \o s[e[1]] \in Seq(Units)
  BY <1>1, ConcatProperties
<1> QED
  BY <1>1, <1>2 DEF Send

-----------------------------------------------------------------------------
(* Type correctness.                                                       *)

(***************************************************************************)
(* What makes TypeOK inductive: a message comes from another node, a Store *)
(* that has been announced has a content, and a replica is never longer    *)
(* than what one Store sends.                                              *)
(***************************************************************************)
Message(i) == [from: Nodes \ {i}, msg: {MessageStoreFile, MessageGetFile}]

Types ==
  /\ TypeOK
  /\ \A i \in Nodes : rpcs[i] \in Seq(Message(i))
  /\ \A i \in Nodes : app[i].at = "announced" => last[i] > 0
  /\ \A i, j \in Nodes : Len(replica[i][j]) <= StoreSize

LEMMA FaultEffect ==
  ASSUME happened \subseteq FaultKinds \cup {"torn"}, NEW k, Fault(k)
  PROVE  /\ happened' = happened \cup {k}
         /\ happened' \subseteq FaultKinds \cup {"torn"}
BY FaultsAssumption DEF Fault

LEMMA ConnectionsKeepTypes ==
  ASSUME Types, NEW i \in Nodes, NEW j \in Nodes, i # j, Dial(i, j) \/ Drop(i, j) \/ Stop(i)
  PROVE  Types'
<1>0. <<i, j>> \in Ends /\ <<j, i>> \in Ends
  BY DEF Ends
<1>1. CASE Dial(i, j)
  <2>1. happened' \subseteq FaultKinds \cup {"torn"}
    BY <1>1, FaultEffect DEF Dial, Types, TypeOK
  <2>2. peers' \in [Nodes -> SUBSET Nodes]
    <3>1. /\ peers \in [Nodes -> SUBSET Nodes]
          /\ peers' = [peers EXCEPT ![i] = @ \cup {j}, ![j] = @ \cup {i}]
      BY <1>1 DEF Dial, OnPeer, Types, TypeOK
    <3> QED
      BY <3>1
  <2>3. up' \subseteq {{e[1], e[2]} : e \in Ends}
    <3>1. {i, j} = {<<i, j>>[1], <<i, j>>[2]}
      OBVIOUS
    <3> DEFINE Pairs == {{e[1], e[2]} : e \in Ends}
    <3>2. {i, j} \in Pairs
      BY <1>0, <3>1
    <3>3. up \subseteq Pairs /\ up' = up \cup {{i, j}}
      BY <1>1 DEF Dial, Types, TypeOK
    <3> HIDE DEF Pairs
    <3>4. up' \subseteq Pairs
      BY <3>2, <3>3
    <3> QED
      BY <3>4 DEF Pairs
  <2>4. loop' \in [Ends -> {"off", "read", "payload", "took", "wait", "spin"}]
    BY <1>1 DEF Dial, Types, TypeOK
  <2> QED
    BY <1>1, <2>1, <2>2, <2>3, <2>4 DEF Dial, Types, TypeOK
<1>2. CASE Drop(i, j)
  <2>1. happened' \subseteq FaultKinds \cup {"torn"}
    BY <1>2, FaultEffect DEF Drop, Types, TypeOK
  <2>2. in' \in [Ends -> Seq(Units)]
    <3>1. in[<<i, j>>] \in Seq(Units) /\ in[<<j, i>>] \in Seq(Units)
      BY <1>0 DEF Types, TypeOK
    <3>2. \A s \in Seq(Units) : \A n \in 0..Len(s) : SubSeq(s, 1, n) \in Seq(Units)
      BY ElementOfSeq, SubSeqProperties
    <3>3. PICK m \in 0..Len(in[<<i, j>>]), n \in 0..Len(in[<<j, i>>]) :
            in' = [in EXCEPT ![<<i, j>>] = SubSeq(@, 1, m), ![<<j, i>>] = SubSeq(@, 1, n)]
      BY <1>2 DEF Drop
    <3>4. SubSeq(in[<<i, j>>], 1, m) \in Seq(Units) /\ SubSeq(in[<<j, i>>], 1, n) \in Seq(Units)
      BY <3>1, <3>2
    <3>5. in \in [Ends -> Seq(Units)]
      BY DEF Types, TypeOK
    <3> QED
      BY <1>0, <3>3, <3>4, <3>5
  <2>3. up' \subseteq {{e[1], e[2]} : e \in Ends}
    BY <1>2 DEF Drop, Types, TypeOK
  <2> QED
    BY <1>2, <2>1, <2>2, <2>3 DEF Drop, Types, TypeOK
<1>3. CASE Stop(i)
  <2>1. happened' \subseteq FaultKinds \cup {"torn"}
    BY <1>3, FaultEffect DEF Stop, Types, TypeOK
  <2>2. life' \in [Nodes -> {"up", "stopped", "dead"}]
    BY <1>3 DEF Stop, Types, TypeOK
  <2> QED
    BY <1>3, <2>1, <2>2 DEF Stop, Types, TypeOK
<1> QED
  BY <1>1, <1>2, <1>3

LEMMA PanicKeepsTypes ==
  ASSUME Types, NEW i \in Nodes, Panic(i)
  PROVE  Types'
<1>1. happened' \subseteq FaultKinds \cup {"torn"}
  BY FaultEffect DEF Panic, ClosesEarly, ReadsMarker, Types, TypeOK
<1>2. life' \in [Nodes -> {"up", "stopped", "dead"}]
  BY DEF Panic, Types, TypeOK
<1>3. up' \subseteq {{e[1], e[2]} : e \in Ends}
  BY DEF Panic, Types, TypeOK
<1>4. loop' \in [Ends -> {"off", "read", "payload", "took", "wait", "spin"}]
  BY DEF Panic, Types, TypeOK
<1>5. /\ rpcs' \in [Nodes -> Seq([from: Nodes, msg: {MessageStoreFile, MessageGetFile}])]
      /\ \A n \in Nodes : rpcs'[n] \in Seq(Message(n))
  BY EmptySeq DEF Panic, Types, TypeOK
<1>6. /\ app' \in [Nodes -> [at: {"idle", "announced", "asked", "reading"}, todo: SUBSET Nodes]]
      /\ \A n \in Nodes : app'[n].at = "announced" => app'[n] = app[n]
  BY DEF Panic, Types, TypeOK, Idle
<1>7. UNCHANGED <<peers, in, files, ops, last, told, got>>
  BY DEF Panic
<1> QED
  BY <1>1, <1>2, <1>3, <1>4, <1>5, <1>6, <1>7 DEF Types, TypeOK

LEMMA ReadLoopKeepsTypes ==
  ASSUME Types, NEW e \in Ends, ReadLoop(e)
  PROVE  Types'
<1>0. /\ e[1] \in Nodes /\ e[2] \in Nodes /\ in[e] \in Seq(Units)
      /\ rpcs[e[1]] \in Seq([from: Nodes, msg: {MessageStoreFile, MessageGetFile}])
  BY DEF Ends, Types, TypeOK
<1>1. happened' \subseteq FaultKinds \cup {"torn"}
  BY FaultEffect DEF ReadLoop, DecodeMarker, DecodePayload, AddStream, DecodeFails, Types, TypeOK
<1>2. in' \in [Ends -> Seq(Units)]
  <2>1. CASE DecodeMarker(e)
    <3>1. Tail(in[e]) \in Seq(Units)
      BY <1>0, <2>1, HeadTailProperties DEF DecodeMarker
    <3> QED
      BY <2>1, <3>1 DEF DecodeMarker, Types, TypeOK
  <2>2. CASE DecodePayload(e)
    <3>1. PICK k \in 0..(Len(in[e]) - 1) : in' = [in EXCEPT ![e] = SubSeq(@, k + 2, Len(@))]
      BY <2>2 DEF DecodePayload
    <3>2. SubSeq(in[e], k + 2, Len(in[e])) = Rest(e, k + 1)
      BY DEF Rest
    <3>3. Rest(e, k + 1) \in Seq(Units)
      BY <1>0, RestAndPart
    <3> QED
      BY <3>1, <3>2, <3>3 DEF Types, TypeOK
  <2>3. CASE AddStream(e) \/ DecodeFails(e)
    BY <2>3 DEF AddStream, DecodeFails, Types, TypeOK
  <2> QED
    BY <2>1, <2>2, <2>3 DEF ReadLoop
<1>3. loop' \in [Ends -> {"off", "read", "payload", "took", "wait", "spin"}]
  BY DEF ReadLoop, DecodeMarker, DecodePayload, AddStream, DecodeFails, Types, TypeOK
<1>4. /\ rpcs' \in [Nodes -> Seq([from: Nodes, msg: {MessageStoreFile, MessageGetFile}])]
      /\ \A n \in Nodes : rpcs'[n] \in Seq(Message(n))
  <2>1. CASE DecodePayload(e) /\ Head(in[e]) \in {MessageStoreFile, MessageGetFile}
    <3> DEFINE r == [from |-> e[2], msg |-> Head(in[e])]
    <3>1. /\ r \in [from: Nodes, msg: {MessageStoreFile, MessageGetFile}]
          /\ r \in Message(e[1]) /\ rpcs[e[1]] \in Seq(Message(e[1]))
      BY <1>0, <2>1 DEF Ends, Message, Types
    <3>2. /\ Append(rpcs[e[1]], r) \in Seq([from: Nodes, msg: {MessageStoreFile, MessageGetFile}])
          /\ Append(rpcs[e[1]], r) \in Seq(Message(e[1]))
      BY <1>0, <3>1, AppendProperties
    <3>3. rpcs' = [rpcs EXCEPT ![e[1]] = Append(@, r)]
      BY <2>1 DEF DecodePayload
    <3> HIDE DEF r
    <3> QED
      BY <3>2, <3>3 DEF Types, TypeOK
  <2>2. CASE rpcs' = rpcs
    BY <2>2 DEF Types, TypeOK
  <2> QED
    BY <2>1, <2>2 DEF ReadLoop, DecodeMarker, DecodePayload, AddStream, DecodeFails
<1>5. UNCHANGED <<net, files, app, ops, last, told, got>>
  BY DEF ReadLoop, DecodeMarker, DecodePayload, AddStream, DecodeFails
<1> QED
  BY <1>1, <1>2, <1>3, <1>4, <1>5 DEF Types, TypeOK

LEMMA HandleKeepsTypes ==
  ASSUME Types, NEW i \in Nodes, Handle(i)
  PROVE  Types'
<1> DEFINE Any == [from: Nodes, msg: {MessageStoreFile, MessageGetFile}]
           j == Sender(i)
           e == <<i, j>>
<1>0. /\ rpcs \in [Nodes -> Seq(Any)] /\ rpcs[i] \in Seq(Message(i)) /\ rpcs[i] # <<>>
      /\ rpcs' = [rpcs EXCEPT ![i] = Tail(@)]
  BY DEF Handle, HandleMessageStoreFile, HandleMessageGetFile, Handling, Types, TypeOK
<1>1. e \in Ends /\ Tail(rpcs[i]) \in Seq(Any) /\ Tail(rpcs[i]) \in Seq(Message(i))
  <2>1. /\ Head(rpcs[i]) \in Message(i) /\ Tail(rpcs[i]) \in Seq(Message(i))
        /\ Tail(rpcs[i]) \in Seq(Any)
    BY <1>0, HeadTailProperties
  <2> QED
    BY <2>1 DEF Sender, Ends, Message
<1>2. rpcs' \in [Nodes -> Seq(Any)] /\ \A n \in Nodes : rpcs'[n] \in Seq(Message(n))
  <2>1. \A n \in Nodes : rpcs[n] \in Seq(Message(n))
    BY DEF Types
  <2> HIDE DEF Any
  <2> QED BY <1>0, <1>1, <2>1
<1>3. j \in Nodes /\ in[e] \in Seq(Units) /\ StoreSize \in Nat
  BY <1>1 DEF Ends, Types, TypeOK, StoreSize
<1>4. CASE HandleMessageStoreFile(i)
  <2>1. /\ Rest(e, StoreSize) \in Seq(Units) /\ Part(e, StoreSize) \in Seq(Units)
        /\ Len(Part(e, StoreSize)) <= StoreSize
    <3>1. /\ Rest(e, StoreSize) \in Seq(Units) /\ Part(e, StoreSize) \in Seq(Units)
          /\ Len(Part(e, StoreSize)) =
               IF Len(in[e]) <= StoreSize THEN Len(in[e]) ELSE StoreSize
      BY <1>3, RestAndPart
    <3> QED
      BY <1>3, <3>1
  <2>2. /\ in' = [in EXCEPT ![e] = Rest(e, StoreSize)]
        /\ replica' = [replica EXCEPT ![i][j] = Part(e, StoreSize)]
        /\ loop' = loop \/ loop' = [loop EXCEPT ![e] = "read"]
        /\ UNCHANGED <<net, local, app, ops, history>>
    BY <1>4 DEF HandleMessageStoreFile, CloseStream
  <2> HIDE DEF e, j, Any
  <2>3. in' \in [Ends -> Seq(Units)]
    BY <1>1, <2>1, <2>2 DEF Types, TypeOK
  <2>4. /\ replica' \in [Nodes -> [Nodes -> Seq(Units)]]
        /\ \A k, n \in Nodes : Len(replica'[k][n]) <= StoreSize
    BY <1>3, <2>1, <2>2 DEF Types, TypeOK
  <2>5. loop' \in [Ends -> {"off", "read", "payload", "took", "wait", "spin"}]
    BY <1>1, <2>2 DEF Types, TypeOK
  <2> QED
    BY <1>2, <2>2, <2>3, <2>4, <2>5 DEF Types, TypeOK, Any
<1>5. CASE HandleMessageGetFile(i)
  <2> DEFINE f == replica[i][j]
             s == [k \in Nodes |-> IF k = j /\ f # NoFile
                     THEN <<IncomingStream, Unit("size", Len(f))>> \o f ELSE <<>>]
  <2>1. f \in Seq(Units) /\ Len(f) \in 0..StoreSize
    BY <1>3 DEF Types, TypeOK
  <2>2. <<IncomingStream, Unit("size", Len(f))>> \in Seq(Units)
    BY <2>1, UnitTypes
  <2>3. <<IncomingStream, Unit("size", Len(f))>> \o f \in Seq(Units)
    BY <2>1, <2>2, ConcatProperties
  <2>4. \A k \in Nodes : s[k] \in Seq(Units)
    BY <2>3, EmptySeq
  <2>5. Send(i, s) /\ UNCHANGED <<net, loop, files, app, ops, history>>
    BY <1>5 DEF HandleMessageGetFile
  <2>6. in \in [Ends -> Seq(Units)]
    BY DEF Types, TypeOK
  <2> HIDE DEF s
  <2>7. in' \in [Ends -> Seq(Units)]
    BY <2>4, <2>5, <2>6, SendEffect
  <2> QED
    BY <1>2, <2>5, <2>7 DEF Types, TypeOK
<1> QED
  BY <1>4, <1>5 DEF Handle

(***************************************************************************)
(* What a caller's write adds to the connections is made of units.         *)
(***************************************************************************)
LEMMA BroadcastTypes ==
  ASSUME in \in [Ends -> Seq(Units)], NEW i \in Nodes,
         NEW m \in {MessageStoreFile, MessageGetFile},
         Broadcast(i, m) \/ BroadcastFails(i, m)
  PROVE  in' \in [Ends -> Seq(Units)]
<1>1. <<IncomingMessage, m>> \in Seq(Units) /\ <<>> \in Seq(Units)
  BY UnitTypes
<1>2. CASE Broadcast(i, m)
  <2> DEFINE s == [j \in Nodes |-> <<IncomingMessage, m>>]
  <2>1. Send(i, s) /\ \A j \in Nodes : s[j] \in Seq(Units)
    BY <1>1, <1>2 DEF Broadcast
  <2> HIDE DEF s
  <2> QED
    BY <2>1, SendEffect
<1>3. CASE BroadcastFails(i, m)
  <2>1. PICK before \in SUBSET peers[i] :
          Send(i, [p \in Nodes |-> IF p \in before THEN <<IncomingMessage, m>> ELSE <<>>])
    BY <1>3 DEF BroadcastFails
  <2> DEFINE s == [p \in Nodes |-> IF p \in before THEN <<IncomingMessage, m>> ELSE <<>>]
  <2>2. Send(i, s) /\ \A j \in Nodes : s[j] \in Seq(Units)
    BY <1>1, <2>1
  <2> HIDE DEF s
  <2> QED
    BY <2>2, SendEffect
<1> QED
  BY <1>2, <1>3

LEMMA StreamUnits ==
  ASSUME NEW v \in 1..MaxOps
  PROVE  /\ <<IncomingStream>> \o CopyEncrypt(v) \in Seq(Units)
         /\ <<IncomingStream>> \o CopyEncrypt(v)
              = <<IncomingStream, Unit("iv", v), Unit("cipher", v)>>
<1> DEFINE one == <<IncomingStream>>
           all == <<IncomingStream, Unit("iv", v), Unit("cipher", v)>>
<1>1. one \in Seq(Units) /\ all \in Seq(Units) /\ Len(one) = 1 /\ Len(all) = 3
  BY UnitTypes
<1>2. /\ one[1] = IncomingStream
      /\ all[1] = IncomingStream /\ all[2] = Unit("iv", v) /\ all[3] = Unit("cipher", v)
  OBVIOUS
<1> HIDE DEF one, all
<1>3. /\ CopyEncrypt(v) \in Seq(Units) /\ Len(CopyEncrypt(v)) = 2
      /\ CopyEncrypt(v)[1] = Unit("iv", v) /\ CopyEncrypt(v)[2] = Unit("cipher", v)
  BY CopyEncryptType
<1>4. /\ one \o CopyEncrypt(v) \in Seq(Units)
      /\ Len(one \o CopyEncrypt(v)) = Len(one) + Len(CopyEncrypt(v))
      /\ \A i \in 1..Len(one) + Len(CopyEncrypt(v)) : (one \o CopyEncrypt(v))[i] =
           IF i <= Len(one) THEN one[i] ELSE CopyEncrypt(v)[i - Len(one)]
  BY <1>1, <1>3, ConcatProperties
<1>5. Len(one \o CopyEncrypt(v)) = Len(all)
  BY <1>1, <1>3, <1>4
<1>6. \A i \in 1..Len(one \o CopyEncrypt(v)) : (one \o CopyEncrypt(v))[i] = all[i]
  BY <1>1, <1>2, <1>3, <1>4
<1>7. one \o CopyEncrypt(v) = all
  BY <1>1, <1>4, <1>5, <1>6, SeqEqual
<1> QED
  BY <1>4, <1>7 DEF one, all

(***************************************************************************)
(* A call that moves on leaves the calls of other nodes alone.             *)
(***************************************************************************)
Calls == [at: {"idle", "announced", "asked", "reading"}, todo: SUBSET Nodes]

LEMMA GoEffect ==
  ASSUME app \in [Nodes -> Calls], NEW i \in Nodes,
         NEW place \in {"idle", "announced", "asked", "reading"}, NEW todo \in SUBSET Nodes,
         Go(i, place, todo)
  PROVE  /\ app' \in [Nodes -> Calls]
         /\ app'[i].at = place /\ app'[i].todo = todo
         /\ \A k \in Nodes : k # i => app'[k] = app[k]
<1> DEFINE r == [at |-> place, todo |-> todo]
<1>1. r \in Calls /\ r.at = place /\ r.todo = todo
  BY DEF Calls
<1>2. app' = [app EXCEPT ![i] = r]
  BY DEF Go
<1> HIDE DEF r
<1> QED
  BY <1>1, <1>2

LEMMA StoreKeepsTypes ==
  ASSUME Types, NEW i \in Nodes, Store(i)
  PROVE  Types'
<1>1. ops + 1 \in 1..MaxOps /\ ops' = ops + 1
  BY BoundsAssumption DEF Store, Begin, Types, TypeOK
<1>2. in' \in [Ends -> Seq(Units)]
  BY BroadcastTypes DEF Store, Types, TypeOK
<1>3. <<Unit("plain", ops + 1)>> \in Seq(Units)
  BY <1>1, UnitTypes
<1>4. local' \in [Nodes -> Seq(Units)] /\ got' \in [Nodes -> Seq(Units)]
  BY <1>3, NoFileType DEF Store, Types, TypeOK
<1>5. /\ last' \in [Nodes -> 0..MaxOps] /\ last'[i] > 0
      /\ \A k \in Nodes : k # i => last'[k] = last[k]
  BY <1>1, BoundsAssumption DEF Store, Types, TypeOK
<1>6. told' \in [Nodes -> SUBSET Nodes]
  BY DEF Store, Types, TypeOK
<1>7. happened' \subseteq FaultKinds \cup {"torn"}
  BY DEF Store, Types, TypeOK
<1>8. app' \in [Nodes -> Calls] /\ \A k \in Nodes : k # i => app'[k] = app[k]
  <2>1. app \in [Nodes -> Calls] /\ {} \in SUBSET Nodes
    BY DEF Types, TypeOK, Calls
  <2>2. Go(i, "announced", {}) \/ Go(i, "idle", {})
    BY DEF Store
  <2> QED
    BY <2>1, <2>2, GoEffect
<1>9. UNCHANGED <<net, loop, rpcs, replica>>
  BY DEF Store
<1>10. ops' \in 0..MaxOps
  BY <1>1, BoundsAssumption
<1>11. \A k \in Nodes : app'[k].at = "announced" => last'[k] > 0
  BY <1>5, <1>8 DEF Types
<1> QED
  BY <1>2, <1>4, <1>5, <1>6, <1>7, <1>8, <1>9, <1>10, <1>11 DEF Types, TypeOK, Calls

LEMMA StreamKeepsTypes ==
  ASSUME Types, NEW i \in Nodes, Stream(i) \/ StreamFails(i)
  PROVE  Types'
<1> DEFINE units == <<IncomingStream>> \o CopyEncrypt(last[i])
<1>1. last[i] \in 1..MaxOps
  BY BoundsAssumption DEF Stream, StreamFails, Types, TypeOK
<1>2. units \in Seq(Units) /\ \A n \in 0..Len(units) : SubSeq(units, 1, n) \in Seq(Units)
  <2>1. units \in Seq(Units) /\ Len(units) \in Nat
    BY <1>1, StreamUnits
  <2>2. \A n \in 0..Len(units) : \A k \in 1..n : units[k] \in Units
    BY <2>1, ElementOfSeq
  <2> HIDE DEF units
  <2> QED
    BY <2>1, <2>2, SubSeqProperties
<1>3. Len(units) = 3
  <2>1. Len(<<IncomingStream, Unit("iv", last[i]), Unit("cipher", last[i])>>) = 3
    OBVIOUS
  <2> QED
    BY <1>1, <2>1, StreamUnits
<1>4. in \in [Ends -> Seq(Units)]
  BY DEF Types, TypeOK
<1>5. in' \in [Ends -> Seq(Units)]
  <2>1. CASE Stream(i)
    <3> DEFINE s == [j \in Nodes |-> units]
    <3>1. Send(i, s) /\ \A j \in Nodes : s[j] \in Seq(Units)
      BY <1>2, <2>1 DEF Stream
    <3> HIDE DEF s
    <3> QED
      BY <1>4, <3>1, SendEffect
  <2>2. CASE StreamFails(i)
    <3>1. PICK before \in SUBSET peers[i], n \in 1..Len(units) :
            Send(i, [p \in Nodes |->
              SubSeq(units, 1, IF p \notin before THEN n - 1 ELSE IF n = 1 THEN 2 ELSE n)])
      BY <2>2 DEF StreamFails
    <3> DEFINE m(p) == IF p \notin before THEN n - 1 ELSE IF n = 1 THEN 2 ELSE n
               s == [p \in Nodes |-> SubSeq(units, 1, m(p))]
    <3>2. \A p \in Nodes : m(p) \in 0..Len(units)
      BY <1>3
    <3>3. Send(i, s)
      BY <3>1
    <3>4. \A j \in Nodes : s[j] \in Seq(Units)
      <4> HIDE DEF m, units
      <4> QED BY <1>2, <3>2
    <3> HIDE DEF s
    <3> QED
      BY <1>4, <3>3, <3>4, SendEffect
  <2> QED
    BY <2>1, <2>2
<1>6. happened' \subseteq FaultKinds \cup {"torn"}
  BY DEF Stream, StreamFails, Types, TypeOK
<1>7. app' \in [Nodes -> Calls] /\ \A k \in Nodes : app'[k].at = "announced" => app'[k] = app[k]
  <2>1. app \in [Nodes -> Calls]
    BY DEF Types, TypeOK, Calls
  <2>2. Go(i, "idle", {}) /\ {} \in SUBSET Nodes
    BY DEF Stream, StreamFails
  <2> QED
    BY <2>1, <2>2, GoEffect
<1>8. UNCHANGED <<net, loop, rpcs, files, ops, last, told, got>>
  BY DEF Stream, StreamFails
<1> QED
  BY <1>5, <1>6, <1>7, <1>8 DEF Types, TypeOK, Calls

LEMMA GetKeepsTypes ==
  ASSUME Types, NEW i \in Nodes,
         Delete(i) \/ GetLocal(i) \/ Get(i) \/ GetRange(i) \/ GetReturn(i)
  PROVE  Types'
<1>1. ops' \in 0..MaxOps
  BY BoundsAssumption
     DEF Delete, GetLocal, Get, GetRange, GetReturn, Begin, Types, TypeOK
<1>2. in' \in [Ends -> Seq(Units)]
  BY BroadcastTypes DEF Delete, GetLocal, Get, GetRange, GetReturn, Types, TypeOK
<1>3. local' \in [Nodes -> Seq(Units)] /\ got' \in [Nodes -> Seq(Units)]
  <2>1. /\ local \in [Nodes -> Seq(Units)] /\ got \in [Nodes -> Seq(Units)]
        /\ local[i] \in Seq(Units) /\ NoFile \in Seq(Units)
    BY NoFileType DEF Types, TypeOK
  <2>2. local' = local \/ local' = [local EXCEPT ![i] = NoFile]
    BY DEF Delete, GetLocal, Get, GetRange, GetReturn
  <2>3. got' = got \/ got' = [got EXCEPT ![i] = local[i]]
    BY DEF Delete, GetLocal, Get, GetRange, GetReturn
  <2> QED
    BY <2>1, <2>2, <2>3
<1>4. app' \in [Nodes -> Calls] /\ \A k \in Nodes : app'[k].at = "announced" => app'[k] = app[k]
  <2>1. app \in [Nodes -> Calls]
    BY DEF Types, TypeOK, Calls
  <2>2. \/ app' = app
        \/ \E place \in {"idle", "asked", "reading"}, todo \in SUBSET Nodes : Go(i, place, todo)
    <3>1. peers[i] \in SUBSET Nodes /\ {} \in SUBSET Nodes
      BY DEF Types, TypeOK
    <3> QED
      BY <3>1 DEF Delete, GetLocal, Get, GetRange, GetReturn
  <2> QED
    BY <2>1, <2>2, GoEffect
<1>5. UNCHANGED <<net, loop, rpcs, replica, last, told, happened>>
  BY DEF Delete, GetLocal, Get, GetRange, GetReturn
<1> QED
  BY <1>1, <1>2, <1>3, <1>4, <1>5 DEF Types, TypeOK, Calls

LEMMA GetStepKeepsTypes ==
  ASSUME Types, NEW i \in Nodes, NEW j \in Nodes, i # j, GetStep(i, j)
  PROVE  Types'
<1> DEFINE e == <<i, j>>
<1>1. e \in Ends /\ in[e] \in Seq(Units) /\ in \in [Ends -> Seq(Units)]
  BY DEF Ends, Types, TypeOK
<1>2. FileSizes(e) \subseteq Nat
  <2>1. in[e] # <<>> => Head(in[e]) \in Units
    BY <1>1, HeadTailProperties
  <2> QED
    BY <1>1, <2>1 DEF FileSizes, Units, StoreSize
<1>3. \A n \in Nat : Rest(e, n) \in Seq(Units)
  BY <1>1, RestAndPart
<1>4. in' \in [Ends -> Seq(Units)]
  <2>1. PICK n \in Nat : in' = [in EXCEPT ![e] = Rest(e, n)]
    BY <1>2 DEF GetStep, GetFrom, GetFails
  <2> HIDE DEF e
  <2> QED
    BY <1>1, <1>3, <2>1
<1>5. local' \in [Nodes -> Seq(Units)]
  <2>1. CASE GetFrom(i, j)
    <3>1. PICK n \in FileSizes(e) :
            /\ Len(in[e]) > 1 /\ n > 0
            /\ local' = [local EXCEPT ![i] = CopyDecrypt(Tail(Part(e, n + 1)))]
      BY <2>1 DEF GetFrom
    <3>2. n + 1 \in Nat /\ n + 1 > 1
      BY <1>2, <3>1
    <3>3. Part(e, n + 1) \in Seq(Units) /\ Len(Part(e, n + 1)) > 1
      <4>1. /\ Part(e, n + 1) \in Seq(Units)
            /\ Len(Part(e, n + 1)) = IF Len(in[e]) <= n + 1 THEN Len(in[e]) ELSE n + 1
        BY <1>1, <3>2, RestAndPart
      <4> QED
        BY <3>1, <3>2, <4>1
    <3>4. Tail(Part(e, n + 1)) \in Seq(Units) /\ Len(Tail(Part(e, n + 1))) > 0
      BY <3>3, HeadTailProperties, EmptySeq
    <3>5. CopyDecrypt(Tail(Part(e, n + 1))) \in Seq(Units)
      BY <3>4, CopyDecryptType
    <3> QED
      BY <3>1, <3>5 DEF Types, TypeOK
  <2>2. CASE GetFails(i, j)
    BY <2>2, EmptySeq DEF GetFails, Types, TypeOK
  <2> QED
    BY <2>1, <2>2 DEF GetStep
<1>6. loop' \in [Ends -> {"off", "read", "payload", "took", "wait", "spin"}]
  BY DEF GetStep, GetFrom, GetFails, CloseStream, Types, TypeOK
<1>7. app' \in [Nodes -> Calls] /\ \A k \in Nodes : app'[k].at = "announced" => app'[k] = app[k]
  <2>1. app \in [Nodes -> Calls]
    BY DEF Types, TypeOK, Calls
  <2>2. \E place \in {"idle", "reading"}, todo \in SUBSET Nodes : Go(i, place, todo)
    <3>1. app[i].todo \ {j} \in SUBSET Nodes /\ {} \in SUBSET Nodes
      BY <2>1 DEF Calls
    <3> QED
      BY <3>1 DEF GetStep, GetFrom, GetFails
  <2> QED
    BY <2>1, <2>2, GoEffect
<1>8. UNCHANGED <<net, rpcs, replica, ops, history>>
  BY DEF GetStep, GetFrom, GetFails
<1> QED
  BY <1>4, <1>5, <1>6, <1>7, <1>8 DEF Types, TypeOK, Calls

LEMMA InitTypes == Init => Types
<1> SUFFICES ASSUME Init PROVE Types
  OBVIOUS
<1>1. <<>> \in Seq(Units) /\ NoFile \in Seq(Units) /\ Len(NoFile) <= StoreSize
  BY NoFileType DEF StoreSize
<1>2. \A i \in Nodes : rpcs[i] \in Seq(Message(i))
  BY EmptySeq DEF Init
<1>3. rpcs \in [Nodes -> Seq([from: Nodes, msg: {MessageStoreFile, MessageGetFile}])]
  BY EmptySeq DEF Init
<1>4. in \in [Ends -> Seq(Units)] /\ loop \in [Ends -> {"off", "read", "payload", "took", "wait", "spin"}]
  BY <1>1 DEF Init
<1>5. /\ local \in [Nodes -> Seq(Units)] /\ got \in [Nodes -> Seq(Units)]
      /\ replica \in [Nodes -> [Nodes -> Seq(Units)]]
      /\ \A i, j \in Nodes : Len(replica[i][j]) <= StoreSize
  BY <1>1 DEF Init
<1>6. /\ app \in [Nodes -> [at: {"idle", "announced", "asked", "reading"}, todo: SUBSET Nodes]]
      /\ \A i \in Nodes : app[i].at # "announced"
  BY DEF Init, Idle
<1>7. /\ life \in [Nodes -> {"up", "stopped", "dead"}] /\ peers \in [Nodes -> SUBSET Nodes]
      /\ up = {} /\ ops \in 0..MaxOps /\ last \in [Nodes -> 0..MaxOps]
      /\ told \in [Nodes -> SUBSET Nodes] /\ happened = {}
  BY BoundsAssumption DEF Init
<1> QED
  BY <1>2, <1>3, <1>4, <1>5, <1>6, <1>7 DEF Types, TypeOK

LEMMA StepKeepsTypes ==
  ASSUME Types, [Next]_vars
  PROVE  Types'
<1>1. CASE UNCHANGED vars
  BY <1>1 DEF Types, TypeOK, vars
<1>2. ASSUME NEW i \in Nodes, Call(i) \/ Proceed(i) \/ Handle(i) \/ Stop(i) \/ Panic(i)
      PROVE  Types'
  <2>1. CASE Call(i) \/ Proceed(i)
    BY <2>1, StoreKeepsTypes, StreamKeepsTypes, GetKeepsTypes DEF Call, Proceed
  <2>2. CASE Stop(i)
    <3>1. happened' \subseteq FaultKinds \cup {"torn"}
      BY <2>2, FaultEffect DEF Stop, Types, TypeOK
    <3>2. life' \in [Nodes -> {"up", "stopped", "dead"}]
      BY <2>2 DEF Stop, Types, TypeOK
    <3> QED
      BY <2>2, <3>1, <3>2 DEF Stop, Types, TypeOK
  <2> QED
    BY <1>2, <2>1, <2>2, HandleKeepsTypes, PanicKeepsTypes
<1>3. ASSUME NEW e \in Ends,
             ReadLoop(e) \/ GetStep(e[1], e[2]) \/ Dial(e[1], e[2]) \/ Drop(e[1], e[2])
      PROVE  Types'
  <2>1. e[1] \in Nodes /\ e[2] \in Nodes /\ e[1] # e[2]
    BY DEF Ends
  <2> QED
    BY <1>3, <2>1, ReadLoopKeepsTypes, GetStepKeepsTypes, ConnectionsKeepTypes
<1> QED
  BY <1>1, <1>2, <1>3 DEF Next

(***************************************************************************)
(* Type correctness of the servers, their connections and their files.     *)
(***************************************************************************)
THEOREM FileServerTypes == Spec => []Types
<1>1. Types /\ [Next]_vars => Types'
  BY StepKeepsTypes
<1> QED
  BY <1>1, InitTypes, PTL DEF Spec

(***************************************************************************)
(* Every variable keeps its type: in particular no operation of the store  *)
(* reads a unit that no write can have produced.                           *)
(***************************************************************************)
THEOREM FileServerTypeOK == Spec => []TypeOK
<1>1. Types => TypeOK
  BY DEF Types
<1> QED
  BY <1>1, FileServerTypes, PTL

-----------------------------------------------------------------------------
(* Connections.                                                            *)

(***************************************************************************)
(* Both ends know of a connection, nothing is sent or read without one,    *)
(* and its read loops run as long as it works.  Nobody panics and no       *)
(* connection is down unless a fault of that kind happened.                *)
(***************************************************************************)
Mutual ==
  \A i \in Nodes : \A k \in peers[i] : i \in peers[k] /\ i # k

Running ==
  \A e \in Ends : Works(e[1], e[2]) =>
    e[2] \in peers[e[1]] /\ loop[e] \in {"read", "payload", "took", "wait"}

Unused ==
  /\ \A e \in Ends : e[2] \notin peers[e[1]] => in[e] = <<>> /\ loop[e] = "off"
  /\ \A i \in Nodes : \A n \in DOMAIN rpcs[i] : rpcs[i][n].from \in peers[i]

Blameless ==
  /\ happened \subseteq {"join", "stop"} =>
       \A i \in Nodes : life[i] # "dead" /\ \A k \in peers[i] : Works(i, k)
  /\ "stop" \notin happened => \A i \in Nodes : life[i] # "stopped"

Connected == Mutual /\ Running /\ Unused /\ Blameless

(***************************************************************************)
(* Steps that open and close no connection.                                *)
(***************************************************************************)
LEMMA ConnectedFrame ==
  ASSUME Connected, UNCHANGED <<peers, up, life>>, happened \subseteq happened',
         \A e \in Ends : Works(e[1], e[2]) => loop'[e] \in {"read", "payload", "took", "wait"},
         \A e \in Ends : e[2] \notin peers[e[1]] => in'[e] = <<>> /\ loop'[e] = "off",
         \A i \in Nodes : \A n \in DOMAIN rpcs'[i] : rpcs'[i][n].from \in peers[i]
  PROVE  Connected'
<1>1. Mutual'
  BY DEF Connected, Mutual
<1>2. Running'
  BY DEF Connected, Running, Works
<1>3. Unused'
  BY DEF Unused
<1>4. Blameless'
  BY DEF Connected, Blameless, Works
<1> QED
  BY <1>1, <1>2, <1>3, <1>4 DEF Connected

(***************************************************************************)
(* Writes reach connections only.                                          *)
(***************************************************************************)
LEMMA SendKeepsConnected ==
  ASSUME Types, Connected, NEW i \in Nodes, NEW s, Send(i, s),
         UNCHANGED <<net, loop>>, happened \subseteq happened',
         \A k \in Nodes : \A n \in DOMAIN rpcs'[k] : rpcs'[k][n].from \in peers[k]
  PROVE  Connected'
<1>1. \A e \in Ends : Works(e[1], e[2]) => loop'[e] \in {"read", "payload", "took", "wait"}
  BY DEF Connected, Running
<1>2. \A e \in Ends : e[2] \notin peers[e[1]] => in'[e] = <<>> /\ loop'[e] = "off"
  <2> SUFFICES ASSUME NEW e \in Ends, e[2] \notin peers[e[1]]
               PROVE  in'[e] = <<>> /\ loop'[e] = "off"
    OBVIOUS
  <2>1. ~(e[2] = i /\ e[1] \in peers[i])
    BY DEF Connected, Mutual, Ends
  <2> QED
    BY <2>1 DEF Send, Connected, Unused
<1> QED
  BY <1>1, <1>2, ConnectedFrame

LEMMA CallKeepsConnected ==
  ASSUME Types, Connected, NEW i \in Nodes, Call(i) \/ Proceed(i)
  PROVE  Connected'
<1>1. UNCHANGED <<net, loop, rpcs>> /\ happened \subseteq happened'
  BY DEF Call, Proceed, Store, Delete, GetLocal, Get, Stream, StreamFails, GetRange, GetReturn
<1>2. \A k \in Nodes : \A n \in DOMAIN rpcs'[k] : rpcs'[k][n].from \in peers[k]
  BY <1>1 DEF Connected, Unused
<1>3. (\E s : Send(i, s)) \/ in' = in
  BY DEF Call, Proceed, Store, Delete, GetLocal, Get, Stream, StreamFails, GetRange, GetReturn,
         Broadcast, BroadcastFails
<1>4. CASE in' = in
  <2>1. \A e \in Ends : Works(e[1], e[2]) => loop'[e] \in {"read", "payload", "took", "wait"}
    BY <1>1 DEF Connected, Running
  <2>2. \A e \in Ends : e[2] \notin peers[e[1]] => in'[e] = <<>> /\ loop'[e] = "off"
    BY <1>1, <1>4 DEF Connected, Unused
  <2> QED
    BY <1>1, <1>2, <2>1, <2>2, ConnectedFrame
<1>5. CASE \E s : Send(i, s)
  BY <1>1, <1>2, <1>5, SendKeepsConnected
<1> QED
  BY <1>3, <1>4, <1>5

(***************************************************************************)
(* A message is taken off the queue; the others are still from peers.      *)
(***************************************************************************)
LEMMA TailFromPeers ==
  ASSUME Types, Connected, NEW i \in Nodes, rpcs[i] # <<>>,
         rpcs' = [rpcs EXCEPT ![i] = Tail(@)]
  PROVE  /\ Sender(i) \in peers[i]
         /\ \A k \in Nodes : \A n \in DOMAIN rpcs'[k] : rpcs'[k][n].from \in peers[k]
<1>1. rpcs[i] \in Seq(Message(i)) /\ rpcs \in [Nodes -> Seq([from: Nodes, msg: {MessageStoreFile, MessageGetFile}])]
  BY DEF Types, TypeOK
<1>2. /\ Tail(rpcs[i]) \in Seq(Message(i)) /\ Len(Tail(rpcs[i])) = Len(rpcs[i]) - 1
      /\ \A n \in 1..Len(Tail(rpcs[i])) : Tail(rpcs[i])[n] = rpcs[i][n + 1]
      /\ Head(rpcs[i]) = rpcs[i][1] /\ Len(rpcs[i]) > 0
  BY <1>1, HeadTailProperties, EmptySeq
<1>3. DOMAIN rpcs[i] = 1..Len(rpcs[i]) /\ Len(rpcs[i]) \in Nat
  BY <1>1, LenProperties
<1>4. DOMAIN Tail(rpcs[i]) = 1..Len(Tail(rpcs[i]))
  BY <1>2, LenProperties
<1>5. rpcs'[i] = Tail(rpcs[i]) /\ \A k \in Nodes : k # i => rpcs'[k] = rpcs[k]
  BY <1>1
<1>6. \A k \in Nodes : \A n \in DOMAIN rpcs[k] : rpcs[k][n].from \in peers[k]
  BY DEF Connected, Unused
<1>7. \A n \in DOMAIN rpcs'[i] : rpcs'[i][n].from \in peers[i]
  BY <1>2, <1>3, <1>4, <1>5, <1>6
<1> QED
  BY <1>2, <1>3, <1>5, <1>6, <1>7 DEF Sender

LEMMA HandleKeepsConnected ==
  ASSUME Types, Connected, NEW i \in Nodes, Handle(i)
  PROVE  Connected'
<1> DEFINE j == Sender(i)
           e == <<i, j>>
<1>0. rpcs[i] # <<>> /\ rpcs' = [rpcs EXCEPT ![i] = Tail(@)]
      /\ UNCHANGED net /\ happened' = happened
  BY DEF Handle, HandleMessageStoreFile, HandleMessageGetFile, Handling
<1>1. /\ j \in peers[i]
      /\ \A k \in Nodes : \A n \in DOMAIN rpcs'[k] : rpcs'[k][n].from \in peers[k]
  BY <1>0, TailFromPeers
<1>2. j \in Nodes /\ j # i /\ e \in Ends /\ e[1] = i /\ e[2] = j
  BY <1>1 DEF Types, TypeOK, Connected, Mutual, Ends
<1>3. CASE HandleMessageStoreFile(i)
  <2>1. /\ in' = [in EXCEPT ![e] = Rest(e, StoreSize)]
        /\ loop' = loop \/ loop' = [loop EXCEPT ![e] = "read"]
    BY <1>3 DEF HandleMessageStoreFile, CloseStream
  <2> HIDE DEF e, j
  <2>2. \A k \in Ends : Works(k[1], k[2]) => loop'[k] \in {"read", "payload", "took", "wait"}
    BY <1>2, <2>1 DEF Connected, Running, Types, TypeOK
  <2>3. \A k \in Ends : k[2] \notin peers[k[1]] => in'[k] = <<>> /\ loop'[k] = "off"
    BY <1>1, <1>2, <2>1 DEF Connected, Unused, Types, TypeOK
  <2> QED
    BY <1>0, <1>1, <2>2, <2>3, ConnectedFrame
<1>4. CASE HandleMessageGetFile(i)
  <2>1. (\E s : Send(i, s)) /\ UNCHANGED loop
    BY <1>4 DEF HandleMessageGetFile
  <2> QED
    BY <1>0, <1>1, <2>1, SendKeepsConnected
<1> QED
  BY <1>3, <1>4 DEF Handle

LEMMA ReadLoopKeepsConnected ==
  ASSUME Types, Connected, NEW e \in Ends, ReadLoop(e)
  PROVE  Connected'
<1>0. e[1] \in Nodes /\ e[2] \in Nodes /\ loop[e] # "off" /\ e[2] \in peers[e[1]]
  BY DEF ReadLoop, DecodeMarker, DecodePayload, AddStream, DecodeFails, Ends, Connected, Unused
<1>1. UNCHANGED net /\ happened \subseteq happened'
  BY DEF ReadLoop, DecodeMarker, DecodePayload, AddStream, DecodeFails, Fault
<1>2. /\ \A k \in Ends : k # e => in'[k] = in[k] /\ loop'[k] = loop[k]
      /\ Works(e[1], e[2]) => loop'[e] \in {"read", "payload", "took", "wait"}
  BY DEF ReadLoop, DecodeMarker, DecodePayload, AddStream, DecodeFails, Ended, Types, TypeOK
<1>3. \A k \in Nodes : \A n \in DOMAIN rpcs'[k] : rpcs'[k][n].from \in peers[k]
  <2>1. CASE rpcs' = rpcs
    BY <2>1 DEF Connected, Unused
  <2>2. CASE DecodePayload(e) /\ Head(in[e]) \in {MessageStoreFile, MessageGetFile}
    <3> DEFINE r == [from |-> e[2], msg |-> Head(in[e])]
    <3>1. rpcs' = [rpcs EXCEPT ![e[1]] = Append(@, r)] /\ r \in Message(e[1])
      BY <2>2 DEF DecodePayload, Message, Ends
    <3>2. r.from = e[2]
      OBVIOUS
    <3> HIDE DEF r
    <3>3. /\ rpcs[e[1]] \in Seq(Message(e[1]))
          /\ rpcs \in [Nodes -> Seq([from: Nodes, msg: {MessageStoreFile, MessageGetFile}])]
      BY <1>0 DEF Types, TypeOK
    <3>4. /\ Append(rpcs[e[1]], r) \in Seq(Message(e[1]))
          /\ Len(Append(rpcs[e[1]], r)) = Len(rpcs[e[1]]) + 1
          /\ \A n \in 1..Len(rpcs[e[1]]) : Append(rpcs[e[1]], r)[n] = rpcs[e[1]][n]
          /\ Append(rpcs[e[1]], r)[Len(rpcs[e[1]]) + 1] = r
      BY <3>1, <3>3, AppendProperties
    <3>5. /\ DOMAIN Append(rpcs[e[1]], r) = 1..(Len(rpcs[e[1]]) + 1)
          /\ DOMAIN rpcs[e[1]] = 1..Len(rpcs[e[1]]) /\ Len(rpcs[e[1]]) \in Nat
      BY <3>3, <3>4, LenProperties
    <3>6. /\ rpcs'[e[1]] = Append(rpcs[e[1]], r)
          /\ \A k \in Nodes : k # e[1] => rpcs'[k] = rpcs[k]
      BY <1>0, <3>1, <3>3
    <3>7. \A k \in Nodes : \A n \in DOMAIN rpcs[k] : rpcs[k][n].from \in peers[k]
      BY DEF Connected, Unused
    <3>8. \A n \in DOMAIN rpcs'[e[1]] : rpcs'[e[1]][n].from \in peers[e[1]]
      BY <1>0, <3>2, <3>4, <3>5, <3>6, <3>7
    <3> QED
      BY <3>6, <3>7, <3>8
  <2> QED
    BY <2>1, <2>2 DEF ReadLoop, DecodeMarker, DecodePayload, AddStream, DecodeFails
<1>4. \A k \in Ends : Works(k[1], k[2]) => loop'[k] \in {"read", "payload", "took", "wait"}
  BY <1>2 DEF Connected, Running
<1>5. \A k \in Ends : k[2] \notin peers[k[1]] => in'[k] = <<>> /\ loop'[k] = "off"
  BY <1>0, <1>2 DEF Connected, Unused
<1> QED
  BY <1>1, <1>3, <1>4, <1>5, ConnectedFrame

LEMMA GetStepKeepsConnected ==
  ASSUME Types, Connected, NEW i \in Nodes, NEW j \in Nodes, i # j, GetStep(i, j)
  PROVE  Connected'
<1> DEFINE e == <<i, j>>
<1>0. e \in Ends /\ e[1] = i /\ e[2] = j
  BY DEF Ends
<1>1. UNCHANGED <<net, rpcs, happened>>
  BY DEF GetStep, GetFrom, GetFails
<1>2. \/ loop[e] = "wait" /\ loop' = [loop EXCEPT ![e] = "read"]
      \/ loop' = loop
  BY DEF GetStep, GetFrom, GetFails, CloseStream
<1>3. \/ loop[e] = "wait" /\ \A k \in Ends : k # e => in'[k] = in[k]
      \/ in' = [in EXCEPT ![e] = Rest(e, 1)]
  BY DEF GetStep, GetFrom, GetFails, CloseStream, Types, TypeOK
<1>4. in[e] = <<>> => Rest(e, 1) = <<>>
  BY <1>0, SubSeqEmpty DEF Rest
<1> HIDE DEF e
<1>5. \A k \in Ends : Works(k[1], k[2]) => loop'[k] \in {"read", "payload", "took", "wait"}
  BY <1>0, <1>2 DEF Connected, Running, Types, TypeOK
<1>6. \A k \in Ends : k[2] \notin peers[k[1]] => in'[k] = <<>> /\ loop'[k] = "off"
  <2> SUFFICES ASSUME NEW k \in Ends, k[2] \notin peers[k[1]]
               PROVE  in'[k] = <<>> /\ loop'[k] = "off"
    OBVIOUS
  <2>1. in[k] = <<>> /\ loop[k] = "off" /\ k \in DOMAIN in /\ k \in DOMAIN loop
    BY DEF Connected, Unused, Types, TypeOK
  <2>2. CASE k = e
    BY <1>2, <1>3, <1>4, <2>1, <2>2
  <2>3. CASE k # e
    BY <1>2, <1>3, <2>1, <2>3
  <2> QED
    BY <2>2, <2>3
<1>7. \A k \in Nodes : \A n \in DOMAIN rpcs'[k] : rpcs'[k][n].from \in peers[k]
  BY <1>1 DEF Connected, Unused
<1> QED
  BY <1>1, <1>5, <1>6, <1>7, ConnectedFrame

LEMMA DialKeepsConnected ==
  ASSUME Types, Connected, NEW i \in Nodes, NEW j \in Nodes, i # j, Dial(i, j)
  PROVE  Connected'
<1>0. <<i, j>> \in Ends /\ <<j, i>> \in Ends
  BY DEF Ends
<1>1. /\ up' = up \cup {{i, j}} /\ UNCHANGED <<life, in, rpcs>>
      /\ happened \subseteq happened'
      /\ loop' = [loop EXCEPT ![<<i, j>>] = "read", ![<<j, i>>] = "read"]
  BY DEF Dial, Fault
<1>2. /\ peers'[i] = peers[i] \cup {j} /\ peers'[j] = peers[j] \cup {i}
      /\ \A k \in Nodes : k # i /\ k # j => peers'[k] = peers[k]
  BY DEF Dial, OnPeer, Types, TypeOK
<1>3. /\ loop'[<<i, j>>] = "read" /\ loop'[<<j, i>>] = "read"
      /\ \A e \in Ends : e # <<i, j>> /\ e # <<j, i>> => loop'[e] = loop[e]
  BY <1>0, <1>1 DEF Types, TypeOK
<1>4. \A e \in Ends : (e = <<i, j>> \/ e = <<j, i>>) <=> {e[1], e[2]} = {i, j}
  BY DEF Ends
<1>5. \A e \in Ends : e[1] \in Nodes /\ e[2] \in Nodes
  BY DEF Ends
<1>6. Mutual'
  BY <1>2 DEF Connected, Mutual, Types, TypeOK
<1>7. Running'
  <2> SUFFICES ASSUME NEW e \in Ends, {e[1], e[2]} \in up'
               PROVE  e[2] \in peers'[e[1]] /\ loop'[e] \in {"read", "payload", "took", "wait"}
    BY DEF Running, Works
  <2>1. CASE e = <<i, j>> \/ e = <<j, i>>
    BY <1>2, <1>3, <2>1
  <2>2. CASE ~(e = <<i, j>> \/ e = <<j, i>>)
    <3>1. Works(e[1], e[2])
      BY <1>1, <1>4, <2>2 DEF Works
    <3> QED
      BY <1>2, <1>3, <1>5, <2>2, <3>1 DEF Connected, Running
  <2> QED
    BY <2>1, <2>2
<1>8. Unused'
  <2>1. \A e \in Ends : e[2] \notin peers'[e[1]] => in'[e] = <<>> /\ loop'[e] = "off"
    <3> SUFFICES ASSUME NEW e \in Ends, e[2] \notin peers'[e[1]]
                 PROVE  in'[e] = <<>> /\ loop'[e] = "off"
      OBVIOUS
    <3>1. e # <<i, j>> /\ e # <<j, i>> /\ e[2] \notin peers[e[1]]
      BY <1>2, <1>5
    <3> QED
      BY <1>1, <1>3, <3>1 DEF Connected, Unused
  <2>2. \A k \in Nodes : \A n \in DOMAIN rpcs'[k] : rpcs'[k][n].from \in peers'[k]
    BY <1>1, <1>2 DEF Connected, Unused
  <2> QED
    BY <2>1, <2>2 DEF Unused
<1>9. Blameless'
  <2>1. \A a, b \in Nodes : b \in peers'[a] => b \in peers[a] \/ {a, b} = {i, j}
    BY <1>2
  <2> QED
    <3>1. peers \in [Nodes -> SUBSET Nodes]
      BY DEF Types, TypeOK
    <3>2. \A a \in Nodes : peers'[a] \subseteq Nodes
      BY <1>2, <3>1
    <3>3. ASSUME happened' \subseteq {"join", "stop"}, NEW a \in Nodes, NEW b \in peers'[a]
          PROVE  {a, b} \in up'
      <4>1. b \in peers[a] \/ {a, b} = {i, j}
        BY <2>1, <3>2, <3>3
      <4>2. CASE b \in peers[a]
        <5>1. {a, b} \in up
          BY <1>1, <3>3, <4>2 DEF Connected, Blameless, Works
        <5> QED
          BY <1>1, <5>1
      <4> QED
        BY <1>1, <4>1, <4>2
    <3>4. happened' \subseteq {"join", "stop"} => \A a \in Nodes : life'[a] # "dead"
      BY <1>1 DEF Connected, Blameless
    <3>5. "stop" \notin happened' => \A a \in Nodes : life'[a] # "stopped"
      BY <1>1 DEF Connected, Blameless
    <3> QED
      BY <3>3, <3>4, <3>5 DEF Blameless, Works
<1> QED
  BY <1>6, <1>7, <1>8, <1>9 DEF Connected

LEMMA DropKeepsConnected ==
  ASSUME Types, Connected, NEW i \in Nodes, NEW j \in Nodes, i # j, Drop(i, j)
  PROVE  Connected'
<1>0. <<i, j>> \in Ends /\ <<j, i>> \in Ends
  BY DEF Ends
<1>1. /\ up' \subseteq up /\ UNCHANGED <<life, peers, loop, rpcs>>
      /\ "drop" \in happened' /\ happened \subseteq happened' /\ Works(i, j)
  BY DEF Drop, Fault
<1>2. j \in peers[i] /\ i \in peers[j]
  <2>1. j \in peers[i]
    BY <1>0, <1>1 DEF Connected, Running
  <2> QED
    BY <2>1 DEF Connected, Mutual
<1>3. \A e \in Ends : e # <<i, j>> /\ e # <<j, i>> => in'[e] = in[e]
  BY DEF Drop, Types, TypeOK
<1>4. Mutual' /\ Running'
  BY <1>1 DEF Connected, Mutual, Running, Works
<1>5. Unused'
  BY <1>1, <1>2, <1>3 DEF Connected, Unused
<1>6. Blameless'
  BY <1>1 DEF Connected, Blameless
<1> QED
  BY <1>4, <1>5, <1>6 DEF Connected

LEMMA StopKeepsConnected ==
  ASSUME Types, Connected, NEW i \in Nodes, Stop(i)
  PROVE  Connected'
<1>1. /\ UNCHANGED <<peers, up, in, loop, rpcs>>
      /\ "stop" \in happened' /\ happened' = happened \cup {"stop"}
  BY DEF Stop, Fault
<1>2. \A k \in Nodes : life'[k] = "dead" => life[k] = "dead"
  BY DEF Stop, Types, TypeOK
<1>3. Mutual' /\ Running' /\ Unused'
  BY <1>1 DEF Connected, Mutual, Running, Works, Unused
<1>4. Blameless'
  BY <1>1, <1>2 DEF Connected, Blameless, Works
<1> QED
  BY <1>3, <1>4 DEF Connected

LEMMA PanicKeepsConnected ==
  ASSUME Types, Connected, NEW i \in Nodes, Panic(i)
  PROVE  Connected'
<1>1. /\ up' = {c \in up : i \notin c} /\ UNCHANGED <<peers, in>>
      /\ loop' = [e \in Ends |-> IF e[1] = i THEN "off" ELSE loop[e]]
      /\ rpcs' = [rpcs EXCEPT ![i] = <<>>]
  BY DEF Panic
<1>2. /\ happened \subseteq happened'
      /\ ~(happened' \subseteq {"join", "stop"})
  <2>1. PICK j \in Nodes \ {i} : ClosesEarly(<<i, j>>) \/ ReadsMarker(<<i, j>>)
    BY DEF Panic
  <2>2. CASE Fault("add") \/ Fault("first")
    BY <2>2 DEF Fault
  <2>3. CASE loop[<<i, j>>] = "spin" /\ UNCHANGED happened
    <3>1. <<i, j>> \in Ends /\ <<i, j>>[1] = i /\ <<i, j>>[2] = j
      BY DEF Ends
    <3>2. j \in peers[i] /\ ~Works(i, j)
      BY <2>3, <3>1 DEF Connected, Unused, Running
    <3> QED
      BY <2>3, <3>2 DEF Connected, Blameless
  <2> QED
    BY <2>1, <2>2, <2>3 DEF ClosesEarly, ReadsMarker
<1>3. Mutual'
  BY <1>1 DEF Connected, Mutual
<1>4. Running'
  <2> SUFFICES ASSUME NEW e \in Ends, {e[1], e[2]} \in up'
               PROVE  e[2] \in peers'[e[1]] /\ loop'[e] \in {"read", "payload", "took", "wait"}
    BY DEF Running, Works
  <2>1. e[1] # i /\ Works(e[1], e[2])
    BY <1>1 DEF Works
  <2> QED
    BY <1>1, <2>1 DEF Connected, Running
<1>5. Unused'
  <2>1. /\ rpcs'[i] = <<>> /\ \A k \in Nodes : k # i => rpcs'[k] = rpcs[k]
    BY <1>1 DEF Types, TypeOK
  <2>2. \A k \in Nodes : \A n \in DOMAIN rpcs'[k] : rpcs'[k][n].from \in peers'[k]
    BY <1>1, <2>1 DEF Connected, Unused
  <2>3. \A e \in Ends : e[2] \notin peers'[e[1]] => in'[e] = <<>> /\ loop'[e] = "off"
    <3> SUFFICES ASSUME NEW e \in Ends, e[2] \notin peers'[e[1]]
                 PROVE  in'[e] = <<>> /\ loop'[e] = "off"
      OBVIOUS
    <3>1. in[e] = <<>> /\ loop[e] = "off"
      BY <1>1 DEF Connected, Unused
    <3> QED
      BY <1>1, <3>1
  <2> QED
    BY <2>2, <2>3 DEF Unused
<1>6. Blameless'
  <2>1. \A k \in Nodes : life'[k] = "stopped" => life[k] = "stopped"
    BY DEF Panic, Types, TypeOK
  <2> QED
    BY <1>2, <2>1 DEF Connected, Blameless
<1> QED
  BY <1>3, <1>4, <1>5, <1>6 DEF Connected

(***************************************************************************)
(* OnPeer runs at both ends of every connection, and a connection that     *)
(* works has a read loop at both ends.                                     *)
(***************************************************************************)
THEOREM FileServerConnected == Spec => []Connected
<1>1. Init => Connected
  BY DEF Init, Connected, Mutual, Running, Unused, Blameless, Works, Ends
<1>2. Types /\ Connected /\ [Next]_vars => Connected'
  <2> SUFFICES ASSUME Types, Connected, [Next]_vars PROVE Connected'
    OBVIOUS
  <2>1. CASE UNCHANGED vars
    BY <2>1 DEF vars, Connected, Mutual, Running, Unused, Blameless, Works
  <2>2. ASSUME NEW i \in Nodes, Call(i) \/ Proceed(i) \/ Handle(i) \/ Stop(i) \/ Panic(i)
        PROVE  Connected'
    BY <2>2, CallKeepsConnected, HandleKeepsConnected, StopKeepsConnected, PanicKeepsConnected
  <2>3. ASSUME NEW e \in Ends,
               ReadLoop(e) \/ GetStep(e[1], e[2]) \/ Dial(e[1], e[2]) \/ Drop(e[1], e[2])
        PROVE  Connected'
    <3>1. e[1] \in Nodes /\ e[2] \in Nodes /\ e[1] # e[2]
      BY DEF Ends
    <3> QED
      BY <2>3, <3>1, ReadLoopKeepsConnected, GetStepKeepsConnected, DialKeepsConnected,
         DropKeepsConnected
  <2> QED
    BY <2>1, <2>2, <2>3 DEF Next
<1> QED
  BY <1>1, <1>2, FileServerTypes, PTL DEF Spec

-----------------------------------------------------------------------------
(* What a caller writes to a peer, unit by unit.                           *)

(***************************************************************************)
(* A unit is told by its kind.                                             *)
(***************************************************************************)
LEMMA KindOfUnit ==
  /\ IncomingMessage.kind = "message" /\ IncomingStream.kind = "stream"
  /\ MessageStoreFile.kind = "STORE" /\ MessageGetFile.kind = "GET"
  /\ \A v : /\ Unit("iv", v).kind = "iv" /\ Unit("iv", v).of = v
            /\ Unit("cipher", v).kind = "cipher" /\ Unit("cipher", v).of = v
            /\ Unit("size", v).kind = "size" /\ Unit("size", v).of = v
  /\ \A u \in Units : /\ u.kind = "message" => u = IncomingMessage
                      /\ u.kind = "stream" => u = IncomingStream
                      /\ u.kind = "STORE" => u = MessageStoreFile
                      /\ u.kind = "GET" => u = MessageGetFile
                      /\ u.kind = "iv" => u = Unit("iv", u.of) /\ u.of \in 1..MaxOps
                      /\ u.kind = "cipher" => u = Unit("cipher", u.of)
BY DEF IncomingMessage, IncomingStream, MessageStoreFile, MessageGetFile, Unit, Units

(***************************************************************************)
(* The order of the units of one caller: a message is STORE or GET, STORE  *)
(* is followed by its stream, an IV by the content encrypted with it.      *)
(***************************************************************************)
Follows(u, w) ==
  \/ u.kind = "message" /\ w.kind \in {"STORE", "GET"}
  \/ u.kind = "GET" /\ w.kind = "message"
  \/ u.kind = "STORE" /\ w.kind = "stream"
  \/ u.kind = "stream" /\ w.kind = "iv"
  \/ u.kind = "iv" /\ w.kind = "cipher" /\ w.of = u.of
  \/ u.kind = "cipher" /\ w.kind = "message"

Chain(q) == \A n \in 1..(Len(q) - 1) : Follows(q[n], q[n + 1])

Without(q, kind) == \A n \in 1..Len(q) : q[n].kind # kind

(* The last IV under way is that of content v.                             *)
Newest(q, v) ==
  \A n \in 1..Len(q) :
    q[n].kind = "iv" /\ (\A m \in 1..Len(q) : m > n => q[m].kind # "iv") => q[n].of = v

HasStore(msgs) == \E n \in 1..Len(msgs) : msgs[n].msg.kind = "STORE"

(***************************************************************************)
(* Where the read loop is and which unit it, or the handler of the message *)
(* it has queued, finds next.                                              *)
(***************************************************************************)
Position(q, at, msgs, place) ==
  /\ HasStore(msgs) =>
       \/ at \in {"took", "wait"} /\ Len(q) > 0 /\ q[1].kind = "iv"
       \/ at = "read" /\ Len(q) > 0 /\ q[1].kind = "stream"
       \/ at = "read" /\ Len(q) = 0 /\ place = "announced"
  /\ ~HasStore(msgs) =>
       \/ at = "read" /\ Len(q) = 0 /\ place # "announced"
       \/ at = "read" /\ Len(q) > 0 /\ q[1].kind = "message"
       \/ at = "payload" /\ Len(q) > 0 /\ q[1].kind \in {"STORE", "GET"}

(***************************************************************************)
(* The units are in order, nothing is queued behind a STORE whose stream   *)
(* has not been read, and only an announced stream is missing at the end.  *)
(***************************************************************************)
InOrder(q, msgs, place) ==
  /\ Chain(q)
  /\ \A n \in 1..(Len(msgs) - 1) : msgs[n].msg.kind # "STORE"
  /\ Len(q) > 0 => IF place = "announced" THEN q[Len(q)].kind = "STORE"
                   ELSE q[Len(q)].kind \in {"GET", "cipher"}

(***************************************************************************)
(* A peer that was told of the last Store holds it, or will when what is   *)
(* under way has been read; one that was not holds nothing.                *)
(***************************************************************************)
Current(q, msgs, held, v) ==
  /\ Newest(q, v)
  /\ ~HasStore(msgs) /\ Without(q, "iv") => held = CopyEncrypt(v)

Untold(q, msgs, held) ==
  ~HasStore(msgs) /\ held = NoFile /\ Without(q, "iv") /\ Without(q, "STORE")

Holds(held) == held = NoFile \/ \E v \in 1..MaxOps : held = CopyEncrypt(v)

InStep(q, at, msgs, held, place, v, j, T) ==
  /\ Position(q, at, msgs, place)
  /\ InOrder(q, msgs, place)
  /\ Holds(held)
  /\ j \in T /\ place # "announced" => Current(q, msgs, held, v)
  /\ j \notin T => Untold(q, msgs, held)

(***************************************************************************)
(* A peer that joined between a STORE and its stream: it waits for good    *)
(* inside a stream nobody reads.                                           *)
(***************************************************************************)
Lagging(q, at, msgs, held, back, place, j, T) ==
  /\ msgs = <<>> /\ held = NoFile /\ back = <<>>
  /\ \/ at \in {"took", "wait"}
     \/ at = "read" /\ Len(q) > 0 /\ q[1].kind = "stream"
     \/ at = "read" /\ Len(q) = 0 /\ place = "announced" /\ j \notin T

(***************************************************************************)
(* Reading the first d units.                                              *)
(***************************************************************************)
LEMMA Read ==
  ASSUME NEW q \in Seq(Units), NEW r \in Seq(Units), NEW d \in Nat, d <= Len(q),
         Len(r) = Len(q) - d, \A k \in 1..Len(r) : r[k] = q[k + d]
  PROVE  /\ Chain(q) => Chain(r)
         /\ Len(r) > 0 => r[1] = q[d + 1] /\ r[Len(r)] = q[Len(q)]
         /\ \A v : Newest(q, v) => Newest(r, v)
         /\ \A kind : Without(q, kind) => Without(r, kind)
         /\ \A kind : Without(r, kind) /\ (\A k \in 1..d : q[k].kind # kind) => Without(q, kind)
<1>1. Len(q) \in Nat /\ Len(r) \in Nat
  OBVIOUS
<1>2. Chain(q) => Chain(r)
  BY <1>1 DEF Chain
<1>3. ASSUME Len(r) > 0 PROVE r[1] = q[d + 1] /\ r[Len(r)] = q[Len(q)]
  <2>1. 1 \in 1..Len(r) /\ Len(r) \in 1..Len(r)
    BY <1>1, <1>3
  <2>2. r[1] = q[1 + d] /\ r[Len(r)] = q[Len(r) + d]
    BY <2>1
  <2>3. 1 + d = d + 1 /\ Len(r) + d = Len(q)
    BY <1>1
  <2> QED
    BY <2>2, <2>3
<1>4. ASSUME NEW v, Newest(q, v) PROVE Newest(r, v)
  <2> SUFFICES ASSUME NEW n \in 1..Len(r), r[n].kind = "iv",
                      \A m \in 1..Len(r) : m > n => r[m].kind # "iv"
               PROVE  r[n].of = v
    BY DEF Newest
  <2>1. n + d \in 1..Len(q) /\ r[n] = q[n + d]
    BY <1>1
  <2>2. \A m \in 1..Len(q) : m > n + d => q[m].kind # "iv"
    <3> SUFFICES ASSUME NEW m \in 1..Len(q), m > n + d PROVE q[m].kind # "iv"
      OBVIOUS
    <3>1. m - d \in 1..Len(r) /\ m - d > n /\ (m - d) + d = m
      BY <1>1
    <3> QED
      BY <3>1
  <2> QED
    BY <1>4, <2>1, <2>2 DEF Newest
<1>5. ASSUME NEW kind, Without(q, kind) PROVE Without(r, kind)
  BY <1>1, <1>5 DEF Without
<1>6. ASSUME NEW kind, Without(r, kind), \A k \in 1..d : q[k].kind # kind
      PROVE  Without(q, kind)
  <2> SUFFICES ASSUME NEW m \in 1..Len(q) PROVE q[m].kind # kind
    BY DEF Without
  <2>1. CASE m <= d
    BY <1>6, <2>1
  <2>2. CASE m > d
    <3>1. m - d \in 1..Len(r) /\ (m - d) + d = m
      BY <1>1, <2>2
    <3> QED
      BY <1>6, <3>1 DEF Without
  <2> QED
    BY <2>1, <2>2
<1> QED
  BY <1>2, <1>3, <1>4, <1>5, <1>6

(***************************************************************************)
(* Writing the units s behind those of q.                                  *)
(***************************************************************************)
LEMMA Write ==
  ASSUME NEW q \in Seq(Units), NEW s \in Seq(Units), Len(s) > 0
  PROVE  /\ q \o s \in Seq(Units) /\ Len(q \o s) = Len(q) + Len(s)
         /\ Chain(q) /\ Chain(s) /\ (Len(q) > 0 => Follows(q[Len(q)], s[1])) => Chain(q \o s)
         /\ (q \o s)[Len(q \o s)] = s[Len(s)]
         /\ Len(q) > 0 => (q \o s)[1] = q[1]
         /\ Len(q) = 0 => (q \o s)[1] = s[1]
         /\ \A v : Newest(q, v) /\ Without(s, "iv") => Newest(q \o s, v)
         /\ \A v : Newest(s, v) /\ ~Without(s, "iv") => Newest(q \o s, v)
         /\ \A kind : Without(q \o s, kind) <=> Without(q, kind) /\ Without(s, kind)
<1> DEFINE r == q \o s
<1>0. Len(q) \in Nat /\ Len(s) \in Nat
  OBVIOUS
<1>1. /\ r \in Seq(Units) /\ Len(r) = Len(q) + Len(s)
      /\ \A i \in 1..Len(q) + Len(s) : r[i] = IF i <= Len(q) THEN q[i] ELSE s[i - Len(q)]
  BY ConcatProperties
<1>2. /\ \A i \in 1..Len(q) : r[i] = q[i]
      /\ \A i \in 1..Len(s) : r[i + Len(q)] = s[i]
  <2>1. ASSUME NEW i \in 1..Len(s) PROVE r[i + Len(q)] = s[i]
    <3>1. i + Len(q) \in 1..Len(q) + Len(s) /\ ~(i + Len(q) <= Len(q))
          /\ (i + Len(q)) - Len(q) = i
      BY <1>0
    <3> HIDE DEF r
    <3> QED
      BY <1>1, <3>1
  <2>2. ASSUME NEW i \in 1..Len(q) PROVE r[i] = q[i]
    BY <1>0, <1>1
  <2> QED
    BY <2>1, <2>2
<1> HIDE DEF r
<1>3. \A i \in 1..Len(r) : i \in 1..Len(q) \/ \E k \in 1..Len(s) : i = k + Len(q)
  <2> SUFFICES ASSUME NEW i \in 1..Len(r), ~(i \in 1..Len(q))
               PROVE  \E k \in 1..Len(s) : i = k + Len(q)
    OBVIOUS
  <2>1. i - Len(q) \in 1..Len(s) /\ i = (i - Len(q)) + Len(q)
    BY <1>0, <1>1
  <2> QED
    BY <2>1
<1>4. ASSUME Chain(q), Chain(s), Len(q) > 0 => Follows(q[Len(q)], s[1]) PROVE Chain(r)
  <2> SUFFICES ASSUME NEW n \in 1..(Len(r) - 1) PROVE Follows(r[n], r[n + 1])
    BY DEF Chain
  <2>1. CASE n < Len(q)
    <3>1. n \in 1..Len(q) /\ n + 1 \in 1..Len(q) /\ n \in 1..(Len(q) - 1)
      BY <1>0, <1>1, <2>1
    <3> QED
      BY <1>2, <1>4, <3>1 DEF Chain
  <2>2. CASE n = Len(q)
    <3>1. n \in 1..Len(q) /\ 1 \in 1..Len(s) /\ n + 1 = 1 + Len(q) /\ Len(q) > 0
      BY <1>0, <2>2
    <3> QED
      BY <1>2, <1>4, <2>2, <3>1
  <2>3. CASE n > Len(q)
    <3>1. /\ n - Len(q) \in 1..(Len(s) - 1)
          /\ n - Len(q) \in 1..Len(s) /\ (n - Len(q)) + 1 \in 1..Len(s)
          /\ n = (n - Len(q)) + Len(q) /\ n + 1 = ((n - Len(q)) + 1) + Len(q)
      BY <1>0, <1>1, <2>3
    <3>2. r[n] = s[n - Len(q)] /\ r[n + 1] = s[(n - Len(q)) + 1]
      BY <1>2, <3>1
    <3> QED
      BY <1>4, <3>1, <3>2 DEF Chain
  <2> QED
    BY <1>0, <1>1, <2>1, <2>2, <2>3
<1>5. r[Len(r)] = s[Len(s)]
  <2>1. Len(s) \in 1..Len(s) /\ Len(r) = Len(s) + Len(q)
    BY <1>0, <1>1
  <2> QED
    BY <1>2, <2>1
<1>6. (Len(q) > 0 => r[1] = q[1]) /\ (Len(q) = 0 => r[1] = s[1])
  <2>1. CASE Len(q) > 0
    BY <1>0, <1>2, <2>1
  <2>2. CASE Len(q) = 0
    <3>1. 1 \in 1..Len(s) /\ 1 = 1 + Len(q)
      BY <1>0, <2>2
    <3> QED
      BY <1>2, <2>2, <3>1
  <2> QED
    BY <1>0, <2>1, <2>2
<1>7. ASSUME NEW v, Newest(q, v), Without(s, "iv") PROVE Newest(r, v)
  <2> SUFFICES ASSUME NEW n \in 1..Len(r), r[n].kind = "iv",
                      \A m \in 1..Len(r) : m > n => r[m].kind # "iv"
               PROVE  r[n].of = v
    BY DEF Newest
  <2>1. n \in 1..Len(q)
    BY <1>2, <1>3, <1>7 DEF Without
  <2>2. \A m \in 1..Len(q) : m \in 1..Len(r) /\ r[m] = q[m]
    BY <1>0, <1>1, <1>2
  <2> QED
    BY <1>7, <2>1, <2>2 DEF Newest
<1>8. ASSUME NEW v, Newest(s, v), ~Without(s, "iv") PROVE Newest(r, v)
  <2> SUFFICES ASSUME NEW n \in 1..Len(r), r[n].kind = "iv",
                      \A m \in 1..Len(r) : m > n => r[m].kind # "iv"
               PROVE  r[n].of = v
    BY DEF Newest
  <2>0. \A k \in 1..Len(s) : k + Len(q) \in 1..Len(r) /\ r[k + Len(q)] = s[k]
    BY <1>0, <1>1, <1>2
  <2>1. PICK k \in 1..Len(s) : s[k].kind = "iv"
    BY <1>8 DEF Without
  <2>2. ~(k + Len(q) > n)
    BY <2>0, <2>1
  <2>3. ~(n \in 1..Len(q))
    BY <1>0, <2>2
  <2>4. PICK i \in 1..Len(s) : n = i + Len(q)
    BY <1>3, <2>3
  <2>5. \A m \in 1..Len(s) : m > i => s[m].kind # "iv"
    <3> SUFFICES ASSUME NEW m \in 1..Len(s), m > i PROVE s[m].kind # "iv"
      OBVIOUS
    <3>1. m + Len(q) > n
      BY <1>0, <2>4
    <3> QED
      BY <2>0, <3>1
  <2> QED
    BY <1>8, <2>0, <2>4, <2>5 DEF Newest
<1>9. ASSUME NEW kind PROVE Without(r, kind) <=> Without(q, kind) /\ Without(s, kind)
  <2>1. ASSUME Without(r, kind) PROVE Without(q, kind) /\ Without(s, kind)
    <3>1. \A m \in 1..Len(q) : m \in 1..Len(r) /\ r[m] = q[m]
      BY <1>0, <1>1, <1>2
    <3>2. \A k \in 1..Len(s) : k + Len(q) \in 1..Len(r) /\ r[k + Len(q)] = s[k]
      BY <1>0, <1>1, <1>2
    <3> QED
      BY <2>1, <3>1, <3>2 DEF Without
  <2>2. ASSUME Without(q, kind), Without(s, kind) PROVE Without(r, kind)
    BY <1>2, <1>3, <2>2 DEF Without
  <2> QED
    BY <2>1, <2>2
<1> QED
  BY <1>1, <1>4, <1>5, <1>6, <1>7, <1>8, <1>9 DEF r

-----------------------------------------------------------------------------
(* The steps of the protocol between a caller and one peer.                *)

(***************************************************************************)
(* The caller announces a Store, or asks for its file.                     *)
(***************************************************************************)
LEMMA AnnounceInStep ==
  ASSUME NEW q \in Seq(Units), NEW at, NEW msgs, NEW held, NEW place, NEW v, NEW j, NEW T,
         place # "announced", InStep(q, at, msgs, held, place, v, j, T), NEW w, NEW R, j \in R
  PROVE  InStep(q \o <<IncomingMessage, MessageStoreFile>>, at, msgs, held, "announced", w, j, R)
<1> DEFINE s == <<IncomingMessage, MessageStoreFile>>
           r == q \o s
<1>1. /\ s \in Seq(Units) /\ Len(s) = 2
      /\ s[1].kind = "message" /\ s[2].kind = "STORE"
  BY UnitTypes, KindOfUnit
<1> HIDE DEF s
<1>2. Chain(s) /\ (Len(q) > 0 => Follows(q[Len(q)], s[1]))
  BY <1>1 DEF Chain, Follows, InStep, InOrder
<1>3. /\ Len(r) = Len(q) + Len(s)
      /\ Chain(q) /\ Chain(s) /\ (Len(q) > 0 => Follows(q[Len(q)], s[1])) => Chain(r)
      /\ r[Len(r)] = s[Len(s)]
      /\ Len(q) > 0 => r[1] = q[1]
      /\ Len(q) = 0 => r[1] = s[1]
  <2>1. s \in Seq(Units) /\ Len(s) > 0
    BY <1>1
  <2> QED
    BY <2>1, Write, Zenon
<1> HIDE DEF r
<1>4. Len(r) > 0 /\ Len(q) \in Nat
  BY <1>1, <1>3
<1>5. Position(r, at, msgs, "announced")
  BY <1>1, <1>3, <1>4 DEF InStep, Position
<1>6. InOrder(r, msgs, "announced")
  BY <1>1, <1>2, <1>3, <1>4 DEF InStep, InOrder
<1> QED
  BY <1>5, <1>6 DEF InStep, r, s

LEMMA AskInStep ==
  ASSUME NEW q \in Seq(Units), NEW at, NEW msgs, NEW held, NEW place, NEW v, NEW j, NEW T,
         place # "announced", InStep(q, at, msgs, held, place, v, j, T),
         NEW next, next # "announced"
  PROVE  InStep(q \o <<IncomingMessage, MessageGetFile>>, at, msgs, held, next, v, j, T)
<1> DEFINE s == <<IncomingMessage, MessageGetFile>>
           r == q \o s
<1>1. /\ s \in Seq(Units) /\ Len(s) = 2
      /\ s[1].kind = "message" /\ s[2].kind = "GET"
  BY UnitTypes, KindOfUnit
<1> HIDE DEF s
<1>2. /\ Chain(s) /\ (Len(q) > 0 => Follows(q[Len(q)], s[1]))
      /\ Without(s, "iv") /\ Without(s, "STORE")
  BY <1>1 DEF Chain, Follows, InStep, InOrder, Without
<1>3. /\ Len(r) = Len(q) + Len(s)
      /\ Chain(q) /\ Chain(s) /\ (Len(q) > 0 => Follows(q[Len(q)], s[1])) => Chain(r)
      /\ r[Len(r)] = s[Len(s)]
      /\ Len(q) > 0 => r[1] = q[1]
      /\ Len(q) = 0 => r[1] = s[1]
      /\ Newest(q, v) /\ Without(s, "iv") => Newest(r, v)
      /\ \A kind : Without(r, kind) <=> Without(q, kind) /\ Without(s, kind)
  <2>1. s \in Seq(Units) /\ Len(s) > 0
    BY <1>1
  <2> QED
    BY <2>1, Write, Zenon
<1> HIDE DEF r
<1>4. Len(r) > 0 /\ Len(q) \in Nat
  BY <1>1, <1>3
<1>5. Position(r, at, msgs, next)
  BY <1>1, <1>3, <1>4 DEF InStep, Position
<1>6. InOrder(r, msgs, next)
  BY <1>1, <1>2, <1>3, <1>4 DEF InStep, InOrder
<1>7. j \in T => Current(r, msgs, held, v)
  BY <1>2, <1>3 DEF InStep, Current
<1>8. j \notin T => Untold(r, msgs, held)
  BY <1>2, <1>3 DEF InStep, Untold
<1> QED
  BY <1>5, <1>6, <1>7, <1>8 DEF InStep, r, s

(***************************************************************************)
(* The caller streams what it has announced.                               *)
(***************************************************************************)
LEMMA StreamInStep ==
  ASSUME NEW q \in Seq(Units), NEW at, NEW msgs, NEW held, NEW v \in 1..MaxOps, NEW j, NEW T,
         InStep(q, at, msgs, held, "announced", v, j, T)
  PROVE  InStep(q \o <<IncomingStream, Unit("iv", v), Unit("cipher", v)>>,
                at, msgs, held, "idle", v, j, T)
<1> DEFINE s == <<IncomingStream, Unit("iv", v), Unit("cipher", v)>>
           r == q \o s
<1>1. /\ s \in Seq(Units) /\ Len(s) = 3
      /\ s[1].kind = "stream" /\ s[2].kind = "iv" /\ s[3].kind = "cipher"
      /\ s[2].of = v /\ s[3].of = v
  BY UnitTypes, KindOfUnit
<1> HIDE DEF s
<1>2. /\ Chain(s) /\ (Len(q) > 0 => Follows(q[Len(q)], s[1]))
      /\ ~Without(s, "iv") /\ Newest(s, v)
  BY <1>1 DEF Chain, Follows, InStep, InOrder, Without, Newest
<1>3. /\ Len(r) = Len(q) + Len(s)
      /\ Chain(q) /\ Chain(s) /\ (Len(q) > 0 => Follows(q[Len(q)], s[1])) => Chain(r)
      /\ r[Len(r)] = s[Len(s)]
      /\ Len(q) > 0 => r[1] = q[1]
      /\ Len(q) = 0 => r[1] = s[1]
      /\ Newest(s, v) /\ ~Without(s, "iv") => Newest(r, v)
      /\ \A kind : Without(r, kind) <=> Without(q, kind) /\ Without(s, kind)
  <2>1. s \in Seq(Units) /\ Len(s) > 0
    BY <1>1
  <2> QED
    BY <2>1, Write, Zenon
<1> HIDE DEF r
<1>4. Len(r) > 0 /\ Len(q) \in Nat
  BY <1>1, <1>3
<1>5. Position(r, at, msgs, "idle")
  BY <1>1, <1>3, <1>4 DEF InStep, Position
<1>6. InOrder(r, msgs, "idle")
  BY <1>1, <1>2, <1>3, <1>4 DEF InStep, InOrder
<1>7. Current(r, msgs, held, v)
  BY <1>2, <1>3 DEF Current
<1>8. j \in T
  <2> SUFFICES ASSUME j \notin T PROVE FALSE
    OBVIOUS
  <2>1. ~HasStore(msgs) /\ Without(q, "STORE")
    BY DEF InStep, Untold
  <2>2. Len(q) > 0
    BY <1>4, <2>1 DEF InStep, Position
  <2>3. q[Len(q)].kind = "STORE" /\ Len(q) \in 1..Len(q)
    BY <1>4, <2>2 DEF InStep, InOrder
  <2> QED
    BY <2>1, <2>3 DEF Without
<1> QED
  BY <1>5, <1>6, <1>7, <1>8 DEF InStep, r, s

(***************************************************************************)
(* The call moves on without a word to the peer.                           *)
(***************************************************************************)
LEMMA PlaceInStep ==
  ASSUME NEW q, NEW at, NEW msgs, NEW held, NEW place, NEW v, NEW j, NEW T,
         place # "announced", InStep(q, at, msgs, held, place, v, j, T),
         NEW next, next # "announced"
  PROVE  InStep(q, at, msgs, held, next, v, j, T)
BY DEF InStep, Position, InOrder

(***************************************************************************)
(* Reading one unit.                                                       *)
(***************************************************************************)
LEMMA ReadOne ==
  ASSUME NEW q \in Seq(Units), NEW r \in Seq(Units), Len(q) > 0,
         Len(r) = Len(q) - 1, \A k \in 1..Len(r) : r[k] = q[k + 1], NEW v
  PROVE  /\ Chain(q) => Chain(r)
         /\ Len(r) > 0 => r[1] = q[2] /\ r[Len(r)] = q[Len(q)]
         /\ Newest(q, v) => Newest(r, v)
         /\ \A kind : Without(q, kind) => Without(r, kind)
         /\ \A kind : Without(r, kind) /\ (\A k \in 1..1 : q[k].kind # kind) => Without(q, kind)
<1>1. PICK d \in Nat : d = 1
  OBVIOUS
<1>2. d <= Len(q) /\ Len(r) = Len(q) - d /\ \A k \in 1..Len(r) : r[k] = q[k + d]
  BY <1>1
<1>3. /\ Chain(q) => Chain(r)
      /\ Len(r) > 0 => r[1] = q[d + 1] /\ r[Len(r)] = q[Len(q)]
      /\ Newest(q, v) => Newest(r, v)
      /\ \A kind : Without(q, kind) => Without(r, kind)
      /\ \A kind : Without(r, kind) /\ (\A k \in 1..d : q[k].kind # kind) => Without(q, kind)
  BY <1>2, Read, Zenon
<1>4. d + 1 = 2 /\ 1..d = 1..1
  BY <1>1
<1> QED
  BY <1>3, <1>4, Zenon

(***************************************************************************)
(* The peer's read loop takes a marker.                                    *)
(***************************************************************************)
LEMMA MarkerInStep ==
  ASSUME NEW q \in Seq(Units), NEW msgs, NEW held, NEW place, NEW v, NEW j, NEW T,
         q # <<>>, InStep(q, "read", msgs, held, place, v, j, T),
         NEW next \in {"took", "payload"},
         Head(q) = IncomingStream => next = "took",
         Head(q) = IncomingMessage => next = "payload"
  PROVE  InStep(Tail(q), next, msgs, held, place, v, j, T)
<1> DEFINE r == Tail(q)
<1>1. /\ r \in Seq(Units) /\ Len(r) = Len(q) - 1 /\ Len(q) \in Nat /\ Len(q) > 0
      /\ \A k \in 1..Len(r) : r[k] = q[k + 1]
      /\ Head(q) = q[1] /\ q[1] \in Units
  BY HeadTailProperties, EmptySeq
<1> HIDE DEF r
<1>2. /\ Chain(q) => Chain(r)
      /\ Len(r) > 0 => r[1] = q[2] /\ r[Len(r)] = q[Len(q)]
      /\ Newest(q, v) => Newest(r, v)
      /\ \A kind : Without(q, kind) => Without(r, kind)
      /\ \A kind : Without(r, kind) /\ (\A k \in 1..1 : q[k].kind # kind) => Without(q, kind)
  BY <1>1, ReadOne, Zenon
<1>3. \/ q[1].kind = "stream" /\ next = "took" /\ HasStore(msgs)
      \/ q[1].kind = "message" /\ next = "payload" /\ ~HasStore(msgs)
  BY <1>1, KindOfUnit DEF InStep, Position
<1>4. Len(r) > 0 /\ Follows(q[1], q[2])
  <2>1. Len(q) # 1
    BY <1>1, <1>3 DEF InStep, InOrder
  <2>2. Len(r) > 0 /\ 1 \in 1..(Len(q) - 1)
    BY <1>1, <2>1
  <2> QED
    BY <2>2 DEF InStep, InOrder, Chain
<1>5. Position(r, next, msgs, place)
  BY <1>2, <1>3, <1>4 DEF Position, Follows
<1>6. InOrder(r, msgs, place)
  BY <1>1, <1>2, <1>4 DEF InStep, InOrder
<1>7. Without(r, "iv") <=> Without(q, "iv")
  BY <1>2, <1>3
<1>8. j \in T /\ place # "announced" => Current(r, msgs, held, v)
  BY <1>2, <1>7 DEF InStep, Current
<1>9. j \notin T => Untold(r, msgs, held)
  BY <1>2, <1>7 DEF InStep, Untold
<1> QED
  BY <1>5, <1>6, <1>8, <1>9 DEF InStep, r

LEMMA AddInStep ==
  ASSUME NEW q, NEW msgs, NEW held, NEW place, NEW v, NEW j, NEW T,
         InStep(q, "took", msgs, held, place, v, j, T)
  PROVE  InStep(q, "wait", msgs, held, place, v, j, T)
BY DEF InStep, Position

(***************************************************************************)
(* The peer's read loop takes a message and queues it.                     *)
(***************************************************************************)
LEMMA PayloadInStep ==
  ASSUME NEW q \in Seq(Units), NEW held, NEW place, NEW v, NEW j, NEW T,
         NEW msgs \in Seq(Message(j)), NEW m \in Message(j), m.msg = Head(q),
         InStep(q, "payload", msgs, held, place, v, j, T)
  PROVE  InStep(Tail(q), "read", Append(msgs, m), held, place, v, j, T)
<1> DEFINE r == Tail(q)
           more == Append(msgs, m)
<1>0. Len(q) > 0 /\ ~HasStore(msgs) /\ q[1].kind \in {"STORE", "GET"}
  BY DEF InStep, Position
<1>1. /\ r \in Seq(Units) /\ Len(r) = Len(q) - 1 /\ Len(q) \in Nat
      /\ \A k \in 1..Len(r) : r[k] = q[k + 1]
      /\ Head(q) = q[1] /\ q[1] \in Units
  BY <1>0, HeadTailProperties, EmptySeq
<1>2. /\ more \in Seq(Message(j)) /\ Len(more) = Len(msgs) + 1 /\ Len(msgs) \in Nat
      /\ \A i \in 1..Len(msgs) : more[i] = msgs[i]
      /\ more[Len(msgs) + 1] = m
  BY AppendProperties
<1> HIDE DEF r, more
<1>3. /\ Chain(q) => Chain(r)
      /\ Len(r) > 0 => r[1] = q[2] /\ r[Len(r)] = q[Len(q)]
      /\ Newest(q, v) => Newest(r, v)
      /\ \A kind : Without(q, kind) => Without(r, kind)
      /\ \A kind : Without(r, kind) /\ (\A k \in 1..1 : q[k].kind # kind) => Without(q, kind)
  BY <1>0, <1>1, ReadOne, Zenon
<1>4. HasStore(more) <=> q[1].kind = "STORE"
  <2>1. m.msg = q[1] /\ \A i \in 1..Len(msgs) : more[i].msg.kind # "STORE"
    BY <1>0, <1>1, <1>2 DEF HasStore
  <2>2. \A i \in 1..Len(more) : i \in 1..Len(msgs) \/ i = Len(msgs) + 1
    BY <1>2
  <2>3. Len(msgs) + 1 \in 1..Len(more)
    BY <1>2
  <2> QED
    BY <1>2, <2>1, <2>2, <2>3 DEF HasStore
<1>5. Len(r) > 0 => Follows(q[1], q[2])
  <2>1. Len(r) > 0 => 1 \in 1..(Len(q) - 1)
    BY <1>1
  <2> QED
    BY <2>1 DEF InStep, InOrder, Chain
<1>6. Len(r) = 0 => (q[1].kind = "STORE" <=> place = "announced")
  <2>1. Len(r) = 0 => Len(q) = 1
    BY <1>0, <1>1
  <2>2. Len(q) = 1 => IF place = "announced" THEN q[1].kind = "STORE"
                      ELSE q[1].kind \in {"GET", "cipher"}
    BY DEF InStep, InOrder
  <2> QED
    BY <1>0, <2>1, <2>2
<1>7. Len(r) \in Nat
  BY <1>0, <1>1
<1>8. Position(r, "read", more, place)
  <2>1. CASE Len(r) = 0
    BY <1>0, <1>4, <1>6, <2>1 DEF Position
  <2>2. CASE Len(r) > 0
    BY <1>0, <1>3, <1>4, <1>5, <2>2 DEF Position, Follows
  <2> QED
    BY <1>7, <2>1, <2>2
<1>9. InOrder(r, more, place)
  <2>1. \A n \in 1..(Len(more) - 1) : more[n].msg.kind # "STORE"
    BY <1>0, <1>2 DEF HasStore
  <2> QED
    BY <1>0, <1>3, <2>1 DEF InStep, InOrder
<1>10. j \in T /\ place # "announced" => Current(r, more, held, v)
  BY <1>0, <1>3, <1>4 DEF InStep, Current
<1>11. j \notin T => Untold(r, more, held)
  <2>1. j \notin T => Without(q, "STORE") /\ 1 \in 1..Len(q)
    BY <1>0, <1>1 DEF InStep, Untold
  <2> QED
    BY <1>3, <1>4, <2>1 DEF InStep, Untold, Without
<1> QED
  BY <1>8, <1>9, <1>10, <1>11 DEF InStep, r, more

First(msgs, m) == msgs # <<>> /\ Head(msgs).msg = m

(* Of q, part is what handling a STORE reads, and r what it leaves.        *)
Splits(q, part, r) ==
  /\ part \in Seq(Units) /\ r \in Seq(Units)
  /\ Len(q) > 1 => Len(part) = 2 /\ Len(r) = Len(q) - 2
  /\ \A k \in 1..Len(part) : part[k] = q[k]
  /\ \A k \in 1..Len(r) : r[k] = q[k + 2]

(***************************************************************************)
(* The peer handles a STORE: what it reads is the content and its IV.      *)
(***************************************************************************)
LEMMA StoredInStep ==
  ASSUME NEW q \in Seq(Units), NEW at, NEW held, NEW place, NEW v, NEW j, NEW T,
         NEW msgs \in Seq(Message(j)), First(msgs, MessageStoreFile),
         at \in {"took", "wait"}, InStep(q, at, msgs, held, place, v, j, T),
         NEW r, NEW part, Splits(q, part, r)
  PROVE  InStep(r, "read", Tail(msgs), part, place, v, j, T)
<1>1. /\ Head(msgs) = msgs[1] /\ Len(msgs) \in Nat \ {0} /\ Len(q) \in Nat
      /\ Len(Tail(msgs)) = Len(msgs) - 1
  BY HeadTailProperties, EmptySeq DEF First
<1>2. HasStore(msgs) /\ msgs[1].msg.kind = "STORE"
  BY <1>1, KindOfUnit DEF HasStore, First
<1>3. Len(msgs) = 1
  BY <1>1, <1>2 DEF InStep, InOrder
<1>4. Len(Tail(msgs)) = 0 /\ ~HasStore(Tail(msgs))
  <2>1. Len(Tail(msgs)) = 0
    BY <1>1, <1>3
  <2>2. \A n \in 1..0 : FALSE
    OBVIOUS
  <2> QED
    BY <2>1, <2>2, Zenon DEF HasStore
<1>5. Len(q) > 0 /\ q[1].kind = "iv" /\ q[1] \in Units
  BY <1>2, ElementOfSeq DEF InStep, Position
<1>6. Len(q) > 1 /\ q[2].kind = "cipher" /\ q[2].of = q[1].of /\ q[2] \in Units
  <2>1. Len(q) # 1
    BY <1>5 DEF InStep, InOrder
  <2>2. Len(q) > 1 /\ 1 \in 1..(Len(q) - 1) /\ q[2] \in Units
    <3>0. Len(q) \in Nat /\ Len(q) > 0 /\ Len(q) # 1
      BY <1>5, <2>1
    <3>1. Len(q) > 1 /\ 1 \in 1..(Len(q) - 1) /\ 2 \in 1..Len(q)
      <4>1. \A n \in Nat : n > 0 /\ n # 1 => n > 1 /\ 1 \in 1..(n - 1) /\ 2 \in 1..n
        OBVIOUS
      <4> QED
        BY <3>0, <4>1, Zenon
    <3> QED
      BY <3>1, ElementOfSeq
  <2>3. Follows(q[1], q[2])
    BY <2>2 DEF InStep, InOrder, Chain
  <2> QED
    BY <1>5, <2>2, <2>3 DEF Follows
<1>7. q[1].of \in 1..MaxOps /\ part = CopyEncrypt(q[1].of)
  <2>1. /\ q[1] = Unit("iv", q[1].of) /\ q[1].of \in 1..MaxOps
        /\ q[2] = Unit("cipher", q[1].of)
    BY <1>5, <1>6, KindOfUnit
  <2>2. Len(part) = 2 /\ part[1] = q[1] /\ part[2] = q[2]
    <3>1. Len(part) = 2 /\ \A k \in 1..Len(part) : part[k] = q[k]
      BY <1>6 DEF Splits
    <3>2. \A k \in 1..2 : part[k] = q[k]
      BY <3>1
    <3> QED
      BY <3>1, <3>2
  <2>3. /\ CopyEncrypt(q[1].of) \in Seq(Units) /\ Len(CopyEncrypt(q[1].of)) = 2
        /\ CopyEncrypt(q[1].of)[1] = Unit("iv", q[1].of)
        /\ CopyEncrypt(q[1].of)[2] = Unit("cipher", q[1].of)
    BY <2>1, CopyEncryptType
  <2>4. \A i \in 1..Len(part) : part[i] = CopyEncrypt(q[1].of)[i]
    BY <2>1, <2>2, <2>3
  <2>5. part = CopyEncrypt(q[1].of)
    <3>1. part \in Seq(Units) /\ Len(part) = Len(CopyEncrypt(q[1].of))
      BY <1>6, <2>2, <2>3 DEF Splits
    <3> QED
      BY <2>3, <2>4, <3>1, SeqEqual, Zenon
  <2> QED
    BY <2>1, <2>5
<1>8. /\ Chain(q) => Chain(r)
      /\ Len(r) > 0 => r[1] = q[3] /\ r[Len(r)] = q[Len(q)]
      /\ Newest(q, v) => Newest(r, v)
      /\ Len(r) = Len(q) - 2
  <2>1. /\ 2 \in Nat /\ 2 <= Len(q) /\ Len(r) = Len(q) - 2 /\ 2 + 1 = 3
        /\ r \in Seq(Units) /\ \A k \in 1..Len(r) : r[k] = q[k + 2]
    BY <1>1, <1>6 DEF Splits
  <2>2. /\ Chain(q) => Chain(r)
        /\ Len(r) > 0 => r[1] = q[2 + 1] /\ r[Len(r)] = q[Len(q)]
        /\ Newest(q, v) => Newest(r, v)
    BY <2>1, Read, Zenon
  <2> QED
    BY <2>1, <2>2
<1>9. Len(r) \in Nat
  BY <1>1, <1>6, <1>8
<1>10. Position(r, "read", Tail(msgs), place)
  <2>1. CASE Len(r) = 0
    <3>1. Len(q) = 2
      BY <1>1, <1>8, <2>1
    <3>2. place # "announced"
      BY <1>6, <3>1 DEF InStep, InOrder
    <3> QED
      BY <1>4, <2>1, <3>2 DEF Position
  <2>2. CASE Len(r) > 0
    <3>1. 2 \in 1..(Len(q) - 1)
      BY <1>1, <1>8, <2>2
    <3>2. Follows(q[2], q[3])
      BY <3>1 DEF InStep, InOrder, Chain
    <3> QED
      BY <1>4, <1>6, <1>8, <2>2, <3>2 DEF Position, Follows
  <2> QED
    BY <1>9, <2>1, <2>2
<1>11. InOrder(r, Tail(msgs), place)
  BY <1>4, <1>8 DEF InStep, InOrder
<1>12. j \in T /\ place # "announced" => Current(r, Tail(msgs), part, v)
  <2> SUFFICES ASSUME j \in T, place # "announced" PROVE Current(r, Tail(msgs), part, v)
    OBVIOUS
  <2>1. Newest(q, v)
    BY DEF InStep, Current
  <2>2. ASSUME Without(r, "iv") PROVE q[1].of = v
    <3>1. \A m \in 1..Len(q) : m > 1 => q[m].kind # "iv"
      <4> SUFFICES ASSUME NEW m \in 1..Len(q), m > 1 PROVE q[m].kind # "iv"
        OBVIOUS
      <4>1. CASE m = 2
        BY <1>6, <4>1
      <4>2. CASE m > 2
        <5>1. m - 2 \in 1..Len(r) /\ (m - 2) + 2 = m
          BY <1>1, <1>8, <4>2
        <5> QED
          BY <2>2, <5>1 DEF Without, Splits
      <4> QED
        BY <1>1, <4>1, <4>2
    <3>2. 1 \in 1..Len(q)
      BY <1>1, <1>5
    <3> QED
      BY <1>5, <2>1, <3>1, <3>2 DEF Newest
  <2> QED
    BY <1>7, <1>8, <2>1, <2>2 DEF Current
<1>13. j \in T
  BY <1>2 DEF InStep, Untold
<1> QED
  BY <1>7, <1>10, <1>11, <1>12, <1>13 DEF InStep, Holds

(***************************************************************************)
(* The peer handles a GET.                                                 *)
(***************************************************************************)
LEMMA AskedInStep ==
  ASSUME NEW q, NEW at, NEW held, NEW place, NEW v, NEW j, NEW T,
         NEW msgs \in Seq(Message(j)), msgs # <<>>, Head(msgs).msg = MessageGetFile,
         InStep(q, at, msgs, held, place, v, j, T)
  PROVE  InStep(q, at, Tail(msgs), held, place, v, j, T)
<1>1. /\ Head(msgs) = msgs[1] /\ Len(msgs) \in Nat \ {0}
      /\ Len(Tail(msgs)) = Len(msgs) - 1
      /\ \A n \in 1..Len(Tail(msgs)) : Tail(msgs)[n] = msgs[n + 1]
  BY HeadTailProperties, EmptySeq
<1>2. msgs[1].msg.kind = "GET"
  BY <1>1, KindOfUnit
<1>3. HasStore(Tail(msgs)) <=> HasStore(msgs)
  <2>1. ASSUME HasStore(msgs) PROVE HasStore(Tail(msgs))
    <3>1. PICK n \in 1..Len(msgs) : msgs[n].msg.kind = "STORE"
      BY <2>1 DEF HasStore
    <3>2. n # 1
      BY <1>2, <3>1
    <3>3. n - 1 \in 1..Len(Tail(msgs)) /\ (n - 1) + 1 = n
      BY <1>1, <3>2
    <3> QED
      BY <1>1, <3>1, <3>3 DEF HasStore
  <2>2. ASSUME HasStore(Tail(msgs)) PROVE HasStore(msgs)
    BY <1>1, <2>2 DEF HasStore
  <2> QED
    BY <2>1, <2>2
<1>4. Position(q, at, Tail(msgs), place)
  BY <1>3 DEF InStep, Position
<1>5. InOrder(q, Tail(msgs), place)
  <2>1. \A n \in 1..(Len(Tail(msgs)) - 1) : Tail(msgs)[n].msg.kind # "STORE"
    BY <1>1 DEF InStep, InOrder
  <2> QED
    BY <2>1 DEF InStep, InOrder
<1>6. j \in T /\ place # "announced" => Current(q, Tail(msgs), held, v)
  BY <1>3 DEF InStep, Current
<1>7. j \notin T => Untold(q, Tail(msgs), held)
  BY <1>3 DEF InStep, Untold
<1> QED
  BY <1>4, <1>5, <1>6, <1>7 DEF InStep

(***************************************************************************)
(* The same steps for a peer that joined too late.                         *)
(***************************************************************************)
LEMMA LaggingWrite ==
  ASSUME NEW q \in Seq(Units), NEW s \in Seq(Units), Len(s) > 0,
         NEW at, NEW msgs, NEW held, NEW back, NEW place, NEW j, NEW T,
         Lagging(q, at, msgs, held, back, place, j, T),
         place = "announced" => s[1].kind = "stream", NEW next, NEW R
  PROVE  Lagging(q \o s, at, msgs, held, back, next, j, R)
<1>1. /\ Len(q \o s) = Len(q) + Len(s)
      /\ Len(q) > 0 => (q \o s)[1] = q[1]
      /\ Len(q) = 0 => (q \o s)[1] = s[1]
  BY Write, Zenon
<1>2. Len(q) \in Nat /\ Len(s) \in Nat
  OBVIOUS
<1>3. Len(q \o s) > 0
  BY <1>1, <1>2
<1> QED
  BY <1>1, <1>3 DEF Lagging

LEMMA LaggingPlace ==
  ASSUME NEW q, NEW at, NEW msgs, NEW held, NEW back, NEW place, NEW j, NEW T,
         Lagging(q, at, msgs, held, back, place, j, T), place # "announced", NEW next, NEW R
  PROVE  Lagging(q, at, msgs, held, back, next, j, R)
BY DEF Lagging

LEMMA LaggingMarker ==
  ASSUME NEW q \in Seq(Units), q # <<>>, NEW msgs, NEW held, NEW back, NEW place, NEW j, NEW T,
         Lagging(q, "read", msgs, held, back, place, j, T),
         NEW next, Head(q) = IncomingStream => next = "took"
  PROVE  Lagging(Tail(q), next, msgs, held, back, place, j, T)
<1>1. Len(q) > 0 /\ Head(q) = q[1] /\ q[1] \in Units
  BY HeadTailProperties, EmptySeq
<1>2. q[1].kind = "stream"
  BY <1>1 DEF Lagging
<1>3. next = "took"
  BY <1>1, <1>2, KindOfUnit
<1> QED
  BY <1>3 DEF Lagging

-----------------------------------------------------------------------------
(* Peers that have never been connected.                                   *)

(***************************************************************************)
(* Only peers are told of a Store, and only they leave a replica.          *)
(***************************************************************************)
Strangers ==
  /\ \A i \in Nodes : told[i] \subseteq peers[i]
  /\ \A i, j \in Nodes : j \notin peers[i] => replica[i][j] = NoFile

LEMMA StepKeepsStrangers ==
  ASSUME Types, Connected, Strangers, [Next]_vars
  PROVE  Strangers'
<1>0. /\ peers \in [Nodes -> SUBSET Nodes] /\ told \in [Nodes -> SUBSET Nodes]
      /\ replica \in [Nodes -> [Nodes -> Seq(Units)]]
  BY DEF Types, TypeOK
<1>1. ASSUME \A i \in Nodes : peers[i] \subseteq peers'[i], UNCHANGED <<told, replica>>
      PROVE  Strangers'
  BY <1>1 DEF Strangers
<1>2. ASSUME UNCHANGED <<peers, told, replica>> PROVE Strangers'
  BY <1>1, <1>2
<1>3. CASE UNCHANGED vars
  BY <1>2, <1>3 DEF vars
<1>4. ASSUME NEW i \in Nodes, Call(i) \/ Proceed(i) \/ Handle(i) \/ Stop(i) \/ Panic(i)
      PROVE  Strangers'
  <2>1. CASE Store(i)
    <3>1. UNCHANGED <<peers, replica>> /\ told' = [told EXCEPT ![i] = peers[i]]
      BY <2>1 DEF Store
    <3> QED
      BY <1>0, <3>1 DEF Strangers
  <2>2. CASE HandleMessageStoreFile(i)
    <3>1. /\ UNCHANGED <<peers, told>> /\ rpcs[i] # <<>>
          /\ replica' = [replica EXCEPT ![i][Sender(i)] = Part(<<i, Sender(i)>>, StoreSize)]
          /\ rpcs' = [rpcs EXCEPT ![i] = Tail(@)]
      BY <2>2 DEF HandleMessageStoreFile, Handling
    <3>2. Sender(i) \in peers[i]
      BY <3>1, TailFromPeers
    <3> QED
      BY <1>0, <3>1, <3>2 DEF Strangers
  <2>3. CASE Delete(i) \/ GetLocal(i) \/ Get(i) \/ Proceed(i) \/ HandleMessageGetFile(i)
             \/ Stop(i) \/ Panic(i)
    <3>1. UNCHANGED <<peers, told, replica>>
      BY <2>3 DEF Delete, GetLocal, Get, Proceed, Stream, StreamFails, GetRange, GetReturn,
                  HandleMessageGetFile, Stop, Panic
    <3> QED
      BY <1>2, <3>1
  <2> QED
    BY <1>4, <2>1, <2>2, <2>3 DEF Call, Handle
<1>5. ASSUME NEW e \in Ends,
             ReadLoop(e) \/ GetStep(e[1], e[2]) \/ Dial(e[1], e[2]) \/ Drop(e[1], e[2])
      PROVE  Strangers'
  <2>1. CASE Dial(e[1], e[2])
    <3>1. \A i \in Nodes : peers[i] \subseteq peers'[i]
      BY <1>0, <2>1 DEF Dial, OnPeer
    <3>2. UNCHANGED <<told, replica>>
      BY <2>1 DEF Dial
    <3> QED
      BY <1>1, <3>1, <3>2
  <2>2. CASE ReadLoop(e) \/ GetStep(e[1], e[2]) \/ Drop(e[1], e[2])
    <3>1. UNCHANGED <<peers, told, replica>>
      BY <2>2 DEF ReadLoop, DecodeMarker, DecodePayload, AddStream, DecodeFails, GetStep,
                  GetFrom, GetFails, Drop
    <3> QED
      BY <1>2, <3>1
  <2> QED
    BY <1>5, <2>1, <2>2
<1> QED
  BY <1>3, <1>4, <1>5 DEF Next

(***************************************************************************)
(* Before two nodes are connected, neither has told the other of a Store   *)
(* and neither holds anything of the other.                                *)
(***************************************************************************)
THEOREM FileServerStrangers == Spec => []Strangers
<1>1. Init => Strangers
  BY DEF Init, Strangers
<1>2. Types /\ Connected /\ Strangers /\ [Next]_vars => Strangers'
  BY StepKeepsStrangers
<1> QED
  BY <1>1, <1>2, FileServerTypes, FileServerConnected, PTL DEF Spec

-----------------------------------------------------------------------------
(* The protocol between the caller and its peers.                          *)

(***************************************************************************)
(* With one caller the others only answer: they have no call under way,    *)
(* what is queued comes from the caller, and what they write is an answer. *)
(***************************************************************************)
Answers == {"stream", "size", "iv", "cipher"}

IdlePeers == \A i \in Nodes \ Callers : app[i].at = "idle"

FromCallers ==
  \A i \in Nodes : \A n \in 1..Len(rpcs[i]) : rpcs[i][n].from \in Callers /\ i \notin Callers

OnlyAnswers ==
  \A e \in Ends : e[2] \notin Callers =>
    \A n \in 1..Len(in[e]) : e[1] \in Callers /\ in[e][n].kind \in Answers

OnlyCallersCall == IdlePeers /\ FromCallers /\ OnlyAnswers

InStepWith(a, j) ==
  InStep(in[<<j, a>>], loop[<<j, a>>], rpcs[j], replica[j][a], app[a].at, last[a], j, told[a])

LaggingBehind(a, j) ==
  /\ "join" \in happened
  /\ Lagging(in[<<j, a>>], loop[<<j, a>>], rpcs[j], replica[j][a], in[<<a, j>>], app[a].at,
             j, told[a])

Linked(a, j) == InStepWith(a, j) \/ LaggingBehind(a, j)

AllLinked == \A a \in Callers : \A j \in Nodes \ {a} : Works(a, j) => Linked(a, j)

Protocol == happened \cap Lost = {} => OnlyCallersCall /\ AllLinked

OneCaller == \A i, k \in Callers : i = k

(***************************************************************************)
(* A step that changes nothing of what a caller and a peer share.          *)
(***************************************************************************)
LEMMA LinkedFrame ==
  ASSUME NEW a, NEW j, Linked(a, j), happened \subseteq happened',
         in'[<<j, a>>] = in[<<j, a>>], in[<<a, j>>] = <<>> => in'[<<a, j>>] = <<>>,
         loop'[<<j, a>>] = loop[<<j, a>>], rpcs'[j] = rpcs[j],
         replica'[j][a] = replica[j][a], app'[a].at = app[a].at,
         last'[a] = last[a], told'[a] = told[a]
  PROVE  Linked(a, j)'
BY DEF Linked, InStepWith, LaggingBehind, Lagging

(***************************************************************************)
(* The call moves on, and perhaps an answer is read.                       *)
(***************************************************************************)
LEMMA LinkedPlace ==
  ASSUME NEW a, NEW j, Linked(a, j), happened \subseteq happened',
         in'[<<j, a>>] = in[<<j, a>>], in[<<a, j>>] = <<>> => in'[<<a, j>>] = <<>>,
         loop'[<<j, a>>] = loop[<<j, a>>], rpcs'[j] = rpcs[j],
         replica'[j][a] = replica[j][a],
         app[a].at # "announced", app'[a].at # "announced",
         last'[a] = last[a], told'[a] = told[a]
  PROVE  Linked(a, j)'
<1>1. CASE InStepWith(a, j)
  BY <1>1, PlaceInStep DEF Linked, InStepWith
<1>2. CASE LaggingBehind(a, j)
  <2>1. in[<<a, j>>] = <<>>
    BY <1>2 DEF LaggingBehind, Lagging
  <2> QED
    BY <1>2, <2>1, LaggingPlace DEF Linked, LaggingBehind
<1> QED
  BY <1>1, <1>2 DEF Linked

(***************************************************************************)
(* What the caller writes, its peers get; it gets nothing by it.           *)
(***************************************************************************)
LEMMA CallerSends ==
  ASSUME Types, Connected, OnlyAnswers, NEW i \in Callers, NEW s,
         \A j \in Nodes : s[j] \in Seq(Units), Send(i, s)
  PROVE  /\ OnlyAnswers'
         /\ \A j \in Nodes \ {i} :
              /\ in'[<<i, j>>] = in[<<i, j>>]
              /\ Works(i, j) => in'[<<j, i>>] = in[<<j, i>>] \o s[j]
<1>1. i \in Nodes /\ in \in [Ends -> Seq(Units)]
  BY CallersAssumption DEF Types, TypeOK
<1>2. \A e \in Ends :
        in'[e] = IF e[2] = i /\ e[1] \in peers[i] /\ Works(e[1], i)
                   THEN in[e] \o s[e[1]] ELSE in[e]
  BY <1>1, SendEffect
<1>3. OnlyAnswers'
  BY <1>2 DEF OnlyAnswers
<1>4. ASSUME NEW j \in Nodes \ {i}
      PROVE  /\ in'[<<i, j>>] = in[<<i, j>>]
             /\ Works(i, j) => in'[<<j, i>>] = in[<<j, i>>] \o s[j]
  <2>1. /\ <<i, j>> \in Ends /\ <<i, j>>[1] = i /\ <<i, j>>[2] = j
        /\ <<j, i>> \in Ends /\ <<j, i>>[1] = j /\ <<j, i>>[2] = i
    BY <1>1 DEF Ends
  <2>2. Works(i, j) => Works(j, i) /\ j \in peers[i]
    <3>1. {i, j} = {j, i}
      OBVIOUS
    <3> QED
      BY <2>1, <3>1 DEF Connected, Running, Works
  <2> QED
    BY <1>2, <2>1, <2>2
<1> QED
  BY <1>3, <1>4

(***************************************************************************)
(* A step of the caller's call is none of its peers'.                      *)
(***************************************************************************)
LEMMA CallerSteps ==
  ASSUME IdlePeers, FromCallers, NEW i \in Callers, rpcs' = rpcs,
         \A k \in Nodes : k # i => app'[k] = app[k]
  PROVE  IdlePeers' /\ FromCallers'
BY DEF IdlePeers, FromCallers

(***************************************************************************)
(* Store announces the content to every peer.                              *)
(***************************************************************************)
LEMMA StoreKeepsProtocol ==
  ASSUME OneCaller, Types, Connected, OnlyCallersCall, AllLinked,
         NEW i \in Nodes, Store(i), happened' \cap Lost = {}
  PROVE  OnlyCallersCall' /\ AllLinked'
<1> DEFINE s == [j \in Nodes |-> <<IncomingMessage, MessageStoreFile>>]
<1>1. /\ i \in Callers /\ app[i] = Idle /\ happened' = happened
      /\ Send(i, s) /\ Go(i, "announced", {})
      /\ told' = [told EXCEPT ![i] = peers[i]]
      /\ UNCHANGED <<net, loop, rpcs, replica>>
  BY DEF Store, Begin, Lost, Broadcast
<1>2. \A k \in Callers : k = i
  BY <1>1 DEF OneCaller
<1>3. app'[i].at = "announced" /\ \A k \in Nodes : k # i => app'[k] = app[k]
  <2>1. app \in [Nodes -> Calls] /\ {} \in SUBSET Nodes
    BY DEF Types, TypeOK, Calls
  <2> QED
    BY <1>1, <2>1, GoEffect
<1>4. <<IncomingMessage, MessageStoreFile>> \in Seq(Units)
  BY UnitTypes
<1>5. \A j \in Nodes : s[j] = <<IncomingMessage, MessageStoreFile>>
  OBVIOUS
<1>6. told'[i] = peers[i] /\ app[i].at = "idle"
  BY <1>1 DEF Types, TypeOK, Idle
<1> HIDE DEF s
<1>7. /\ OnlyAnswers'
      /\ \A j \in Nodes \ {i} :
           /\ in'[<<i, j>>] = in[<<i, j>>]
           /\ Works(i, j) => in'[<<j, i>>] = in[<<j, i>>] \o <<IncomingMessage, MessageStoreFile>>
  <2>1. \A j \in Nodes : s[j] \in Seq(Units)
    BY <1>4, <1>5
  <2>2. OnlyAnswers
    BY DEF OnlyCallersCall
  <2>3. /\ OnlyAnswers'
        /\ \A j \in Nodes \ {i} :
             /\ in'[<<i, j>>] = in[<<i, j>>]
             /\ Works(i, j) => in'[<<j, i>>] = in[<<j, i>>] \o s[j]
    BY <1>1, <2>1, <2>2, CallerSends, Zenon
  <2> QED
    BY <1>5, <2>3
<1>8. OnlyCallersCall'
  BY <1>1, <1>3, <1>7, CallerSteps DEF OnlyCallersCall
<1>9. ASSUME NEW j \in Nodes \ {i}, Works(i, j) PROVE Linked(i, j)'
  <2>1. in[<<j, i>>] \in Seq(Units) /\ j \in peers[i]
    <3>1. <<j, i>> \in Ends /\ <<i, j>> \in Ends /\ <<i, j>>[1] = i /\ <<i, j>>[2] = j
      BY DEF Ends
    <3> QED
      BY <1>9, <3>1 DEF Types, TypeOK, Connected, Running
  <2>2. CASE InStepWith(i, j)
    <3>1. InStep(in[<<j, i>>] \o <<IncomingMessage, MessageStoreFile>>, loop[<<j, i>>], rpcs[j],
                 replica[j][i], "announced", last'[i], j, peers[i])
      BY <1>6, <2>1, <2>2, AnnounceInStep DEF InStepWith
    <3> QED
      BY <1>1, <1>3, <1>6, <1>7, <1>9, <3>1 DEF Linked, InStepWith
  <2>3. CASE LaggingBehind(i, j)
    <3> DEFINE m == <<IncomingMessage, MessageStoreFile>>
    <3>1. m \in Seq(Units) /\ Len(m) > 0
      BY <1>4
    <3> HIDE DEF m
    <3>2. Lagging(in[<<j, i>>] \o m, loop[<<j, i>>], rpcs[j],
                  replica[j][i], in[<<i, j>>], "announced", j, peers[i])
      BY <1>6, <2>1, <2>3, <3>1, LaggingWrite DEF LaggingBehind
    <3> QED
      BY <1>1, <1>3, <1>6, <1>7, <1>9, <2>3, <3>2 DEF Linked, LaggingBehind, m
  <2> QED
    <3>1. Linked(i, j)
      BY <1>1, <1>9 DEF AllLinked
    <3> QED
      BY <2>2, <2>3, <3>1 DEF Linked
<1> QED
  BY <1>1, <1>2, <1>8, <1>9 DEF AllLinked, Works

(***************************************************************************)
(* Store streams what it announced.                                        *)
(***************************************************************************)
LEMMA StreamKeepsProtocol ==
  ASSUME OneCaller, Types, Connected, OnlyCallersCall, AllLinked, NEW i \in Nodes, Stream(i)
  PROVE  OnlyCallersCall' /\ AllLinked'
<1> DEFINE units == <<IncomingStream, Unit("iv", last[i]), Unit("cipher", last[i])>>
           s == [j \in Nodes |-> <<IncomingStream>> \o CopyEncrypt(last[i])]
<1>1. /\ app[i].at = "announced" /\ Send(i, s) /\ Go(i, "idle", {})
      /\ UNCHANGED <<net, loop, rpcs, files, ops, history>>
  BY DEF Stream
<1>2. i \in Callers /\ \A k \in Callers : k = i
  BY <1>1 DEF OnlyCallersCall, IdlePeers, OneCaller
<1>3. app'[i].at = "idle" /\ \A k \in Nodes : k # i => app'[k] = app[k]
  <2>1. app \in [Nodes -> Calls] /\ {} \in SUBSET Nodes
    BY DEF Types, TypeOK, Calls
  <2> QED
    BY <1>1, <2>1, GoEffect
<1>4. last[i] \in 1..MaxOps
  BY <1>1, BoundsAssumption DEF Types, TypeOK
<1>5. units \in Seq(Units) /\ \A j \in Nodes : s[j] = units
  BY <1>4, StreamUnits
<1>6. Len(units) > 0 /\ units[1].kind = "stream"
  BY KindOfUnit
<1> HIDE DEF s
<1>7. /\ OnlyAnswers'
      /\ \A j \in Nodes \ {i} :
           /\ in'[<<i, j>>] = in[<<i, j>>]
           /\ Works(i, j) => in'[<<j, i>>] = in[<<j, i>>] \o units
  <2> HIDE DEF units
  <2>1. \A j \in Nodes : s[j] \in Seq(Units)
    BY <1>5
  <2>2. OnlyAnswers
    BY DEF OnlyCallersCall
  <2>3. /\ OnlyAnswers'
        /\ \A j \in Nodes \ {i} :
             /\ in'[<<i, j>>] = in[<<i, j>>]
             /\ Works(i, j) => in'[<<j, i>>] = in[<<j, i>>] \o s[j]
    BY <1>1, <1>2, <2>1, <2>2, CallerSends, Zenon
  <2> QED
    BY <1>5, <2>3
<1>8. OnlyCallersCall'
  BY <1>1, <1>2, <1>3, <1>7, CallerSteps DEF OnlyCallersCall
<1>9. ASSUME NEW j \in Nodes \ {i}, Works(i, j) PROVE Linked(i, j)'
  <2>1. in[<<j, i>>] \in Seq(Units)
    BY DEF Types, TypeOK, Ends
  <2>2. CASE InStepWith(i, j)
    <3>1. InStep(in[<<j, i>>] \o units, loop[<<j, i>>], rpcs[j],
                 replica[j][i], "idle", last[i], j, told[i])
      BY <1>1, <1>4, <2>1, <2>2, StreamInStep DEF InStepWith
    <3> HIDE DEF units
    <3> QED
      BY <1>1, <1>3, <1>7, <1>9, <3>1 DEF Linked, InStepWith
  <2>3. CASE LaggingBehind(i, j)
    <3> HIDE DEF units
    <3>1. Lagging(in[<<j, i>>] \o units, loop[<<j, i>>], rpcs[j],
                  replica[j][i], in[<<i, j>>], "idle", j, told[i])
      BY <1>5, <1>6, <2>1, <2>3, LaggingWrite DEF LaggingBehind
    <3> QED
      BY <1>1, <1>3, <1>7, <1>9, <2>3, <3>1 DEF Linked, LaggingBehind
  <2> QED
    <3>1. Linked(i, j)
      BY <1>2, <1>9 DEF AllLinked
    <3> QED
      BY <2>2, <2>3, <3>1 DEF Linked
<1> QED
  BY <1>1, <1>2, <1>8, <1>9 DEF AllLinked, Works

(***************************************************************************)
(* Get asks every peer, or only some before it fails.                      *)
(***************************************************************************)
LEMMA GetKeepsProtocol ==
  ASSUME OneCaller, Types, Connected, OnlyCallersCall, AllLinked, NEW i \in Nodes, Get(i)
  PROVE  OnlyCallersCall' /\ AllLinked'
<1> DEFINE m == <<IncomingMessage, MessageGetFile>>
<1>1. /\ i \in Callers /\ app[i] = Idle
      /\ UNCHANGED <<net, loop, rpcs, files, history>>
  BY DEF Get, Begin
<1>2. \A k \in Callers : k = i
  BY <1>1 DEF OneCaller
<1>3. app[i].at = "idle" /\ app'[i].at # "announced" /\ \A k \in Nodes : k # i => app'[k] = app[k]
  <2>1. app \in [Nodes -> Calls] /\ {} \in SUBSET Nodes
    BY DEF Types, TypeOK, Calls
  <2>2. Go(i, "asked", {}) \/ UNCHANGED app
    BY DEF Get
  <2>3. app[i].at = "idle"
    BY <1>1 DEF Idle
  <2> QED
    BY <2>1, <2>2, <2>3, GoEffect
<1>4. m \in Seq(Units) /\ Len(m) > 0 /\ <<>> \in Seq(Units)
  BY UnitTypes
<1>5. \E s : Send(i, s) /\ \A j \in Nodes : s[j] \in {m, <<>>}
  <2>1. CASE Broadcast(i, MessageGetFile)
    <3> DEFINE s == [j \in Nodes |-> m]
    <3>1. Send(i, s) /\ \A j \in Nodes : s[j] \in {m, <<>>}
      BY <2>1 DEF Broadcast
    <3> QED
      BY <3>1
  <2>2. CASE BroadcastFails(i, MessageGetFile)
    <3>1. PICK before : Send(i, [p \in Nodes |-> IF p \in before THEN m ELSE <<>>])
      BY <2>2 DEF BroadcastFails
    <3> DEFINE s == [p \in Nodes |-> IF p \in before THEN m ELSE <<>>]
    <3>2. Send(i, s) /\ \A j \in Nodes : s[j] \in {m, <<>>}
      BY <3>1
    <3> QED
      BY <3>2
  <2> QED
    BY <2>1, <2>2 DEF Get
<1> HIDE DEF m
<1>6. PICK s : Send(i, s) /\ \A j \in Nodes : s[j] \in {m, <<>>}
  BY <1>5
<1>7. /\ OnlyAnswers'
      /\ \A j \in Nodes \ {i} :
           /\ in'[<<i, j>>] = in[<<i, j>>]
           /\ Works(i, j) => in'[<<j, i>>] = in[<<j, i>>] \o s[j]
  <2>1. \A j \in Nodes : s[j] \in Seq(Units)
    BY <1>4, <1>6
  <2>2. OnlyAnswers
    BY DEF OnlyCallersCall
  <2> QED
    BY <1>1, <1>6, <2>1, <2>2, CallerSends, Zenon
<1>8. OnlyCallersCall'
  BY <1>1, <1>3, <1>7, CallerSteps DEF OnlyCallersCall
<1>9. ASSUME NEW j \in Nodes \ {i}, Works(i, j) PROVE Linked(i, j)'
  <2>1. in[<<j, i>>] \in Seq(Units)
    BY DEF Types, TypeOK, Ends
  <2>2. Linked(i, j) /\ s[j] \in {m, <<>>} /\ in'[<<j, i>>] = in[<<j, i>>] \o s[j]
    BY <1>1, <1>6, <1>7, <1>9 DEF AllLinked
  <2>3. CASE s[j] = <<>>
    <3>1. in'[<<j, i>>] = in[<<j, i>>]
      BY <2>1, <2>2, <2>3, ConcatEmptySeq
    <3> QED
      BY <1>1, <1>3, <1>7, <2>2, <3>1, LinkedPlace
  <2>4. CASE s[j] = m /\ InStepWith(i, j)
    <3>1. InStep(in[<<j, i>>] \o m, loop[<<j, i>>], rpcs[j],
                 replica[j][i], app'[i].at, last[i], j, told[i])
      BY <1>3, <2>1, <2>4, AskInStep DEF InStepWith, m
    <3> QED
      BY <1>1, <2>2, <2>4, <3>1 DEF Linked, InStepWith
  <2>5. CASE s[j] = m /\ LaggingBehind(i, j)
    <3>1. app[i].at # "announced"
      BY <1>3
    <3>2. Lagging(in[<<j, i>>] \o m, loop[<<j, i>>], rpcs[j],
                  replica[j][i], in[<<i, j>>], app'[i].at, j, told[i])
      BY <1>4, <2>1, <2>5, <3>1, LaggingWrite DEF LaggingBehind
    <3> QED
      BY <1>1, <1>7, <2>2, <2>5, <3>2 DEF Linked, LaggingBehind
  <2> QED
    BY <2>2, <2>3, <2>4, <2>5 DEF Linked
<1> QED
  BY <1>1, <1>2, <1>8, <1>9 DEF AllLinked, Works

(***************************************************************************)
(* The other steps of a call write nothing.                                *)
(***************************************************************************)
LEMMA QuietCallKeepsProtocol ==
  ASSUME OneCaller, Types, Connected, OnlyCallersCall, AllLinked, NEW i \in Nodes,
         Delete(i) \/ GetLocal(i) \/ GetRange(i) \/ GetReturn(i)
  PROVE  OnlyCallersCall' /\ AllLinked'
<1>1. UNCHANGED <<net, in, loop, rpcs, replica, last, told, happened>>
  BY DEF Delete, GetLocal, GetRange, GetReturn
<1>2. \/ app' = app
      \/ /\ app[i].at \in {"asked", "reading"} /\ app'[i].at # "announced"
         /\ \A k \in Nodes : k # i => app'[k] = app[k]
  <2>1. app \in [Nodes -> Calls] /\ {} \in SUBSET Nodes /\ peers[i] \in SUBSET Nodes
    BY DEF Types, TypeOK, Calls
  <2>2. CASE Delete(i) \/ GetLocal(i)
    BY <2>2 DEF Delete, GetLocal
  <2>3. CASE GetRange(i)
    <3>1. app[i].at = "asked" /\ Go(i, "reading", peers[i])
      BY <2>3 DEF GetRange
    <3> QED
      BY <2>1, <3>1, GoEffect
  <2>4. CASE GetReturn(i)
    <3>1. app[i].at = "reading" /\ Go(i, "idle", {})
      BY <2>4 DEF GetReturn
    <3> QED
      BY <2>1, <3>1, GoEffect
  <2> QED
    BY <2>2, <2>3, <2>4
<1>3. OnlyAnswers' /\ FromCallers'
  BY <1>1 DEF OnlyCallersCall, OnlyAnswers, FromCallers
<1>4. CASE app' = app
  <2>1. IdlePeers'
    BY <1>4 DEF OnlyCallersCall, IdlePeers
  <2>2. AllLinked'
    BY <1>1, <1>4, LinkedFrame DEF AllLinked, Works
  <2> QED
    BY <1>3, <2>1, <2>2 DEF OnlyCallersCall
<1>5. CASE /\ app[i].at \in {"asked", "reading"} /\ app'[i].at # "announced"
           /\ \A k \in Nodes : k # i => app'[k] = app[k]
  <2>1. i \in Callers /\ \A k \in Callers : k = i
    BY <1>5 DEF OnlyCallersCall, IdlePeers, OneCaller
  <2>2. IdlePeers'
    BY <1>5, <2>1 DEF OnlyCallersCall, IdlePeers
  <2>3. ASSUME NEW j \in Nodes \ {i}, Works(i, j) PROVE Linked(i, j)'
    <3>1. Linked(i, j)
      BY <2>1, <2>3 DEF AllLinked
    <3> QED
      BY <1>1, <1>5, <3>1, LinkedPlace
  <2> QED
    BY <1>1, <1>3, <2>1, <2>2, <2>3 DEF OnlyCallersCall, AllLinked, Works
<1> QED
  BY <1>2, <1>4, <1>5

(***************************************************************************)
(* A handler takes a message of the caller's off the queue.                *)
(***************************************************************************)
LEMMA HandlerQueue ==
  ASSUME Types, Connected, OnlyCallersCall, NEW i \in Nodes, rpcs[i] # <<>>,
         rpcs' = [rpcs EXCEPT ![i] = Tail(@)], app' = app
  PROVE  /\ Sender(i) \in Callers /\ Sender(i) \in Nodes /\ i \notin Callers
         /\ IdlePeers' /\ FromCallers'
         /\ rpcs'[i] = Tail(rpcs[i]) /\ \A k \in Nodes : k # i => rpcs'[k] = rpcs[k]
         /\ rpcs[i] \in Seq(Message(i))
<1>1. rpcs[i] \in Seq(Message(i)) /\ rpcs \in [Nodes -> Seq([from: Nodes, msg: {MessageStoreFile, MessageGetFile}])]
  BY DEF Types, TypeOK
<1>2. /\ Tail(rpcs[i]) \in Seq(Message(i)) /\ Len(Tail(rpcs[i])) = Len(rpcs[i]) - 1
      /\ \A n \in 1..Len(Tail(rpcs[i])) : Tail(rpcs[i])[n] = rpcs[i][n + 1]
      /\ Head(rpcs[i]) = rpcs[i][1] /\ Len(rpcs[i]) > 0 /\ Len(rpcs[i]) \in Nat
  BY <1>1, HeadTailProperties, EmptySeq
<1>3. rpcs'[i] = Tail(rpcs[i]) /\ \A k \in Nodes : k # i => rpcs'[k] = rpcs[k]
  BY <1>1
<1>4. \A n \in 1..Len(rpcs[i]) : rpcs[i][n].from \in Callers /\ i \notin Callers
  BY DEF OnlyCallersCall, FromCallers
<1>5. Sender(i) \in Callers /\ i \notin Callers
  BY <1>2, <1>4 DEF Sender
<1>6. FromCallers'
  <2>1. \A n \in 1..Len(rpcs'[i]) : rpcs'[i][n].from \in Callers /\ i \notin Callers
    BY <1>2, <1>3, <1>4
  <2> QED
    BY <1>3, <2>1 DEF OnlyCallersCall, FromCallers
<1> QED
  BY <1>1, <1>3, <1>5, <1>6, CallersAssumption DEF OnlyCallersCall, IdlePeers

(***************************************************************************)
(* handleMessageStoreFile reads the stream that belongs to the message.    *)
(***************************************************************************)
LEMMA HandleStoreKeepsProtocol ==
  ASSUME OneCaller, Types, Connected, OnlyCallersCall, AllLinked, NEW i \in Nodes,
         HandleMessageStoreFile(i)
  PROVE  OnlyCallersCall' /\ AllLinked'
<1>0. PICK a : a = Sender(i)
  OBVIOUS
<1> DEFINE e == <<i, a>>
<1>1. /\ rpcs[i] # <<>> /\ Head(rpcs[i]).msg = MessageStoreFile
      /\ Readable(e, StoreSize)
      /\ replica' = [replica EXCEPT ![i][a] = Part(e, StoreSize)]
      /\ in' = [in EXCEPT ![e] = Rest(e, StoreSize)]
      /\ rpcs' = [rpcs EXCEPT ![i] = Tail(@)]
      /\ \/ loop[e] = "wait" /\ loop' = [loop EXCEPT ![e] = "read"]
         \/ Len(in[e]) < StoreSize /\ UNCHANGED loop
      /\ UNCHANGED <<net, local, app, ops, history>>
  BY <1>0 DEF HandleMessageStoreFile, Handling, CloseStream
<1>2. /\ a \in Callers /\ a \in Nodes /\ i \notin Callers
      /\ IdlePeers' /\ FromCallers'
      /\ rpcs'[i] = Tail(rpcs[i]) /\ \A k \in Nodes : k # i => rpcs'[k] = rpcs[k]
      /\ rpcs[i] \in Seq(Message(i))
  BY <1>0, <1>1, HandlerQueue
<1>3. a # i /\ \A k \in Callers : k = a
  BY <1>2 DEF OneCaller
<1>4. /\ e \in Ends /\ e[1] = i /\ e[2] = a
      /\ \A j \in Nodes \ {a} : <<j, a>> \in Ends /\ <<a, j>> \in Ends /\ <<a, j>> # e
      /\ \A j \in Nodes \ {a} : j # i => <<j, a>> # e
  BY <1>2, <1>3 DEF Ends
<1>5. /\ in \in [Ends -> Seq(Units)] /\ loop \in [Ends -> {"off", "read", "payload", "took", "wait", "spin"}]
      /\ replica \in [Nodes -> [Nodes -> Seq(Units)]]
  BY DEF Types, TypeOK
<1>6. OnlyAnswers'
  <2> HIDE DEF e
  <2> QED
    BY <1>1, <1>2, <1>4, <1>5 DEF OnlyCallersCall, OnlyAnswers
<1>7. ASSUME NEW j \in Nodes \ {a}, j # i, Works(a, j) PROVE Linked(a, j)'
  <2>1. Linked(a, j)
    BY <1>2, <1>7 DEF AllLinked
  <2>2. in'[<<j, a>>] = in[<<j, a>>] /\ in'[<<a, j>>] = in[<<a, j>>] /\ loop'[<<j, a>>] = loop[<<j, a>>]
    <3> HIDE DEF e
    <3> QED
      BY <1>1, <1>4, <1>5, <1>7
  <2>3. replica'[j][a] = replica[j][a] /\ rpcs'[j] = rpcs[j]
    <3> HIDE DEF e
    <3> QED
      BY <1>1, <1>2, <1>5, <1>7
  <2> QED
    BY <1>1, <2>1, <2>2, <2>3, LinkedFrame
<1>8. ASSUME Works(a, i) PROVE Linked(a, i)'
  <2>1. Linked(a, i)
    BY <1>2, <1>3, <1>8 DEF AllLinked
  <2>2. InStepWith(a, i)
    BY <1>1, <2>1 DEF Linked, LaggingBehind, Lagging
  <2>3. Works(i, a) /\ loop[e] \in {"read", "payload", "took", "wait"}
    <3>1. {a, i} = {i, a}
      OBVIOUS
    <3>2. Works(e[1], e[2])
      BY <1>4, <1>8, <3>1 DEF Works
    <3> QED
      BY <1>4, <3>2 DEF Connected, Running
  <2>4. loop[e] = "wait" /\ loop'[e] = "read" /\ Len(in[e]) >= 2
    <3> HIDE DEF e
    <3>1. Len(in[e]) \in Nat /\ Len(in[e]) >= 2
      BY <1>1, <1>4, <1>5, <2>3 DEF Readable, StoreSize
    <3> QED
      BY <1>1, <1>4, <1>5, <3>1 DEF StoreSize
  <2>5. /\ in'[e] = Rest(e, 2) /\ replica'[i][a] = Part(e, 2)
        /\ in[e] \in Seq(Units)
    <3> HIDE DEF e
    <3> QED
      BY <1>1, <1>2, <1>4, <1>5 DEF StoreSize
  <2>6. Splits(in[e], Part(e, 2), Rest(e, 2))
    <3>1. 2 \in Nat
      OBVIOUS
    <3> HIDE DEF e
    <3>2. /\ Rest(e, 2) \in Seq(Units)
          /\ Part(e, 2) \in Seq(Units)
          /\ Len(Part(e, 2)) = IF Len(in[e]) <= 2 THEN Len(in[e]) ELSE 2
          /\ \A k \in 1..Len(Part(e, 2)) : Part(e, 2)[k] = in[e][k]
          /\ Len(Rest(e, 2)) = IF Len(in[e]) <= 2 THEN 0 ELSE Len(in[e]) - 2
          /\ \A k \in 1..Len(Rest(e, 2)) : Rest(e, 2)[k] = in[e][k + 2]
      BY <2>5, <3>1, RestAndPart
    <3>3. Len(in[e]) \in Nat
      BY <2>5
    <3>4. \A n \in Nat : n >= 2 => /\ (IF n <= 2 THEN n ELSE 2) = 2
                                  /\ (IF n <= 2 THEN 0 ELSE n - 2) = n - 2
      OBVIOUS
    <3>5. Len(Part(e, 2)) = 2 /\ Len(Rest(e, 2)) = Len(in[e]) - 2
      BY <2>4, <3>2, <3>3, <3>4, Zenon
    <3> QED
      BY <3>2, <3>5, Zenon DEF Splits
  <2>7. InStep(Rest(e, 2), "read", Tail(rpcs[i]), Part(e, 2), app[a].at, last[a], i, told[a])
    <3>1. First(rpcs[i], MessageStoreFile)
      BY <1>1 DEF First
    <3>2. InStep(in[e], loop[e], rpcs[i], replica[i][a], app[a].at, last[a], i, told[a])
      BY <2>2 DEF InStepWith
    <3>3. loop[e] \in {"took", "wait"}
      BY <2>4
    <3> HIDE DEF e
    <3> QED
      BY <1>2, <2>5, <2>6, <3>1, <3>2, <3>3, StoredInStep, Zenon
  <2> QED
    BY <1>1, <1>2, <2>4, <2>5, <2>7 DEF Linked, InStepWith
<1> HIDE DEF e
<1> QED
  BY <1>1, <1>2, <1>3, <1>6, <1>7, <1>8 DEF OnlyCallersCall, AllLinked, Works

(***************************************************************************)
(* What handleMessageGetFile writes: the marker, the size and the replica. *)
(***************************************************************************)
LEMMA AnswerUnits ==
  ASSUME NEW v \in 1..MaxOps
  PROVE  LET f == CopyEncrypt(v)
             all == <<IncomingStream, Unit("size", 2), Unit("iv", v), Unit("cipher", v)>>
         IN  /\ <<IncomingStream, Unit("size", Len(f))>> \o f = all
             /\ all \in Seq(Units)
             /\ \A n \in 1..Len(all) : all[n].kind \in Answers
<1> DEFINE f == CopyEncrypt(v)
           two == <<IncomingStream, Unit("size", 2)>>
           all == <<IncomingStream, Unit("size", 2), Unit("iv", v), Unit("cipher", v)>>
<1>1. 2 \in 0..StoreSize
  BY DEF StoreSize
<1>2. two \in Seq(Units) /\ all \in Seq(Units) /\ Len(two) = 2 /\ Len(all) = 4
  BY <1>1, UnitTypes
<1>3. /\ two[1] = IncomingStream /\ two[2] = Unit("size", 2)
      /\ all[1] = IncomingStream /\ all[2] = Unit("size", 2)
      /\ all[3] = Unit("iv", v) /\ all[4] = Unit("cipher", v)
  OBVIOUS
<1>4. f \in Seq(Units) /\ Len(f) = 2 /\ f[1] = Unit("iv", v) /\ f[2] = Unit("cipher", v)
  BY CopyEncryptType
<1> HIDE DEF two, all, f
<1>5. /\ two \o f \in Seq(Units) /\ Len(two \o f) = Len(two) + Len(f)
      /\ \A i \in 1..Len(two) + Len(f) : (two \o f)[i] =
           IF i <= Len(two) THEN two[i] ELSE f[i - Len(two)]
  BY <1>2, <1>4, ConcatProperties
<1>6. Len(two \o f) = Len(all)
  BY <1>2, <1>4, <1>5
<1>7. \A i \in 1..Len(two \o f) : (two \o f)[i] = all[i]
  BY <1>2, <1>3, <1>4, <1>5
<1>8. two \o f = all
  BY <1>2, <1>5, <1>6, <1>7, SeqEqual
<1>9. \A n \in 1..Len(all) : all[n].kind \in Answers
  <2>1. \A n \in 1..4 : n = 1 \/ n = 2 \/ n = 3 \/ n = 4
    OBVIOUS
  <2> QED
    BY <1>2, <1>3, <2>1, KindOfUnit DEF Answers
<1> QED
  BY <1>2, <1>4, <1>8, <1>9 DEF two, all, f

(***************************************************************************)
(* handleMessageGetFile answers the caller.                                *)
(***************************************************************************)
LEMMA HandleGetKeepsProtocol ==
  ASSUME OneCaller, Types, Connected, OnlyCallersCall, AllLinked, NEW i \in Nodes,
         HandleMessageGetFile(i)
  PROVE  OnlyCallersCall' /\ AllLinked'
<1>0. PICK a : a = Sender(i)
  OBVIOUS
<1> DEFINE f == replica[i][a]
           answer == <<IncomingStream, Unit("size", Len(f))>> \o f
           s == [j \in Nodes |-> IF j = a /\ f # NoFile THEN answer ELSE <<>>]
<1>1. /\ rpcs[i] # <<>> /\ Head(rpcs[i]).msg = MessageGetFile
      /\ Send(i, s)
      /\ rpcs' = [rpcs EXCEPT ![i] = Tail(@)]
      /\ UNCHANGED <<net, loop, files, app, ops, history>>
  BY <1>0 DEF HandleMessageGetFile, Handling
<1>2. /\ a \in Callers /\ a \in Nodes /\ i \notin Callers
      /\ IdlePeers' /\ FromCallers'
      /\ rpcs'[i] = Tail(rpcs[i]) /\ \A k \in Nodes : k # i => rpcs'[k] = rpcs[k]
      /\ rpcs[i] \in Seq(Message(i))
  BY <1>0, <1>1, HandlerQueue
<1>3. a # i /\ \A k \in Callers : k = a
  BY <1>2 DEF OneCaller
<1>4. \A j \in Nodes : s[j] = IF j = a /\ f # NoFile THEN answer ELSE <<>>
  OBVIOUS
<1> HIDE DEF s
<1>5. \A e \in Ends :
        in'[e] = IF e[2] = i /\ e[1] \in peers[i] /\ Works(e[1], i)
                   THEN in[e] \o s[e[1]] ELSE in[e]
  BY <1>1 DEF Send
<1>6. Works(a, i) => InStepWith(a, i)
  BY <1>1, <1>2, <1>3 DEF AllLinked, Linked, LaggingBehind, Lagging
<1>7. Works(a, i) /\ f # NoFile => answer \in Seq(Units) /\ \A n \in 1..Len(answer) : answer[n].kind \in Answers
  <2> SUFFICES ASSUME Works(a, i), f # NoFile
               PROVE  answer \in Seq(Units) /\ \A n \in 1..Len(answer) : answer[n].kind \in Answers
    OBVIOUS
  <2>1. PICK v \in 1..MaxOps : f = CopyEncrypt(v)
    BY <1>6 DEF InStepWith, InStep, Holds
  <2> QED
    BY <2>1, AnswerUnits
<1> HIDE DEF answer, f
<1>8. OnlyAnswers'
  <2> SUFFICES ASSUME NEW e \in Ends, e[2] \notin Callers, NEW n \in 1..Len(in'[e])
               PROVE  e[1] \in Callers /\ in'[e][n].kind \in Answers
    BY DEF OnlyAnswers
  <2>1. \A m \in 1..Len(in[e]) : e[1] \in Callers /\ in[e][m].kind \in Answers
    BY DEF OnlyCallersCall, OnlyAnswers
  <2>2. in[e] \in Seq(Units) /\ e[1] \in Nodes
    BY DEF Types, TypeOK, Ends
  <2>3. CASE in'[e] = in[e]
    BY <2>1, <2>3
  <2>4. CASE e[1] = a /\ Works(a, i) /\ f # NoFile /\ in'[e] = in[e] \o answer
    <3>1. /\ Len(in[e] \o answer) = Len(in[e]) + Len(answer)
          /\ \A k \in 1..Len(in[e]) + Len(answer) : (in[e] \o answer)[k] =
               IF k <= Len(in[e]) THEN in[e][k] ELSE answer[k - Len(in[e])]
      BY <1>7, <2>2, <2>4, ConcatProperties
    <3>2. Len(in[e]) \in Nat /\ Len(answer) \in Nat
      BY <1>7, <2>2, <2>4
    <3>3. n \in 1..Len(in[e]) \/ n - Len(in[e]) \in 1..Len(answer)
      BY <2>4, <3>1, <3>2
    <3> QED
      BY <1>2, <1>7, <2>1, <2>4, <3>1, <3>2, <3>3
  <2>5. in'[e] = in[e] \/ (e[1] = a /\ Works(a, i) /\ f # NoFile /\ in'[e] = in[e] \o answer)
    <3>1. in'[e] = in[e] \/ (Works(e[1], i) /\ in'[e] = in[e] \o s[e[1]])
      BY <1>5
    <3>2. in[e] \o <<>> = in[e]
      BY <2>2, ConcatEmptySeq
    <3> QED
      BY <1>4, <2>2, <3>1, <3>2
  <2> QED
    BY <2>3, <2>4, <2>5
<1>9. ASSUME NEW j \in Nodes \ {a}, Works(a, j) PROVE Linked(a, j)'
  <2>1. Linked(a, j)
    BY <1>2, <1>9 DEF AllLinked
  <2>2. /\ <<j, a>> \in Ends /\ <<j, a>>[2] = a /\ <<a, j>> \in Ends /\ <<a, j>>[2] = j
    BY <1>2 DEF Ends
  <2>3. in'[<<j, a>>] = in[<<j, a>>] /\ (j # i => in'[<<a, j>>] = in[<<a, j>>])
    BY <1>3, <1>5, <2>2
  <2>4. CASE j # i
    <3>1. rpcs'[j] = rpcs[j]
      BY <1>2, <2>4
    <3> QED
      BY <1>1, <2>1, <2>3, <2>4, <3>1, LinkedFrame
  <2>5. CASE j = i
    <3>1. InStep(in[<<i, a>>], loop[<<i, a>>], Tail(rpcs[i]), replica[i][a], app[a].at, last[a],
                 i, told[a])
      <4>1. InStep(in[<<i, a>>], loop[<<i, a>>], rpcs[i], replica[i][a], app[a].at, last[a],
                   i, told[a])
        BY <1>6, <1>9, <2>5 DEF InStepWith
      <4> QED
        BY <1>1, <1>2, <4>1, AskedInStep
    <3> QED
      BY <1>1, <1>2, <2>3, <2>5, <3>1 DEF Linked, InStepWith
  <2> QED
    BY <2>4, <2>5
<1> QED
  BY <1>1, <1>2, <1>3, <1>8, <1>9 DEF OnlyCallersCall, AllLinked, Works

(***************************************************************************)
(* A step of the read loop at one end: the other connections do not        *)
(* change, and neither does what the caller has sent on this one when the  *)
(* end is the caller's.                                                    *)
(***************************************************************************)
LEMMA ReadLoopElsewhere ==
  ASSUME OneCaller, Types, AllLinked, NEW e \in Ends, NEW q, NEW next,
         in' = [in EXCEPT ![e] = q], loop' = [loop EXCEPT ![e] = next],
         in[e] = <<>> => q = <<>>,
         \A k \in Nodes : k # e[1] => rpcs'[k] = rpcs[k],
         e[2] \notin Callers => rpcs' = rpcs,
         happened \subseteq happened', UNCHANGED <<net, replica, app, last, told>>,
         e[2] \in Callers /\ Works(e[2], e[1]) => Linked(e[2], e[1])'
  PROVE  AllLinked'
<1> SUFFICES ASSUME NEW a \in Callers, NEW j \in Nodes \ {a}, Works(a, j)
             PROVE  Linked(a, j)'
  BY DEF AllLinked, Works
<1>1. /\ Linked(a, j) /\ a \in Nodes
      /\ in \in [Ends -> Seq(Units)]
      /\ loop \in [Ends -> {"off", "read", "payload", "took", "wait", "spin"}]
  BY CallersAssumption DEF AllLinked, Types, TypeOK
<1>2. /\ <<j, a>> \in Ends /\ <<a, j>> \in Ends /\ e = <<e[1], e[2]>>
      /\ e[1] \in Nodes /\ e[2] \in Nodes
  BY <1>1 DEF Ends
<1>3. CASE e = <<j, a>>
  BY <1>2, <1>3
<1>4. CASE e # <<j, a>>
  <2>1. in'[<<j, a>>] = in[<<j, a>>] /\ loop'[<<j, a>>] = loop[<<j, a>>]
    BY <1>1, <1>2, <1>4
  <2>2. in[<<a, j>>] = <<>> => in'[<<a, j>>] = <<>>
    BY <1>1, <1>2
  <2>3. rpcs'[j] = rpcs[j]
    BY <1>2, <1>4 DEF OneCaller
  <2> QED
    BY <1>1, <2>1, <2>2, <2>3, LinkedFrame
<1> QED
  BY <1>3, <1>4

(***************************************************************************)
(* Reading units leaves only answers under way to the caller.              *)
(***************************************************************************)
LEMMA TailKeepsAnswers ==
  ASSUME Types, OnlyAnswers, NEW e \in Ends, in[e] # <<>>, in' = [in EXCEPT ![e] = Tail(@)]
  PROVE  OnlyAnswers'
<1>1. in \in [Ends -> Seq(Units)]
  BY DEF Types, TypeOK
<1>2. /\ Len(Tail(in[e])) = Len(in[e]) - 1 /\ Len(in[e]) \in Nat
      /\ \A n \in 1..Len(Tail(in[e])) : Tail(in[e])[n] = in[e][n + 1]
  BY <1>1, HeadTailProperties
<1>3. in'[e] = Tail(in[e]) /\ \A k \in Ends : k # e => in'[k] = in[k]
  BY <1>1
<1>4. \A n \in 1..Len(in'[e]) : n + 1 \in 1..Len(in[e]) /\ in'[e][n] = in[e][n + 1]
  <2>1. \A m \in Nat : \A n \in 1..(m - 1) : n + 1 \in 1..m
    OBVIOUS
  <2> QED
    BY <1>2, <1>3, <2>1, Zenon
<1> QED
  BY <1>3, <1>4 DEF OnlyAnswers

LEMMA MarkerKeepsProtocol ==
  ASSUME OneCaller, Types, Connected, OnlyCallersCall, AllLinked, NEW e \in Ends, DecodeMarker(e)
  PROVE  OnlyCallersCall' /\ AllLinked'
<1>1. PICK next \in {"took", "payload"} :
        /\ loop[e] = "read" /\ in[e] # <<>>
        /\ in' = [in EXCEPT ![e] = Tail(@)]
        /\ Head(in[e]) = IncomingStream => next = "took"
        /\ Head(in[e]) = IncomingMessage => next = "payload"
        /\ loop' = [loop EXCEPT ![e] = next]
        /\ UNCHANGED <<net, rpcs, files, app, ops, history>>
  BY DEF DecodeMarker
<1>2. OnlyCallersCall'
  <2>1. OnlyAnswers'
    BY <1>1, TailKeepsAnswers DEF OnlyCallersCall
  <2> QED
    BY <1>1, <2>1 DEF OnlyCallersCall, IdlePeers, FromCallers
<1>3. e \in Ends /\ e = <<e[1], e[2]>> /\ e[1] \in Nodes /\ e[2] \in Nodes /\ e[1] # e[2]
      /\ in[e] \in Seq(Units) /\ in'[e] = Tail(in[e]) /\ loop'[e] = next
  BY <1>1 DEF Ends, Types, TypeOK
<1>4. ASSUME e[2] \in Callers, Works(e[2], e[1]) PROVE Linked(e[2], e[1])'
  <2>0. PICK a, j : a = e[2] /\ j = e[1] /\ e = <<j, a>>
    BY <1>3
  <2>1. Linked(a, j)
    BY <1>3, <1>4, <2>0 DEF AllLinked
  <2>2. CASE InStepWith(a, j)
    <3>1. InStep(in[e], "read", rpcs[j], replica[j][a], app[a].at, last[a], j, told[a])
      BY <1>1, <2>0, <2>2 DEF InStepWith
    <3>2. InStep(Tail(in[e]), next, rpcs[j], replica[j][a], app[a].at, last[a], j, told[a])
      <4>1. /\ in[e] # <<>> /\ in[e] \in Seq(Units) /\ next \in {"took", "payload"}
            /\ Head(in[e]) = IncomingStream => next = "took"
            /\ Head(in[e]) = IncomingMessage => next = "payload"
        BY <1>1, <1>3
      <4> QED
        BY <3>1, <4>1, MarkerInStep
    <3> QED
      BY <1>1, <1>3, <2>0, <3>2 DEF Linked, InStepWith
  <2>3. CASE LaggingBehind(a, j)
    <3>1. Lagging(in[e], "read", rpcs[j], replica[j][a], in[<<a, j>>], app[a].at, j, told[a])
      BY <1>1, <2>0, <2>3 DEF LaggingBehind
    <3>2. Lagging(Tail(in[e]), next, rpcs[j], replica[j][a], in[<<a, j>>], app[a].at, j, told[a])
      <4>1. /\ in[e] # <<>> /\ in[e] \in Seq(Units)
            /\ Head(in[e]) = IncomingStream => next = "took"
        BY <1>1, <1>3
      <4> QED
        BY <3>1, <4>1, LaggingMarker, Zenon
    <3>3. in'[<<a, j>>] = in[<<a, j>>]
      <4>0. a \in Nodes /\ j \in Nodes /\ a # j /\ e = <<j, a>>
        BY <1>3, <2>0
      <4>1. in \in [Ends -> Seq(Units)] /\ <<a, j>> \in Ends /\ <<a, j>> # e
        BY <4>0 DEF Ends, Types, TypeOK
      <4> QED
        BY <1>1, <4>1
    <3> QED
      BY <1>1, <1>3, <2>0, <2>3, <3>2, <3>3 DEF Linked, LaggingBehind
  <2> QED
    BY <2>0, <2>1, <2>2, <2>3 DEF Linked
<1> QED
  BY <1>1, <1>2, <1>4, ReadLoopElsewhere

(***************************************************************************)
(* A stream's wg.Add(1), and the error that ends the read loop of a broken *)
(* connection.                                                             *)
(***************************************************************************)
LEMMA AddStreamKeepsProtocol ==
  ASSUME OneCaller, Types, Connected, OnlyCallersCall, AllLinked, NEW e \in Ends,
         AddStream(e) \/ DecodeFails(e)
  PROVE  OnlyCallersCall' /\ AllLinked'
<1>1. in' = in /\ UNCHANGED <<net, rpcs, files, app, ops, history>>
  BY DEF AddStream, DecodeFails
<1>2. PICK next : loop' = [loop EXCEPT ![e] = next]
  BY DEF AddStream, DecodeFails
<1>3. e \in Ends /\ e = <<e[1], e[2]>> /\ e[1] \in Nodes /\ e[2] \in Nodes /\ e[1] # e[2]
  BY DEF Ends
<1>4. OnlyCallersCall'
  BY <1>1 DEF OnlyCallersCall, IdlePeers, FromCallers, OnlyAnswers
<1>5. ASSUME e[2] \in Callers, Works(e[2], e[1]) PROVE Linked(e[2], e[1])'
  <2>0. PICK a, j : a = e[2] /\ j = e[1] /\ e = <<j, a>>
    BY <1>3
  <2>1. Linked(a, j)
    BY <1>3, <1>5, <2>0 DEF AllLinked
  <2>2. loop[e] = "took" /\ loop'[e] = "wait"
    <3>1. {e[1], e[2]} = {e[2], e[1]}
      OBVIOUS
    <3>2. ~DecodeFails(e)
      BY <1>5, <3>1 DEF DecodeFails, Ended, Works
    <3> QED
      BY <3>2 DEF AddStream, Types, TypeOK
  <2>3. CASE InStepWith(a, j)
    <3>1. InStep(in[e], "took", rpcs[j], replica[j][a], app[a].at, last[a], j, told[a])
      BY <2>0, <2>2, <2>3 DEF InStepWith
    <3>2. InStep(in[e], "wait", rpcs[j], replica[j][a], app[a].at, last[a], j, told[a])
      BY <3>1, AddInStep
    <3> QED
      BY <1>1, <2>0, <2>2, <3>2 DEF Linked, InStepWith
  <2>4. CASE LaggingBehind(a, j)
    BY <1>1, <2>0, <2>2, <2>4 DEF Linked, LaggingBehind, Lagging
  <2> QED
    BY <2>0, <2>1, <2>3, <2>4 DEF Linked
<1>6. in' = [in EXCEPT ![e] = in[e]]
  BY <1>1 DEF Types, TypeOK
<1> QED
  BY <1>1, <1>2, <1>4, <1>5, <1>6, ReadLoopElsewhere

(***************************************************************************)
(* The read loop reads one message and no more, and queues it.             *)
(***************************************************************************)
LEMMA PayloadKeepsProtocol ==
  ASSUME OneCaller, Types, Connected, OnlyCallersCall, AllLinked, NEW e \in Ends,
         DecodePayload(e), happened' \cap Lost = {}
  PROVE  OnlyCallersCall' /\ AllLinked'
<1> DEFINE m == [from |-> e[2], msg |-> Head(in[e])]
           known == Head(in[e]) \in {MessageStoreFile, MessageGetFile}
<1>1. /\ loop[e] = "payload" /\ in[e] # <<>> /\ loop' = [loop EXCEPT ![e] = "read"]
      /\ rpcs' = IF known THEN [rpcs EXCEPT ![e[1]] = Append(@, m)] ELSE rpcs
      /\ UNCHANGED <<net, files, app, ops, last, told, got>>
  BY DEF DecodePayload
<1>2. /\ e = <<e[1], e[2]>> /\ e[1] \in Nodes /\ e[2] \in Nodes /\ e[1] # e[2]
      /\ in[e] \in Seq(Units) /\ in \in [Ends -> Seq(Units)]
      /\ rpcs \in [Nodes -> Seq([from: Nodes, msg: {MessageStoreFile, MessageGetFile}])]
      /\ rpcs[e[1]] \in Seq(Message(e[1]))
      /\ loop \in [Ends -> {"off", "read", "payload", "took", "wait", "spin"}]
  <2>1. e = <<e[1], e[2]>> /\ e[1] \in Nodes /\ e[2] \in Nodes /\ e[1] # e[2]
    BY DEF Ends
  <2> QED
    BY <2>1 DEF Types, TypeOK
<1>3. in' = [in EXCEPT ![e] = Tail(@)] /\ happened' = happened
  <2>1. PICK k \in 0..(Len(in[e]) - 1) :
          /\ IF k = 0 THEN UNCHANGED happened ELSE Fault("overrun")
          /\ in' = [in EXCEPT ![e] = SubSeq(@, k + 2, Len(@))]
    BY DEF DecodePayload
  <2>2. k = 0 /\ happened' = happened
    BY <2>1 DEF Fault, Lost
  <2>3. k + 2 = 2
    BY <2>2
  <2>4. SubSeq(in[e], 2, Len(in[e])) = Tail(in[e])
    BY <1>1, <1>2, TailIsSubSeq
  <2> QED
    BY <1>2, <2>1, <2>2, <2>3, <2>4
<1>4. /\ Len(in[e]) > 0 /\ Head(in[e]) = in[e][1] /\ 1 \in 1..Len(in[e])
  BY <1>1, <1>2, HeadTailProperties, EmptySeq
<1>5. e[2] \notin Callers => rpcs' = rpcs
  <2> SUFFICES ASSUME e[2] \notin Callers PROVE ~known
    BY <1>1
  <2>1. in[e][1].kind \in Answers
    BY <1>4 DEF OnlyCallersCall, OnlyAnswers
  <2> QED
    BY <1>4, <2>1, KindOfUnit DEF Answers
<1>6. \A k \in Nodes : k # e[1] => rpcs'[k] = rpcs[k]
  <2> HIDE DEF known, m
  <2> QED
    BY <1>1, <1>2
<1>7. known => m \in Message(e[1]) /\ m.msg = Head(in[e]) /\ m.from = e[2] /\ rpcs'[e[1]] = Append(rpcs[e[1]], m)
  BY <1>1, <1>2 DEF Message
<1> HIDE DEF m, known
<1>8. OnlyCallersCall'
  <2>1. OnlyAnswers'
    BY <1>1, <1>3, TailKeepsAnswers DEF OnlyCallersCall
  <2>2. \A n \in 1..Len(rpcs'[e[1]]) : rpcs'[e[1]][n].from \in Callers /\ e[1] \notin Callers
    <3>1. \A n \in 1..Len(rpcs[e[1]]) : rpcs[e[1]][n].from \in Callers /\ e[1] \notin Callers
      BY <1>2 DEF OnlyCallersCall, FromCallers
    <3>2. CASE ~known \/ e[2] \notin Callers
      BY <1>1, <1>5, <3>1, <3>2
    <3>3. CASE known /\ e[2] \in Callers
      <4>1. e[1] \notin Callers
        BY <1>2, <3>3 DEF OneCaller
      <4> DEFINE r == rpcs[e[1]]
      <4>2. /\ Len(Append(r, m)) = Len(r) + 1 /\ Len(r) \in Nat
            /\ \A n \in 1..Len(r) : Append(r, m)[n] = r[n]
            /\ Append(r, m)[Len(r) + 1] = m
        BY <1>2, <1>7, <3>3, AppendProperties
      <4>3. \A n \in 1..Len(Append(r, m)) : n \in 1..Len(r) \/ n = Len(r) + 1
        BY <4>2
      <4> QED
        BY <1>7, <3>1, <3>3, <4>1, <4>2, <4>3
    <3> QED
      BY <3>2, <3>3
  <2>3. FromCallers'
    BY <1>6, <2>2 DEF OnlyCallersCall, FromCallers
  <2> QED
    BY <1>1, <2>1, <2>3 DEF OnlyCallersCall, IdlePeers
<1>9. ASSUME e[2] \in Callers, Works(e[2], e[1]) PROVE Linked(e[2], e[1])'
  <2>0. PICK a, j : a = e[2] /\ j = e[1] /\ e = <<j, a>>
    BY <1>2
  <2>1. Linked(a, j)
    BY <1>2, <1>9, <2>0 DEF AllLinked
  <2>2. InStep(in[e], "payload", rpcs[j], replica[j][a], app[a].at, last[a], j, told[a])
    BY <1>1, <2>0, <2>1 DEF Linked, InStepWith, LaggingBehind, Lagging
  <2>3. in[e][1].kind \in {"STORE", "GET"}
    BY <2>2 DEF InStep, Position
  <2>4. known
    BY <1>2, <1>4, <2>3, ElementOfSeq, KindOfUnit DEF known
  <2>5. InStep(Tail(in[e]), "read", Append(rpcs[j], m), replica[j][a], app[a].at, last[a], j, told[a])
    <3>1. rpcs[j] \in Seq(Message(j)) /\ m \in Message(j) /\ m.msg = Head(in[e]) /\ in[e] \in Seq(Units)
      BY <1>2, <1>7, <2>0, <2>4
    <3> QED
      BY <2>2, <3>1, PayloadInStep
  <2>6. in'[e] = Tail(in[e]) /\ loop'[e] = "read" /\ rpcs'[j] = Append(rpcs[j], m)
    BY <1>1, <1>2, <1>3, <1>7, <2>0, <2>4
  <2> QED
    BY <1>1, <1>3, <2>0, <2>5, <2>6 DEF Linked, InStepWith
<1>10. in' = [in EXCEPT ![e] = Tail(in[e])]
  BY <1>3
<1> QED
  BY <1>1, <1>3, <1>5, <1>6, <1>8, <1>9, <1>10, ReadLoopElsewhere

(***************************************************************************)
(* The caller's Get reads answers, and leaves the rest.                    *)
(***************************************************************************)
LEMMA GetStepKeepsProtocol ==
  ASSUME OneCaller, Types, Connected, OnlyCallersCall, AllLinked,
         NEW i \in Nodes, NEW j \in Nodes, i # j, GetStep(i, j)
  PROVE  OnlyCallersCall' /\ AllLinked'
<1> DEFINE e == <<i, j>>
<1>1. /\ e \in Ends /\ e[1] = i /\ e[2] = j /\ in[e] \in Seq(Units) /\ in \in [Ends -> Seq(Units)]
      /\ loop \in [Ends -> {"off", "read", "payload", "took", "wait", "spin"}]
  BY DEF Ends, Types, TypeOK
<1>2. /\ app[i].at = "reading" /\ UNCHANGED <<net, rpcs, replica, ops, history>>
      /\ loop' = loop \/ loop' = [loop EXCEPT ![e] = "read"]
  BY DEF GetStep, GetFrom, GetFails, CloseStream
<1>3. PICK n \in Nat : in' = [in EXCEPT ![e] = Rest(e, n)]
  <2>1. in[e] # <<>> => Head(in[e]) \in Units
    BY <1>1, HeadTailProperties
  <2>2. FileSizes(e) \subseteq Nat
    BY <1>1, <2>1 DEF FileSizes, Units, StoreSize
  <2> QED
    BY <2>2 DEF GetStep, GetFrom, GetFails
<1>4. i \in Callers /\ \A k \in Callers : k = i
  BY <1>2 DEF OnlyCallersCall, IdlePeers, OneCaller
<1>5. app'[i].at # "announced" /\ \A k \in Nodes : k # i => app'[k] = app[k]
  <2>1. app \in [Nodes -> Calls]
    BY DEF Types, TypeOK, Calls
  <2>2. \E place \in {"idle", "reading"}, todo \in SUBSET Nodes : Go(i, place, todo)
    <3>1. app[i].todo \ {j} \in SUBSET Nodes /\ {} \in SUBSET Nodes
      BY <2>1 DEF Calls
    <3> QED
      BY <3>1 DEF GetStep, GetFrom, GetFails
  <2> QED
    BY <2>1, <2>2, GoEffect
<1>6. /\ in'[e] = Rest(e, n) /\ \A k \in Ends : k # e => in'[k] = in[k] /\ loop'[k] = loop[k]
  <2> HIDE DEF e
  <2> QED
    BY <1>1, <1>2, <1>3
<1>7. /\ Rest(e, n) \in Seq(Units)
      /\ Len(Rest(e, n)) = IF Len(in[e]) <= n THEN 0 ELSE Len(in[e]) - n
      /\ \A k \in 1..Len(Rest(e, n)) : Rest(e, n)[k] = in[e][k + n]
  <2> HIDE DEF e
  <2> QED
    BY <1>1, RestAndPart
<1> HIDE DEF e
<1>8. \A k \in 1..Len(in'[e]) : k + n \in 1..Len(in[e]) /\ in'[e][k] = in[e][k + n]
  <2>1. \A m \in Nat : \A k \in 1..(IF m <= n THEN 0 ELSE m - n) : k + n \in 1..m
    OBVIOUS
  <2>2. Len(in[e]) \in Nat
    BY <1>1
  <2> QED
    BY <1>6, <1>7, <2>1, <2>2, Zenon
<1>9. OnlyAnswers'
  BY <1>6, <1>8 DEF OnlyCallersCall, OnlyAnswers
<1>10. in[e] = <<>> => in'[e] = <<>>
  <2> SUFFICES ASSUME in[e] = <<>> PROVE Len(Rest(e, n)) = 0
    BY <1>6, <1>7, EmptySeq
  <2>1. Len(in[e]) = 0 /\ 0 <= n
    BY EmptySeq
  <2> QED
    BY <1>7, <2>1
<1>11. OnlyCallersCall'
  BY <1>2, <1>4, <1>5, <1>9, CallerSteps DEF OnlyCallersCall
<1>12. ASSUME NEW k \in Nodes \ {i}, Works(i, k) PROVE Linked(i, k)'
  <2>1. Linked(i, k)
    BY <1>4, <1>12 DEF AllLinked
  <2>2. <<k, i>> \in Ends /\ <<i, k>> \in Ends /\ <<k, i>> # e
    BY DEF Ends, e
  <2>3. in'[<<k, i>>] = in[<<k, i>>] /\ loop'[<<k, i>>] = loop[<<k, i>>]
    BY <1>6, <2>2
  <2>4. in[<<i, k>>] = <<>> => in'[<<i, k>>] = <<>>
    BY <1>6, <1>10, <2>2
  <2>5. app[i].at # "announced"
    BY <1>2
  <2> QED
    BY <1>2, <1>5, <2>1, <2>3, <2>4, <2>5, LinkedPlace
<1> QED
  BY <1>2, <1>4, <1>11, <1>12 DEF AllLinked, Works

(***************************************************************************)
(* A connection that is made finds nothing under way; in the middle of a   *)
(* Store it will get the stream of a message it never got.                 *)
(***************************************************************************)
LEMMA DialKeepsProtocol ==
  ASSUME OneCaller, Types, Connected, Strangers, OnlyCallersCall, AllLinked,
         NEW i \in Nodes, NEW j \in Nodes, i # j, Dial(i, j)
  PROVE  OnlyCallersCall' /\ AllLinked'
<1>1. /\ j \notin peers[i] /\ up' = up \cup {{i, j}}
      /\ loop' = [loop EXCEPT ![<<i, j>>] = "read", ![<<j, i>>] = "read"]
      /\ UNCHANGED <<life, in, rpcs, files, app, ops, last, told, got>>
      /\ happened \subseteq happened' /\ ((app[i] = Idle /\ app[j] = Idle) \/ "join" \in happened')
  BY DEF Dial, ToDial, Fault
<1>2. <<i, j>> \in Ends /\ <<j, i>> \in Ends /\ i \notin peers[j]
  BY <1>1 DEF Ends, Connected, Mutual
<1>3. /\ loop'[<<i, j>>] = "read" /\ loop'[<<j, i>>] = "read"
      /\ \A e \in Ends : e # <<i, j>> /\ e # <<j, i>> => loop'[e] = loop[e]
  BY <1>1, <1>2 DEF Types, TypeOK
<1>4. OnlyCallersCall'
  BY <1>1 DEF OnlyCallersCall, IdlePeers, FromCallers, OnlyAnswers
<1>5. ASSUME NEW a \in Callers, NEW k \in Nodes \ {a}, {a, k} \in up' PROVE Linked(a, k)'
  <2>1. a \in Nodes /\ <<k, a>> \in Ends /\ <<k, a>>[1] = k /\ <<k, a>>[2] = a
    BY CallersAssumption DEF Ends
  <2>2. CASE {a, k} = {i, j}
    <3>1. a \notin peers[k] /\ k \notin peers[a]
      BY <1>1, <1>2, <2>2
    <3>2. in[<<k, a>>] = <<>> /\ in[<<a, k>>] = <<>> /\ loop'[<<k, a>>] = "read"
      <4>1. <<a, k>> \in Ends /\ <<a, k>>[1] = a /\ <<a, k>>[2] = k
        BY <2>1 DEF Ends
      <4>2. <<k, a>> = <<i, j>> \/ <<k, a>> = <<j, i>>
        BY <2>2
      <4> QED
        BY <1>3, <2>1, <3>1, <4>1, <4>2 DEF Connected, Unused
    <3>3. replica[k][a] = NoFile /\ k \notin told[a]
      BY <2>1, <3>1 DEF Strangers
    <3>4. rpcs[k] = <<>>
      <4>1. rpcs[k] \in Seq(Message(k))
        BY DEF Types
      <4>2. DOMAIN rpcs[k] = 1..Len(rpcs[k]) /\ Len(rpcs[k]) \in Nat
        BY <4>1, LenProperties
      <4>3. \A n \in 1..Len(rpcs[k]) : FALSE
        BY <3>1, <4>2 DEF OneCaller, OnlyCallersCall, FromCallers, Connected, Unused
      <4>4. Len(rpcs[k]) = 0
        <5>1. Len(rpcs[k]) # 0 => 1 \in 1..Len(rpcs[k])
          BY <4>2
        <5> QED
          BY <4>3, <5>1
      <4> QED
        BY <4>1, <4>4, EmptySeq
    <3>5. ~HasStore(<<>>) /\ Len(<<>>) = 0
      BY DEF HasStore
    <3>6. CASE app[a].at = "announced"
      <4>1. app[a] # Idle
        BY <3>6 DEF Idle
      <4>2. "join" \in happened'
        BY <1>1, <2>2, <4>1
      <4> QED
        BY <1>1, <3>2, <3>3, <3>4, <3>5, <3>6, <4>2 DEF Linked, LaggingBehind, Lagging
    <3>7. CASE app[a].at # "announced"
      <4>1. Position(<<>>, "read", <<>>, app[a].at)
        BY <3>5, <3>7 DEF Position
      <4>2. InOrder(<<>>, <<>>, app[a].at)
        BY DEF InOrder, Chain
      <4>3. Untold(<<>>, <<>>, NoFile) /\ Holds(NoFile)
        BY <3>5 DEF Untold, Without, Holds
      <4>4. InStep(<<>>, "read", <<>>, NoFile, app[a].at, last[a], k, told[a])
        BY <3>3, <4>1, <4>2, <4>3 DEF InStep
      <4> QED
        BY <1>1, <3>2, <3>3, <3>4, <4>4 DEF Linked, InStepWith
    <3> QED
      BY <3>6, <3>7
  <2>3. CASE {a, k} # {i, j}
    <3>1. Works(a, k)
      BY <1>1, <1>5, <2>3 DEF Works
    <3>2. Linked(a, k)
      BY <3>1 DEF AllLinked
    <3>3. <<k, a>> # <<i, j>> /\ <<k, a>> # <<j, i>>
      BY <2>3
    <3>4. loop'[<<k, a>>] = loop[<<k, a>>]
      BY <1>3, <2>1, <3>3
    <3> QED
      BY <1>1, <3>2, <3>4, LinkedFrame
  <2> QED
    BY <2>2, <2>3
<1> QED
  BY <1>4, <1>5 DEF AllLinked, Works

(***************************************************************************)
(* A connection that breaks is not claimed anything of any more.           *)
(***************************************************************************)
LEMMA DropKeepsProtocol ==
  ASSUME Types, Connected, OnlyCallersCall, AllLinked,
         NEW i \in Nodes, NEW j \in Nodes, i # j, Drop(i, j)
  PROVE  OnlyCallersCall' /\ AllLinked'
<1>0. <<i, j>> \in Ends /\ <<j, i>> \in Ends /\ <<i, j>> # <<j, i>> /\ in \in [Ends -> Seq(Units)]
  BY DEF Ends, Types, TypeOK
<1>1. /\ up' = up \ {{i, j}} /\ happened \subseteq happened'
      /\ UNCHANGED <<life, peers, loop, rpcs, files, app, ops, last, told, got>>
  BY DEF Drop, Fault
<1>2. PICK m \in 0..Len(in[<<i, j>>]), n \in 0..Len(in[<<j, i>>]) :
        in' = [in EXCEPT ![<<i, j>>] = SubSeq(@, 1, m), ![<<j, i>>] = SubSeq(@, 1, n)]
  BY DEF Drop
<1>3. /\ in'[<<i, j>>] = SubSeq(in[<<i, j>>], 1, m) /\ in'[<<j, i>>] = SubSeq(in[<<j, i>>], 1, n)
      /\ \A e \in Ends : e # <<i, j>> /\ e # <<j, i>> => in'[e] = in[e]
  BY <1>0, <1>2
<1>4. ASSUME NEW q \in Seq(Units), NEW l \in 0..Len(q)
      PROVE  /\ Len(SubSeq(q, 1, l)) = l
             /\ \A k \in 1..l : k \in 1..Len(q) /\ SubSeq(q, 1, l)[k] = q[k]
  <2>1. Len(q) \in Nat /\ 1 \in Int /\ l \in Int /\ \A k \in 1..l : q[k] \in Units
    BY ElementOfSeq
  <2>2. /\ Len(SubSeq(q, 1, l)) = IF 1 <= l THEN l - 1 + 1 ELSE 0
        /\ \A k \in 1..(l - 1 + 1) : SubSeq(q, 1, l)[k] = q[1 + k - 1]
    BY <2>1, SubSeqProperties
  <2> QED
    BY <2>1, <2>2
<1>5. OnlyAnswers'
  <2>1. \A e \in Ends : in[e] \in Seq(Units)
    BY <1>0
  <2>2. \A e \in Ends : \A k \in 1..Len(in'[e]) : k \in 1..Len(in[e]) /\ in'[e][k] = in[e][k]
    <3> SUFFICES ASSUME NEW e \in Ends, NEW k \in 1..Len(in'[e])
                 PROVE  k \in 1..Len(in[e]) /\ in'[e][k] = in[e][k]
      OBVIOUS
    <3>0. /\ in[<<i, j>>] \in Seq(Units) /\ m \in 0..Len(in[<<i, j>>])
          /\ in[<<j, i>>] \in Seq(Units) /\ n \in 0..Len(in[<<j, i>>])
      BY <1>0
    <3>1. CASE e = <<i, j>>
      <4>1. /\ Len(in'[e]) = m
            /\ \A l \in 1..m : l \in 1..Len(in[e]) /\ in'[e][l] = in[e][l]
        BY <1>3, <1>4, <3>0, <3>1, Zenon
      <4> QED
        BY <4>1
    <3>2. CASE e = <<j, i>>
      <4>1. /\ Len(in'[e]) = n
            /\ \A l \in 1..n : l \in 1..Len(in[e]) /\ in'[e][l] = in[e][l]
        BY <1>3, <1>4, <3>0, <3>2, Zenon
      <4> QED
        BY <4>1
    <3>3. CASE e # <<i, j>> /\ e # <<j, i>>
      BY <1>3, <3>3
    <3> QED
      BY <3>1, <3>2, <3>3
  <2> QED
    BY <2>2 DEF OnlyCallersCall, OnlyAnswers
<1>6. ASSUME NEW a \in Callers, NEW k \in Nodes \ {a}, {a, k} \in up' PROVE Linked(a, k)'
  <2>1. {a, k} # {i, j} /\ Linked(a, k)
    BY <1>1, <1>6 DEF AllLinked, Works
  <2>2. a \in Nodes /\ <<k, a>> \in Ends /\ <<a, k>> \in Ends
    BY CallersAssumption DEF Ends
  <2>3. /\ <<k, a>> # <<i, j>> /\ <<k, a>> # <<j, i>>
        /\ <<a, k>> # <<i, j>> /\ <<a, k>> # <<j, i>>
    BY <2>1
  <2>4. in'[<<k, a>>] = in[<<k, a>>] /\ in'[<<a, k>>] = in[<<a, k>>]
    BY <1>3, <2>2, <2>3
  <2> QED
    BY <1>1, <2>1, <2>4, LinkedFrame
<1> QED
  BY <1>1, <1>5, <1>6 DEF OnlyCallersCall, IdlePeers, FromCallers, AllLinked, Works

LEMMA StopKeepsProtocol ==
  ASSUME OnlyCallersCall, AllLinked, NEW i \in Nodes, Stop(i)
  PROVE  OnlyCallersCall' /\ AllLinked'
<1>1. /\ happened \subseteq happened'
      /\ UNCHANGED <<peers, up, in, loop, rpcs, files, app, ops, last, told, got>>
  BY DEF Stop, Fault
<1>2. AllLinked'
  BY <1>1, LinkedFrame DEF AllLinked, Works
<1> QED
  BY <1>1, <1>2 DEF OnlyCallersCall, IdlePeers, FromCallers, OnlyAnswers

LEMMA PanicKeepsProtocol ==
  ASSUME Types, OnlyCallersCall, AllLinked, NEW i \in Nodes, Panic(i)
  PROVE  OnlyCallersCall' /\ AllLinked'
<1>1. /\ up' = {c \in up : i \notin c} /\ UNCHANGED <<peers, in, files, ops, last, told, got>>
      /\ loop' = [e \in Ends |-> IF e[1] = i THEN "off" ELSE loop[e]]
      /\ rpcs' = [rpcs EXCEPT ![i] = <<>>] /\ app' = [app EXCEPT ![i] = Idle]
  BY DEF Panic
<1>2. happened \subseteq happened'
  BY DEF Panic, ClosesEarly, ReadsMarker, Fault
<1>3. /\ rpcs'[i] = <<>> /\ \A k \in Nodes : k # i => rpcs'[k] = rpcs[k] /\ app'[k] = app[k]
      /\ app'[i] = Idle
  BY <1>1 DEF Types, TypeOK
<1>4. OnlyCallersCall'
  <2>1. IdlePeers'
    BY <1>3 DEF OnlyCallersCall, IdlePeers, Idle
  <2>2. FromCallers'
    <3>1. Len(<<>>) = 0
      OBVIOUS
    <3>2. \A n \in 1..Len(rpcs'[i]) : FALSE
      BY <1>3, <3>1
    <3> QED
      BY <1>3, <3>2 DEF OnlyCallersCall, FromCallers
  <2>3. OnlyAnswers'
    BY <1>1 DEF OnlyCallersCall, OnlyAnswers
  <2> QED
    BY <2>1, <2>2, <2>3 DEF OnlyCallersCall
<1>5. ASSUME NEW a \in Callers, NEW k \in Nodes \ {a}, {a, k} \in up' PROVE Linked(a, k)'
  <2>1. a # i /\ k # i /\ Linked(a, k) /\ a \in Nodes
    BY <1>1, <1>5, CallersAssumption DEF AllLinked, Works
  <2>2. <<k, a>> \in Ends /\ <<k, a>>[1] = k
    BY <2>1 DEF Ends
  <2>3. loop'[<<k, a>>] = loop[<<k, a>>]
    BY <1>1, <2>1, <2>2
  <2> QED
    BY <1>1, <1>2, <1>3, <2>1, <2>3, LinkedFrame
<1> QED
  BY <1>4, <1>5 DEF AllLinked, Works

(***************************************************************************)
(* A fault is never forgotten.                                             *)
(***************************************************************************)
LEMMA FaultsRemain ==
  ASSUME [Next]_vars
  PROVE  happened \subseteq happened'
<1>1. CASE UNCHANGED vars
  BY <1>1 DEF vars
<1>2. ASSUME NEW i \in Nodes, Call(i) \/ Proceed(i) \/ Handle(i) \/ Stop(i) \/ Panic(i)
      PROVE  happened \subseteq happened'
  BY <1>2 DEF Call, Proceed, Handle, Store, Delete, GetLocal, Get, Stream, StreamFails, GetRange,
              GetReturn, HandleMessageStoreFile, HandleMessageGetFile, Stop, Panic, ClosesEarly,
              ReadsMarker, Fault
<1>3. ASSUME NEW e \in Ends,
             ReadLoop(e) \/ GetStep(e[1], e[2]) \/ Dial(e[1], e[2]) \/ Drop(e[1], e[2])
      PROVE  happened \subseteq happened'
  BY <1>3 DEF ReadLoop, DecodeMarker, DecodePayload, AddStream, DecodeFails, GetStep, GetFrom,
              GetFails, Dial, Drop, Fault
<1> QED
  BY <1>1, <1>2, <1>3 DEF Next

(***************************************************************************)
(* With one caller, and as long as nothing has put a connection out of     *)
(* step, every peer of the caller whose connection works follows the       *)
(* protocol: the bytes a handler reads are those the message announced.    *)
(***************************************************************************)
THEOREM FileServerProtocol ==
  ASSUME OneCaller
  PROVE  Spec => []Protocol
<1>1. Init => Protocol
  <2> SUFFICES ASSUME Init PROVE OnlyCallersCall /\ AllLinked
    BY DEF Protocol
  <2>1. Len(<<>>) = 0 /\ \A n \in 1..0 : FALSE
    OBVIOUS
  <2>2. \A i \in Nodes : app[i].at = "idle" /\ rpcs[i] = <<>>
    BY DEF Init, Idle
  <2>3. \A e \in Ends : in[e] = <<>>
    BY DEF Init
  <2>4. OnlyCallersCall
    BY <2>1, <2>2, <2>3 DEF OnlyCallersCall, IdlePeers, FromCallers, OnlyAnswers
  <2>5. AllLinked
    BY DEF Init, AllLinked, Works
  <2> QED
    BY <2>4, <2>5
<1>2. Types /\ Connected /\ Strangers /\ Protocol /\ [Next]_vars => Protocol'
  <2> SUFFICES ASSUME Types, Connected, Strangers, Protocol, [Next]_vars,
                      happened' \cap Lost = {}
               PROVE  OnlyCallersCall' /\ AllLinked'
    BY DEF Protocol
  <2>0. OnlyCallersCall /\ AllLinked
    BY FaultsRemain DEF Protocol
  <2>1. CASE UNCHANGED vars
    <3>1. OnlyCallersCall'
      BY <2>0, <2>1 DEF vars, OnlyCallersCall, IdlePeers, FromCallers, OnlyAnswers
    <3>2. AllLinked'
      BY <2>0, <2>1, LinkedFrame DEF vars, AllLinked, Works
    <3> QED
      BY <3>1, <3>2
  <2>2. ASSUME NEW i \in Nodes, Call(i) \/ Proceed(i) \/ Handle(i) \/ Stop(i) \/ Panic(i)
        PROVE  OnlyCallersCall' /\ AllLinked'
    <3>1. CASE Call(i)
      BY <2>0, <3>1, StoreKeepsProtocol, GetKeepsProtocol, QuietCallKeepsProtocol DEF Call
    <3>2. CASE Proceed(i)
      <4>1. ~StreamFails(i)
        BY DEF StreamFails, Lost
      <4> QED
        BY <2>0, <3>2, <4>1, StreamKeepsProtocol, QuietCallKeepsProtocol DEF Proceed
    <3>3. CASE Handle(i)
      BY <2>0, <3>3, HandleStoreKeepsProtocol, HandleGetKeepsProtocol DEF Handle
    <3>4. CASE Stop(i) \/ Panic(i)
      BY <2>0, <3>4, StopKeepsProtocol, PanicKeepsProtocol
    <3> QED
      BY <2>2, <3>1, <3>2, <3>3, <3>4
  <2>3. ASSUME NEW e \in Ends,
               ReadLoop(e) \/ GetStep(e[1], e[2]) \/ Dial(e[1], e[2]) \/ Drop(e[1], e[2])
        PROVE  OnlyCallersCall' /\ AllLinked'
    <3>1. e[1] \in Nodes /\ e[2] \in Nodes /\ e[1] # e[2]
      BY DEF Ends
    <3>2. CASE ReadLoop(e)
      BY <2>0, <3>2, MarkerKeepsProtocol, PayloadKeepsProtocol, AddStreamKeepsProtocol
         DEF ReadLoop
    <3>3. CASE GetStep(e[1], e[2]) \/ Dial(e[1], e[2]) \/ Drop(e[1], e[2])
      BY <2>0, <3>1, <3>3, GetStepKeepsProtocol, DialKeepsProtocol, DropKeepsProtocol
    <3> QED
      BY <2>3, <3>2, <3>3
  <2> QED
    BY <2>1, <2>2, <2>3 DEF Next
<1> QED
  BY <1>1, <1>2, FileServerTypes, FileServerConnected, FileServerStrangers, PTL DEF Spec

(***************************************************************************)
(* With one caller, once what a Store sent is handled every peer it told   *)
(* holds exactly what was stored last, whichever other connections broke;  *)
(* and without a fault nobody panics.                                      *)
(***************************************************************************)
THEOREM FileServerReplicaExact ==
  ASSUME OneCaller
  PROVE  Spec => []ReplicaExact
<1>1. Types /\ Connected /\ Strangers /\ Protocol => ReplicaExact
  <2> SUFFICES ASSUME Types, Connected, Strangers, Protocol PROVE ReplicaExact
    OBVIOUS
  <2>1. ASSUME happened \subseteq {"drop"}, NEW i \in Callers, NEW j \in told[i],
               Works(i, j), Settled(i, j)
        PROVE  replica[j][i] = CopyEncrypt(last[i])
    <3>1. i \in Nodes /\ j \in Nodes \ {i}
      <4>1. i \in Nodes /\ j \in peers[i]
        BY CallersAssumption DEF Strangers
      <4> QED
        BY <4>1 DEF Types, TypeOK, Connected, Mutual
    <3>2. happened \cap Lost = {} /\ "join" \notin happened
      BY <2>1 DEF Lost
    <3>3. InStepWith(i, j) /\ FromCallers
      BY <2>1, <3>1, <3>2 DEF Protocol, OnlyCallersCall, AllLinked, Linked, LaggingBehind
    <3>4. app[i].at # "announced" /\ in[<<j, i>>] = <<>> /\ \A n \in DOMAIN rpcs[j] : rpcs[j][n].from # i
      BY <2>1 DEF Settled
    <3>5. ~HasStore(rpcs[j])
      <4>1. rpcs[j] \in Seq(Message(j))
        BY <3>1 DEF Types
      <4>2. DOMAIN rpcs[j] = 1..Len(rpcs[j])
        BY <4>1, LenProperties
      <4>3. \A n \in 1..Len(rpcs[j]) : rpcs[j][n].from = i
        BY <3>1, <3>3 DEF OneCaller, FromCallers
      <4> QED
        BY <3>4, <4>2, <4>3 DEF HasStore
    <3>6. Without(<<>>, "iv")
      BY DEF Without
    <3>7. Current(in[<<j, i>>], rpcs[j], replica[j][i], last[i])
      BY <2>1, <3>3, <3>4 DEF InStepWith, InStep
    <3> QED
      BY <3>4, <3>5, <3>6, <3>7 DEF Current
  <2>2. happened = {} => \A i \in Nodes : life[i] = "up"
    BY DEF Types, TypeOK, Connected, Blameless
  <2> QED
    BY <2>1, <2>2 DEF ReplicaExact
<1> QED
  BY <1>1, FileServerTypes, FileServerConnected, FileServerStrangers, FileServerProtocol, PTL

-----------------------------------------------------------------------------
(* One round of a Get: question, message, answer.                          *)

(***************************************************************************)
(* At any time a peer has at most one of: a question under way to it, the  *)
(* queued message, an answer under way back; and only if the caller still  *)
(* waits for it.  The answer is the file stored last.                      *)
(***************************************************************************)
HasGet(msgs) == \E n \in 1..Len(msgs) : msgs[n].msg.kind = "GET"

Waits(c, j) == c.at = "asked" \/ (c.at = "reading" /\ j \in c.todo)

Quiet(back, at) == back = <<>> /\ at = "read"

Answer(v) == <<Unit("size", 2), Unit("iv", v), Unit("cipher", v)>>

Answering(back, at, v) ==
  \/ at = "read" /\ back = <<IncomingStream, Unit("size", 2), Unit("iv", v), Unit("cipher", v)>>
  \/ at \in {"took", "wait"} /\ back = Answer(v)

Round(q, msgs, back, at, c, v, j) ==
  /\ \A n \in 1..Len(q) : q[n].kind = "GET" =>
       Waits(c, j) /\ n = Len(q) /\ ~HasGet(msgs) /\ Quiet(back, at)
  /\ HasGet(msgs) => Waits(c, j) /\ Len(msgs) = 1 /\ q = <<>> /\ Quiet(back, at)
  /\ ~Quiet(back, at) => Waits(c, j) /\ q = <<>> /\ msgs = <<>> /\ Answering(back, at, v)

(* Nothing of a round is under way.                                        *)
Silent(q, msgs, back, at) == Without(q, "GET") /\ ~HasGet(msgs) /\ Quiet(back, at)

LEMMA SilentRound ==
  ASSUME NEW q, NEW msgs, NEW back, NEW at, NEW c, NEW v, NEW j
  PROVE  /\ Round(q, msgs, back, at, c, v, j) /\ ~Waits(c, j) => Silent(q, msgs, back, at)
         /\ Silent(q, msgs, back, at) => Round(q, msgs, back, at, c, v, j)
BY DEF Round, Silent, Without

(***************************************************************************)
(* The caller asks.                                                        *)
(***************************************************************************)
LEMMA AskRound ==
  ASSUME NEW q \in Seq(Units), NEW msgs, NEW back, NEW at, Silent(q, msgs, back, at),
         NEW c, NEW v, NEW j, Waits(c, j)
  PROVE  Round(q \o <<IncomingMessage, MessageGetFile>>, msgs, back, at, c, v, j)
<1> DEFINE s == <<IncomingMessage, MessageGetFile>>
           r == q \o s
<1>1. s \in Seq(Units) /\ Len(s) = 2 /\ s[1].kind = "message"
  BY UnitTypes, KindOfUnit
<1> HIDE DEF s
<1>2. /\ r \in Seq(Units) /\ Len(r) = Len(q) + Len(s)
      /\ \A i \in 1..Len(q) + Len(s) : r[i] = IF i <= Len(q) THEN q[i] ELSE s[i - Len(q)]
  BY <1>1, ConcatProperties
<1> HIDE DEF r
<1>3. \A n \in 1..Len(r) : r[n].kind = "GET" => n = Len(r)
  <2> SUFFICES ASSUME NEW n \in 1..Len(r), n # Len(r) PROVE r[n].kind # "GET"
    OBVIOUS
  <2>0. Len(q) \in Nat
    OBVIOUS
  <2>1. n \in 1..Len(q) \/ n = Len(q) + 1
    BY <1>1, <1>2, <2>0
  <2>2. CASE n \in 1..Len(q)
    <3>1. r[n] = q[n]
      BY <1>1, <1>2, <2>0, <2>2
    <3> QED
      BY <2>2, <3>1 DEF Silent, Without
  <2>3. CASE n = Len(q) + 1
    <3>1. r[n] = s[1]
      BY <1>1, <1>2, <2>0, <2>3
    <3> QED
      BY <1>1, <3>1
  <2> QED
    BY <2>1, <2>2, <2>3
<1> QED
  BY <1>3 DEF Round, Silent, r, s

(***************************************************************************)
(* The peer reads the first d units, which are not the question.           *)
(***************************************************************************)
LEMMA ReadRound ==
  ASSUME NEW q \in Seq(Units), q # <<>>, NEW r \in Seq(Units), NEW d \in Nat,
         Len(r) = Len(q) - d, \A k \in 1..Len(r) : r[k] = q[k + d],
         NEW msgs, NEW back, NEW at, NEW c, NEW v, NEW j, Round(q, msgs, back, at, c, v, j),
         NEW more, ~HasGet(more)
  PROVE  Round(r, more, back, at, c, v, j)
<1>1. Quiet(back, at)
  BY DEF Round
<1>2. ASSUME NEW n \in 1..Len(r), r[n].kind = "GET" PROVE Waits(c, j) /\ n = Len(r)
  <2>1. n + d \in 1..Len(q) /\ q[n + d].kind = "GET" /\ Len(q) \in Nat /\ Len(r) \in Nat
    BY <1>2
  <2>2. Waits(c, j) /\ n + d = Len(q)
    BY <2>1 DEF Round
  <2> QED
    BY <2>1, <2>2
<1> QED
  BY <1>1, <1>2 DEF Round

(***************************************************************************)
(* The peer queues the question.                                           *)
(***************************************************************************)
LEMMA QueueRound ==
  ASSUME NEW q \in Seq(Units), q # <<>>, NEW j, NEW m \in Message(j), m.msg = Head(q),
         Head(q) = MessageGetFile, NEW back, NEW at, NEW c, NEW v,
         Round(q, <<>>, back, at, c, v, j)
  PROVE  Round(Tail(q), Append(<<>>, m), back, at, c, v, j)
<1>1. /\ Tail(q) \in Seq(Units) /\ Len(Tail(q)) = Len(q) - 1 /\ Len(q) \in Nat /\ Len(q) > 0
      /\ Head(q) = q[1] /\ q[1].kind = "GET" /\ 1 \in 1..Len(q)
  BY HeadTailProperties, EmptySeq, KindOfUnit
<1>2. Waits(c, j) /\ Len(q) = 1 /\ Quiet(back, at)
  BY <1>1 DEF Round
<1>3. Len(Tail(q)) = 0
  BY <1>1, <1>2
<1>4. Tail(q) = <<>>
  BY <1>1, <1>3, EmptySeq, Zenon
<1>5. Len(Append(<<>>, m)) = 1
  OBVIOUS
<1>6. \A n \in 1..Len(Tail(q)) : FALSE
  <2>1. \A n \in 1..0 : FALSE
    OBVIOUS
  <2> QED
    BY <1>3, <2>1, Zenon
<1>7. \A n \in 1..Len(Tail(q)) : Tail(q)[n].kind = "GET" =>
        Waits(c, j) /\ n = Len(Tail(q)) /\ ~HasGet(Append(<<>>, m)) /\ Quiet(back, at)
  BY <1>6
<1> QED
  BY <1>2, <1>4, <1>5, <1>7, Zenon DEF Round

(***************************************************************************)
(* CopyDecrypt of what CopyEncrypt wrote is the content.                   *)
(***************************************************************************)
LEMMA DecryptEncrypt ==
  ASSUME NEW v \in 1..MaxOps
  PROVE  CopyDecrypt(CopyEncrypt(v)) = <<Unit("plain", v)>>
<1> DEFINE s == CopyEncrypt(v)
<1>1. s \in Seq(Units) /\ Len(s) = 2 /\ s[1] = Unit("iv", v) /\ s[2] = Unit("cipher", v)
  BY CopyEncryptType
<1> HIDE DEF s
<1>2. s[1].kind = "iv" /\ s[1].of = v
  BY <1>1, KindOfUnit
<1>3. CopyDecrypt(s) = [n \in 1..1 |-> Unit("plain", v)]
  <2>1. \A n \in 1..1 : n + 1 = 2
    OBVIOUS
  <2>2. Len(s) - 1 = 1
    BY <1>1
  <2> QED
    BY <1>1, <1>2, <2>1, <2>2 DEF CopyDecrypt
<1>4. [n \in 1..1 |-> Unit("plain", v)] = <<Unit("plain", v)>>
  OBVIOUS
<1> QED
  BY <1>3, <1>4 DEF s

(***************************************************************************)
(* Every peer of the caller is in one round at most, and the files of the  *)
(* caller are what it stored last.                                         *)
(***************************************************************************)
RoundWith(a, j) ==
  Round(in[<<j, a>>], rpcs[j], in[<<a, j>>], loop[<<a, j>>], app[a], last[a], j)

AllRounds == \A a \in Callers : \A j \in peers[a] : RoundWith(a, j)

Kept(f, v) == f = NoFile \/ f = <<Unit("plain", v)>>

AllKept == \A a \in Callers : Kept(local[a], last[a]) /\ Kept(got[a], last[a])

Harmless == happened \subseteq {"join", "stop"}

Gets == Harmless => AllRounds /\ AllKept

LEMMA PeerEnds ==
  ASSUME Types, Connected, Harmless, NEW a \in Callers, NEW j \in peers[a]
  PROVE  /\ a \in Nodes /\ j \in Nodes \ {a} /\ a \in peers[j]
         /\ Works(a, j) /\ Works(j, a)
         /\ <<a, j>> \in Ends /\ <<j, a>> \in Ends /\ <<a, j>> # <<j, a>>
         /\ in[<<a, j>>] \in Seq(Units) /\ in[<<j, a>>] \in Seq(Units)
         /\ loop[<<a, j>>] \in {"read", "payload", "took", "wait"}
<1>1. a \in Nodes
  BY CallersAssumption
<1>2. j \in Nodes \ {a} /\ a \in peers[j]
  BY <1>1 DEF Types, TypeOK, Connected, Mutual
<1>3. Works(a, j)
  BY <1>1 DEF Connected, Blameless, Harmless
<1>4. {a, j} = {j, a}
  OBVIOUS
<1>5. /\ <<a, j>> \in Ends /\ <<j, a>> \in Ends /\ <<a, j>> # <<j, a>>
      /\ <<a, j>>[1] = a /\ <<a, j>>[2] = j
  BY <1>1, <1>2 DEF Ends
<1> QED
  BY <1>1, <1>2, <1>3, <1>4, <1>5 DEF Works, Types, TypeOK, Connected, Running

LEMMA RoundFrame ==
  ASSUME NEW a, NEW j, RoundWith(a, j),
         in'[<<j, a>>] = in[<<j, a>>], in'[<<a, j>>] = in[<<a, j>>],
         loop'[<<a, j>>] = loop[<<a, j>>], rpcs'[j] = rpcs[j], last'[a] = last[a],
         Waits(app[a], j) => Waits(app'[a], j)
  PROVE  RoundWith(a, j)'
BY DEF RoundWith, Round

(***************************************************************************)
(* A caller that does not wait for an answer writes something else than a  *)
(* question.                                                               *)
(***************************************************************************)
LEMMA WriteRound ==
  ASSUME NEW a, NEW j, RoundWith(a, j), ~Waits(app[a], j), in[<<j, a>>] \in Seq(Units),
         NEW s \in Seq(Units), Len(s) > 0, Without(s, "GET"),
         in'[<<j, a>>] = in[<<j, a>>] \o s, in'[<<a, j>>] = in[<<a, j>>],
         loop'[<<a, j>>] = loop[<<a, j>>], rpcs'[j] = rpcs[j]
  PROVE  RoundWith(a, j)'
<1>1. Silent(in[<<j, a>>], rpcs[j], in[<<a, j>>], loop[<<a, j>>])
  BY SilentRound DEF RoundWith
<1>2. \A kind : Without(in[<<j, a>>] \o s, kind) <=> Without(in[<<j, a>>], kind) /\ Without(s, kind)
  BY Write, Zenon
<1>3. Silent(in'[<<j, a>>], rpcs'[j], in'[<<a, j>>], loop'[<<a, j>>])
  BY <1>1, <1>2 DEF Silent
<1> QED
  BY <1>3, SilentRound DEF RoundWith

LEMMA StoreKeepsGets ==
  ASSUME OneCaller, Types, Connected, OnlyCallersCall, AllRounds, AllKept,
         NEW i \in Nodes, Store(i), Harmless, Harmless'
  PROVE  AllRounds' /\ AllKept'
<1> DEFINE m == <<IncomingMessage, MessageStoreFile>>
           s == [j \in Nodes |-> m]
<1>1. /\ i \in Callers /\ app[i] = Idle /\ Send(i, s)
      /\ local' = [local EXCEPT ![i] = <<Unit("plain", ops + 1)>>]
      /\ last' = [last EXCEPT ![i] = ops + 1]
      /\ got' = [got EXCEPT ![i] = NoFile]
      /\ UNCHANGED <<net, loop, rpcs, replica>>
  BY DEF Store, Begin, Harmless, Broadcast
<1>2. \A k \in Callers : k = i
  BY <1>1 DEF OneCaller
<1>3. m \in Seq(Units) /\ Len(m) > 0 /\ Without(m, "GET")
  <2>1. m \in Seq(Units) /\ Len(m) = 2 /\ m[1].kind = "message" /\ m[2].kind = "STORE"
    BY UnitTypes, KindOfUnit
  <2> HIDE DEF m
  <2> QED
    BY <2>1 DEF Without
<1>4. \A j \in Nodes : s[j] = m
  OBVIOUS
<1> HIDE DEF s, m
<1>5. \A j \in Nodes \ {i} :
        /\ in'[<<i, j>>] = in[<<i, j>>]
        /\ Works(i, j) => in'[<<j, i>>] = in[<<j, i>>] \o m
  <2>1. \A j \in Nodes : s[j] \in Seq(Units)
    BY <1>3, <1>4
  <2>2. OnlyAnswers
    BY DEF OnlyCallersCall
  <2>3. \A j \in Nodes \ {i} :
          /\ in'[<<i, j>>] = in[<<i, j>>]
          /\ Works(i, j) => in'[<<j, i>>] = in[<<j, i>>] \o s[j]
    BY <1>1, <2>1, <2>2, CallerSends, Zenon
  <2> QED
    BY <1>4, <2>3
<1>6. ASSUME NEW j \in peers[i] PROVE RoundWith(i, j)'
  <2>1. /\ j \in Nodes \ {i} /\ Works(i, j) /\ in[<<j, i>>] \in Seq(Units)
    BY <1>1, <1>6, PeerEnds
  <2>2. RoundWith(i, j) /\ ~Waits(app[i], j)
    BY <1>1, <1>6 DEF AllRounds, Waits, Idle
  <2> QED
    BY <1>1, <1>3, <1>5, <2>1, <2>2, WriteRound
<1>7. AllKept'
  BY <1>1, <1>2 DEF AllKept, Kept, Types, TypeOK
<1> QED
  BY <1>1, <1>2, <1>6, <1>7 DEF AllRounds

LEMMA StreamKeepsGets ==
  ASSUME OneCaller, Types, Connected, OnlyCallersCall, AllRounds, AllKept,
         NEW i \in Nodes, Stream(i), Harmless
  PROVE  AllRounds' /\ AllKept'
<1> DEFINE m == <<IncomingStream, Unit("iv", last[i]), Unit("cipher", last[i])>>
           s == [j \in Nodes |-> <<IncomingStream>> \o CopyEncrypt(last[i])]
<1>1. /\ app[i].at = "announced" /\ Send(i, s)
      /\ UNCHANGED <<net, loop, rpcs, files, ops, history>>
  BY DEF Stream
<1>2. i \in Callers /\ \A k \in Callers : k = i
  BY <1>1 DEF OnlyCallersCall, IdlePeers, OneCaller
<1>3. last[i] \in 1..MaxOps
  BY <1>1, BoundsAssumption DEF Types, TypeOK
<1>4. m \in Seq(Units) /\ \A j \in Nodes : s[j] = m
  BY <1>3, StreamUnits
<1>5. Len(m) > 0 /\ Without(m, "GET")
  <2>1. Len(m) = 3 /\ m[1].kind = "stream" /\ m[2].kind = "iv" /\ m[3].kind = "cipher"
    BY KindOfUnit
  <2> HIDE DEF m
  <2> QED
    BY <2>1 DEF Without
<1>6. PICK w : w = m
  OBVIOUS
<1> HIDE DEF s, m
<1>7. \A j \in Nodes \ {i} :
        /\ in'[<<i, j>>] = in[<<i, j>>]
        /\ Works(i, j) => in'[<<j, i>>] = in[<<j, i>>] \o w
  <2>1. \A j \in Nodes : s[j] \in Seq(Units)
    BY <1>4
  <2>2. OnlyAnswers
    BY DEF OnlyCallersCall
  <2>3. \A j \in Nodes \ {i} :
          /\ in'[<<i, j>>] = in[<<i, j>>]
          /\ Works(i, j) => in'[<<j, i>>] = in[<<j, i>>] \o s[j]
    BY <1>1, <1>2, <2>1, <2>2, CallerSends, Zenon
  <2> QED
    BY <1>4, <1>6, <2>3
<1>8. ASSUME NEW j \in peers[i] PROVE RoundWith(i, j)'
  <2>1. /\ j \in Nodes \ {i} /\ Works(i, j) /\ in[<<j, i>>] \in Seq(Units)
    BY <1>2, <1>8, PeerEnds
  <2>2. RoundWith(i, j) /\ ~Waits(app[i], j)
    BY <1>1, <1>2, <1>8 DEF AllRounds, Waits
  <2> QED
    BY <1>1, <1>4, <1>5, <1>6, <1>7, <2>1, <2>2, WriteRound
<1>9. AllKept'
  BY <1>1 DEF AllKept
<1> QED
  BY <1>1, <1>2, <1>8, <1>9 DEF AllRounds

LEMMA GetKeepsGets ==
  ASSUME OneCaller, Types, Connected, OnlyCallersCall, AllRounds, AllKept,
         NEW i \in Nodes, Get(i), Harmless
  PROVE  AllRounds' /\ AllKept'
<1> DEFINE m == <<IncomingMessage, MessageGetFile>>
           s == [j \in Nodes |-> m]
<1>1. /\ i \in Callers /\ app[i] = Idle
      /\ UNCHANGED <<net, loop, rpcs, files, history>>
  BY DEF Get, Begin
<1>2. \A k \in Callers : k = i
  BY <1>1 DEF OneCaller
<1>3. Send(i, s) /\ Go(i, "asked", {})
  <2>1. Broken(i) = {}
    BY DEF Broken, Connected, Blameless, Harmless
  <2> QED
    BY <2>1 DEF Get, Broadcast, BroadcastFails
<1>4. app'[i].at = "asked"
  <2>1. app \in [Nodes -> Calls] /\ {} \in SUBSET Nodes
    BY DEF Types, TypeOK, Calls
  <2> QED
    BY <1>3, <2>1, GoEffect
<1>5. m \in Seq(Units) /\ \A j \in Nodes : s[j] = m
  BY UnitTypes
<1> HIDE DEF s, m
<1>6. \A j \in Nodes \ {i} :
        /\ in'[<<i, j>>] = in[<<i, j>>]
        /\ Works(i, j) => in'[<<j, i>>] = in[<<j, i>>] \o m
  <2>1. \A j \in Nodes : s[j] \in Seq(Units)
    BY <1>5
  <2>2. OnlyAnswers
    BY DEF OnlyCallersCall
  <2>3. \A j \in Nodes \ {i} :
          /\ in'[<<i, j>>] = in[<<i, j>>]
          /\ Works(i, j) => in'[<<j, i>>] = in[<<j, i>>] \o s[j]
    BY <1>1, <1>3, <2>1, <2>2, CallerSends, Zenon
  <2> QED
    BY <1>5, <2>3
<1>7. ASSUME NEW j \in peers[i] PROVE RoundWith(i, j)'
  <2>1. /\ j \in Nodes \ {i} /\ Works(i, j) /\ in[<<j, i>>] \in Seq(Units)
    BY <1>1, <1>7, PeerEnds
  <2>2. RoundWith(i, j) /\ ~Waits(app[i], j)
    BY <1>1, <1>7 DEF AllRounds, Waits, Idle
  <2>3. Silent(in[<<j, i>>], rpcs[j], in[<<i, j>>], loop[<<i, j>>])
    BY <2>2, SilentRound DEF RoundWith
  <2>4. Waits(app'[i], j)
    BY <1>4 DEF Waits
  <2>5. Round(in[<<j, i>>] \o m, rpcs[j], in[<<i, j>>], loop[<<i, j>>], app'[i], last[i], j)
    BY <2>1, <2>3, <2>4, AskRound DEF m
  <2> QED
    BY <1>1, <1>6, <2>1, <2>5 DEF RoundWith
<1>8. AllKept'
  BY <1>1 DEF AllKept
<1> QED
  BY <1>1, <1>2, <1>7, <1>8 DEF AllRounds

LEMMA QuietCallKeepsGets ==
  ASSUME OneCaller, Types, Connected, OnlyCallersCall, AllRounds, AllKept,
         NEW i \in Nodes, Delete(i) \/ GetLocal(i) \/ GetRange(i) \/ GetReturn(i)
  PROVE  AllRounds' /\ AllKept'
<1>1. UNCHANGED <<net, in, loop, rpcs, replica, last, told, happened>>
  BY DEF Delete, GetLocal, GetRange, GetReturn
<1>2. i \in Callers /\ \A k \in Callers : k = i
  BY DEF Delete, GetLocal, GetRange, GetReturn, Begin, OnlyCallersCall, IdlePeers, OneCaller
<1>3. \A j \in peers[i] : Waits(app[i], j) => Waits(app'[i], j)
  <2>1. app \in [Nodes -> Calls] /\ {} \in SUBSET Nodes /\ peers[i] \in SUBSET Nodes
    BY DEF Types, TypeOK, Calls
  <2>2. CASE Delete(i) \/ GetLocal(i)
    BY <2>2 DEF Delete, GetLocal
  <2>3. CASE GetRange(i)
    <3>1. app'[i].at = "reading" /\ app'[i].todo = peers[i]
      BY <2>1, <2>3, GoEffect DEF GetRange
    <3> QED
      BY <3>1 DEF Waits
  <2>4. CASE GetReturn(i)
    BY <2>4 DEF GetReturn, Waits
  <2> QED
    BY <2>2, <2>3, <2>4
<1>4. ASSUME NEW j \in peers[i] PROVE RoundWith(i, j)'
  <2>1. RoundWith(i, j)
    BY <1>2, <1>4 DEF AllRounds
  <2> QED
    BY <1>1, <1>3, <1>4, <2>1, RoundFrame
<1>5. AllKept'
  <2>1. Kept(local[i], last[i]) /\ Kept(got[i], last[i])
    BY <1>2 DEF AllKept
  <2>2. local \in [Nodes -> Seq(Units)] /\ got \in [Nodes -> Seq(Units)]
    BY DEF Types, TypeOK
  <2>3. local'[i] \in {local[i], NoFile} /\ got'[i] \in {got[i], local[i]}
    BY <2>2 DEF Delete, GetLocal, GetRange, GetReturn
  <2> QED
    BY <1>1, <1>2, <2>1, <2>3 DEF AllKept, Kept
<1> QED
  BY <1>1, <1>2, <1>4, <1>5 DEF AllRounds

(***************************************************************************)
(* The handler of a STORE is not in a round.                               *)
(***************************************************************************)
LEMMA HandleStoreKeepsGets ==
  ASSUME OneCaller, Types, Connected, OnlyCallersCall, AllRounds, AllKept,
         NEW i \in Nodes, HandleMessageStoreFile(i), Harmless
  PROVE  AllRounds' /\ AllKept'
<1>0. PICK a : a = Sender(i)
  OBVIOUS
<1> DEFINE e == <<i, a>>
<1>1. /\ rpcs[i] # <<>> /\ Head(rpcs[i]).msg = MessageStoreFile
      /\ Readable(e, StoreSize)
      /\ in' = [in EXCEPT ![e] = Rest(e, StoreSize)]
      /\ rpcs' = [rpcs EXCEPT ![i] = Tail(@)]
      /\ loop' = loop \/ loop' = [loop EXCEPT ![e] = "read"]
      /\ UNCHANGED <<net, local, app, ops, history>>
  BY <1>0 DEF HandleMessageStoreFile, Handling, CloseStream
<1>2. /\ a \in Callers /\ a \in Nodes /\ i \notin Callers
      /\ rpcs'[i] = Tail(rpcs[i]) /\ \A k \in Nodes : k # i => rpcs'[k] = rpcs[k]
      /\ rpcs[i] \in Seq(Message(i))
  BY <1>0, <1>1, HandlerQueue
<1>3. /\ in \in [Ends -> Seq(Units)] /\ e \in Ends /\ a # i
      /\ loop \in [Ends -> {"off", "read", "payload", "took", "wait", "spin"}]
      /\ \A k \in Callers : k = a
  BY <1>2 DEF Types, TypeOK, Ends, OneCaller
<1>4. in'[e] = Rest(e, 2) /\ \A k \in Ends : k # e => in'[k] = in[k] /\ loop'[k] = loop[k]
  <2> HIDE DEF e
  <2> QED
    BY <1>1, <1>3 DEF StoreSize
<1>5. ASSUME NEW j \in peers[a] PROVE RoundWith(a, j)'
  <2>1. /\ j \in Nodes \ {a} /\ Works(a, j) /\ Works(j, a) /\ in[<<j, a>>] \in Seq(Units)
        /\ <<a, j>> \in Ends /\ <<j, a>> \in Ends
    BY <1>2, <1>5, PeerEnds
  <2>2. RoundWith(a, j) /\ <<a, j>> # e
    BY <1>2, <1>3, <1>5 DEF AllRounds
  <2>3. CASE j # i
    <3>1. <<j, a>> # e /\ rpcs'[j] = rpcs[j]
      BY <1>2, <2>1, <2>3
    <3> QED
      BY <1>1, <1>4, <2>1, <2>2, <3>1, RoundFrame
  <2>4. CASE j = i
    <3>0. e = <<j, a>> /\ e[1] = i /\ e[2] = a
      BY <2>4
    <3> HIDE DEF e
    <3>1. in[e] \in Seq(Units) /\ Works(e[1], e[2]) /\ loop[e] \in {"read", "payload", "took", "wait"}
      BY <2>1, <2>4, <3>0 DEF Connected, Running
    <3>2. Len(in[e]) >= 2 /\ Len(in[e]) \in Nat
      BY <1>1, <3>1 DEF Readable, StoreSize
    <3>3. /\ Rest(e, 2) \in Seq(Units)
          /\ Len(Rest(e, 2)) = IF Len(in[e]) <= 2 THEN 0 ELSE Len(in[e]) - 2
          /\ \A k \in 1..Len(Rest(e, 2)) : Rest(e, 2)[k] = in[e][k + 2]
      <4>1. 2 \in Nat
        OBVIOUS
      <4> QED
        BY <3>1, <4>1, RestAndPart
    <3>4. Len(Rest(e, 2)) = Len(in[e]) - 2
      <4>1. \A n \in Nat : n >= 2 => (IF n <= 2 THEN 0 ELSE n - 2) = n - 2
        OBVIOUS
      <4> QED
        BY <3>2, <3>3, <4>1, Zenon
    <3>5. in[e] # <<>>
      BY <3>2
    <3>6. ~HasGet(Tail(rpcs[i]))
      <4>1. /\ Len(Tail(rpcs[i])) = Len(rpcs[i]) - 1 /\ Len(rpcs[i]) \in Nat
            /\ \A n \in 1..Len(Tail(rpcs[i])) : Tail(rpcs[i])[n] = rpcs[i][n + 1]
        BY <1>1, <1>2, HeadTailProperties
      <4>2. HasGet(Tail(rpcs[i])) => HasGet(rpcs[i])
        BY <4>1 DEF HasGet
      <4>3. ~HasGet(rpcs[i])
        BY <2>2, <2>4, <3>0, <3>5 DEF RoundWith, Round
      <4> QED
        BY <4>2, <4>3
    <3>7. Round(Rest(e, 2), Tail(rpcs[i]), in[<<a, j>>], loop[<<a, j>>], app[a], last[a], j)
      <4>1. Round(in[e], rpcs[i], in[<<a, j>>], loop[<<a, j>>], app[a], last[a], j)
        BY <2>2, <2>4, <3>0 DEF RoundWith
      <4>2. 2 \in Nat
        OBVIOUS
      <4> QED
        BY <3>1, <3>3, <3>4, <3>5, <3>6, <4>1, <4>2, ReadRound, Zenon
    <3>8. in'[<<a, j>>] = in[<<a, j>>] /\ loop'[<<a, j>>] = loop[<<a, j>>]
      BY <1>4, <2>1, <2>2
    <3> QED
      BY <1>1, <1>2, <1>4, <2>4, <3>0, <3>7, <3>8 DEF RoundWith
  <2> QED
    BY <2>3, <2>4
<1>6. AllKept'
  BY <1>1 DEF AllKept
<1> QED
  BY <1>1, <1>3, <1>5, <1>6 DEF AllRounds

(***************************************************************************)
(* The answer to a question is the replica, which is what was stored last. *)
(***************************************************************************)
LEMMA HandleGetKeepsGets ==
  ASSUME OneCaller, Types, Connected, OnlyCallersCall, AllLinked, AllRounds, AllKept,
         NEW i \in Nodes, HandleMessageGetFile(i), Harmless
  PROVE  AllRounds' /\ AllKept'
<1>0. PICK a : a = Sender(i)
  OBVIOUS
<1> DEFINE f == replica[i][a]
           answer == <<IncomingStream, Unit("size", Len(f))>> \o f
           s == [j \in Nodes |-> IF j = a /\ f # NoFile THEN answer ELSE <<>>]
<1>1. /\ rpcs[i] # <<>> /\ Head(rpcs[i]).msg = MessageGetFile
      /\ Send(i, s)
      /\ rpcs' = [rpcs EXCEPT ![i] = Tail(@)]
      /\ UNCHANGED <<net, loop, files, app, ops, history>>
  BY <1>0 DEF HandleMessageGetFile, Handling
<1>2. /\ a \in Callers /\ a \in Nodes /\ i \notin Callers
      /\ rpcs'[i] = Tail(rpcs[i]) /\ \A k \in Nodes : k # i => rpcs'[k] = rpcs[k]
      /\ rpcs[i] \in Seq(Message(i))
  BY <1>0, <1>1, HandlerQueue
<1>3. a # i /\ (\A k \in Callers : k = a) /\ i \in peers[a]
  <2>1. a \in peers[i]
    BY <1>0, <1>1, TailFromPeers
  <2> QED
    BY <1>2, <2>1 DEF OneCaller, Connected, Mutual
<1>4. s[a] = IF f # NoFile THEN answer ELSE <<>>
  BY <1>2
<1> HIDE DEF s
<1>5. \A e \in Ends :
        in'[e] = IF e[2] = i /\ e[1] \in peers[i] /\ Works(e[1], i)
                   THEN in[e] \o s[e[1]] ELSE in[e]
  BY <1>1 DEF Send
<1>6. /\ Works(a, i) /\ Works(i, a) /\ a \in peers[i]
      /\ <<a, i>> \in Ends /\ <<a, i>>[1] = a /\ <<a, i>>[2] = i
  BY <1>2, <1>3, PeerEnds
<1>7. RoundWith(a, i) /\ InStepWith(a, i)
  BY <1>1, <1>2, <1>3, <1>6 DEF AllRounds, AllLinked, Linked, LaggingBehind, Lagging
<1>8. /\ Head(rpcs[i]) = rpcs[i][1] /\ Len(rpcs[i]) \in Nat \ {0}
      /\ Tail(rpcs[i]) \in Seq(Message(i)) /\ Len(Tail(rpcs[i])) = Len(rpcs[i]) - 1
  BY <1>1, <1>2, HeadTailProperties, EmptySeq
<1>9. rpcs[i][1].msg.kind = "GET" /\ HasGet(rpcs[i])
  BY <1>1, <1>8, KindOfUnit DEF HasGet
<1>10. /\ Waits(app[a], i) /\ Len(rpcs[i]) = 1 /\ in[<<i, a>>] = <<>>
       /\ in[<<a, i>>] = <<>> /\ loop[<<a, i>>] = "read"
  BY <1>7, <1>9 DEF RoundWith, Round, Quiet
<1>11. Tail(rpcs[i]) = <<>>
  <2>1. Len(Tail(rpcs[i])) = 0
    BY <1>8, <1>10
  <2> QED
    BY <1>8, <2>1, EmptySeq, Zenon
<1>12. f # NoFile => f = CopyEncrypt(last[a]) /\ last[a] \in 1..MaxOps
  <2> SUFFICES ASSUME f # NoFile PROVE f = CopyEncrypt(last[a]) /\ last[a] \in 1..MaxOps
    OBVIOUS
  <2>1. PICK v \in 1..MaxOps : f = CopyEncrypt(v)
    BY <1>7 DEF InStepWith, InStep, Holds
  <2>2. i \in told[a] /\ app[a].at # "announced"
    BY <1>7, <1>10 DEF InStepWith, InStep, Untold, Waits
  <2>3. ~HasStore(rpcs[i]) /\ Without(<<>>, "iv")
    <3>1. ~HasStore(rpcs[i])
      BY <1>9, <1>10 DEF HasStore
    <3> QED
      BY <3>1 DEF Without
  <2>4. f = CopyEncrypt(last[a])
    BY <1>7, <1>10, <2>2, <2>3 DEF InStepWith, InStep, Current
  <2>5. v = last[a]
    <3>1. \A w : CopyEncrypt(w)[1].of = w
      BY DEF CopyEncrypt, Unit
    <3> QED
      BY <2>1, <2>4, <3>1
  <2> QED
    BY <2>4, <2>5
<1>13. in'[<<a, i>>] = s[a]
  <2>1. in'[<<a, i>>] = <<>> \o s[a]
    BY <1>5, <1>6, <1>10
  <2>2. s[a] \in Seq(Units)
    <3>1. CASE f = NoFile
      BY <1>4, <3>1
    <3>2. CASE f # NoFile
      <4>1. answer \in Seq(Units)
        BY <1>12, <3>2, AnswerUnits, Zenon
      <4> QED
        BY <1>4, <3>2, <4>1, Zenon
    <3> QED
      BY <3>1, <3>2
  <2> QED
    BY <2>1, <2>2, ConcatEmptySeq
<1>14. RoundWith(a, i)'
  <2>0. in'[<<i, a>>] = <<>>
    <3>1. <<i, a>> \in Ends /\ <<i, a>>[2] = a
      BY <1>2, <1>3 DEF Ends
    <3> QED
      BY <1>3, <1>5, <1>10, <3>1
  <2>1. ~HasGet(<<>>) /\ \A n \in 1..Len(<<>>) : FALSE
    BY DEF HasGet
  <2>2. \/ in'[<<a, i>>] = <<>>
        \/ in'[<<a, i>>] =
             <<IncomingStream, Unit("size", 2), Unit("iv", last[a]), Unit("cipher", last[a])>>
    BY <1>4, <1>12, <1>13, AnswerUnits
  <2> HIDE DEF f, answer
  <2>3. Round(<<>>, <<>>, in'[<<a, i>>], "read", app[a], last[a], i)
    BY <1>10, <2>1, <2>2 DEF Round, Quiet, Answering
  <2> QED
    BY <1>1, <1>2, <1>10, <1>11, <2>0, <2>3 DEF RoundWith
<1>15. ASSUME NEW j \in peers[a], j # i PROVE RoundWith(a, j)'
  <2>1. /\ j \in Nodes \ {a} /\ <<a, j>> \in Ends /\ <<j, a>> \in Ends
        /\ <<a, j>>[2] = j /\ <<j, a>>[2] = a
    BY <1>2, <1>15, PeerEnds
  <2>2. in'[<<a, j>>] = in[<<a, j>>] /\ in'[<<j, a>>] = in[<<j, a>>] /\ rpcs'[j] = rpcs[j]
    BY <1>2, <1>3, <1>5, <1>15, <2>1
  <2>3. RoundWith(a, j)
    BY <1>2, <1>15 DEF AllRounds
  <2> QED
    BY <1>1, <2>2, <2>3, RoundFrame
<1>16. AllKept'
  BY <1>1 DEF AllKept
<1> QED
  BY <1>1, <1>3, <1>14, <1>15, <1>16 DEF AllRounds

(***************************************************************************)
(* A step of one end of the caller's connections.                          *)
(***************************************************************************)
LEMMA RoundsElsewhere ==
  ASSUME OneCaller, Types, Connected, AllRounds, AllKept, NEW e \in Ends, Harmless,
         \A k \in Ends : k # e => in'[k] = in[k] /\ loop'[k] = loop[k],
         \A k \in Nodes : k # e[1] => rpcs'[k] = rpcs[k],
         e[2] \notin Callers => rpcs' = rpcs,
         UNCHANGED <<net, files, app, last, got>>,
         \A a \in Callers : \A j \in peers[a] : e = <<a, j>> \/ e = <<j, a>> => RoundWith(a, j)'
  PROVE  AllRounds' /\ AllKept'
<1>1. ASSUME NEW a \in Callers, NEW j \in peers[a], e # <<a, j>>, e # <<j, a>>
      PROVE  RoundWith(a, j)'
  <2>1. /\ a \in Nodes /\ j \in Nodes \ {a} /\ <<a, j>> \in Ends /\ <<j, a>> \in Ends
        /\ e = <<e[1], e[2]>>
    BY <1>1, PeerEnds DEF Ends
  <2>2. rpcs'[j] = rpcs[j]
    BY <1>1, <2>1 DEF OneCaller
  <2>3. RoundWith(a, j)
    BY <1>1 DEF AllRounds
  <2> QED
    BY <1>1, <2>1, <2>2, <2>3, RoundFrame
<1> QED
  BY <1>1 DEF AllRounds, AllKept

LEMMA MarkerKeepsGets ==
  ASSUME OneCaller, Types, Connected, AllRounds, AllKept, NEW e \in Ends, DecodeMarker(e), Harmless
  PROVE  AllRounds' /\ AllKept'
<1>1. PICK next \in {"took", "payload"} :
        /\ loop[e] = "read" /\ in[e] # <<>>
        /\ in' = [in EXCEPT ![e] = Tail(@)]
        /\ Head(in[e]) = IncomingStream => next = "took"
        /\ Head(in[e]) = IncomingMessage => next = "payload"
        /\ loop' = [loop EXCEPT ![e] = next]
        /\ UNCHANGED <<net, rpcs, files, app, ops, history>>
  BY DEF DecodeMarker
<1>2. /\ in[e] \in Seq(Units) /\ in'[e] = Tail(in[e]) /\ loop'[e] = next
      /\ \A k \in Ends : k # e => in'[k] = in[k] /\ loop'[k] = loop[k]
  BY <1>1 DEF Types, TypeOK
<1>3. ASSUME NEW a \in Callers, NEW j \in peers[a], e = <<j, a>> PROVE RoundWith(a, j)'
  <2>1. <<a, j>> \in Ends /\ <<a, j>> # e /\ RoundWith(a, j)
    BY <1>3, PeerEnds DEF AllRounds
  <2>2. Round(in[e], rpcs[j], in[<<a, j>>], loop[<<a, j>>], app[a], last[a], j)
    BY <1>3, <2>1 DEF RoundWith
  <2>3. ~HasGet(rpcs[j])
    BY <1>1, <2>2 DEF Round
  <2>4. /\ Tail(in[e]) \in Seq(Units) /\ Len(Tail(in[e])) = Len(in[e]) - 1 /\ 1 \in Nat
        /\ \A k \in 1..Len(Tail(in[e])) : Tail(in[e])[k] = in[e][k + 1]
    BY <1>1, <1>2, HeadTailProperties
  <2>5. Round(Tail(in[e]), rpcs[j], in[<<a, j>>], loop[<<a, j>>], app[a], last[a], j)
    <3>1. in[e] # <<>> /\ in[e] \in Seq(Units)
      BY <1>1, <1>2
    <3> QED
      BY <2>2, <2>3, <2>4, <3>1, ReadRound, Zenon
  <2> QED
    BY <1>1, <1>2, <1>3, <2>1, <2>5 DEF RoundWith
<1>4. ASSUME NEW a \in Callers, NEW j \in peers[a], e = <<a, j>> PROVE RoundWith(a, j)'
  <2>1. <<j, a>> \in Ends /\ <<j, a>> # e /\ RoundWith(a, j)
    BY <1>4, PeerEnds DEF AllRounds
  <2>2. /\ Waits(app[a], j) /\ in[<<j, a>>] = <<>> /\ rpcs[j] = <<>>
        /\ in[e] = <<IncomingStream, Unit("size", 2), Unit("iv", last[a]), Unit("cipher", last[a])>>
    BY <1>1, <1>4, <2>1 DEF RoundWith, Round, Quiet, Answering
  <2>3. Head(in[e]) = IncomingStream /\ Tail(in[e]) = Answer(last[a])
    BY <2>2 DEF Answer
  <2>4. in'[e] = Answer(last[a]) /\ loop'[e] = "took"
    BY <1>1, <1>2, <2>3
  <2>5. ~HasGet(<<>>) /\ \A n \in 1..Len(<<>>) : FALSE
    BY DEF HasGet
  <2>6. Round(<<>>, <<>>, Answer(last[a]), "took", app[a], last[a], j)
    BY <2>2, <2>5 DEF Round, Quiet, Answering
  <2> QED
    BY <1>1, <1>2, <1>4, <2>1, <2>2, <2>4, <2>6 DEF RoundWith
<1> QED
  BY <1>1, <1>2, <1>3, <1>4, RoundsElsewhere

LEMMA AddStreamKeepsGets ==
  ASSUME OneCaller, Types, Connected, AllRounds, AllKept, NEW e \in Ends,
         AddStream(e) \/ DecodeFails(e), Harmless
  PROVE  AllRounds' /\ AllKept'
<1>1. in' = in /\ UNCHANGED <<net, rpcs, files, app, ops, history>>
  BY DEF AddStream, DecodeFails
<1>2. \A k \in Ends : k # e => loop'[k] = loop[k]
  BY DEF AddStream, DecodeFails, Types, TypeOK
<1>3. ASSUME NEW a \in Callers, NEW j \in peers[a], e = <<j, a>> PROVE RoundWith(a, j)'
  <2>1. <<a, j>> \in Ends /\ <<a, j>> # e /\ RoundWith(a, j)
    BY <1>3, PeerEnds DEF AllRounds
  <2> QED
    BY <1>1, <1>2, <2>1, RoundFrame
<1>4. ASSUME NEW a \in Callers, NEW j \in peers[a], e = <<a, j>> PROVE RoundWith(a, j)'
  <2>1. Works(a, j) /\ RoundWith(a, j) /\ e[1] = a /\ e[2] = j
    BY <1>4, PeerEnds DEF AllRounds
  <2>2. loop[e] = "took" /\ loop'[e] = "wait"
    <3>1. ~DecodeFails(e)
      BY <2>1 DEF DecodeFails, Ended
    <3> QED
      BY <3>1 DEF AddStream, Types, TypeOK
  <2>3. Round(in[<<j, a>>], rpcs[j], in[e], "wait", app[a], last[a], j)
    <3>1. Round(in[<<j, a>>], rpcs[j], in[e], "took", app[a], last[a], j)
      BY <1>4, <2>1, <2>2 DEF RoundWith
    <3> QED
      BY <3>1 DEF Round, Quiet, Answering
  <2> QED
    BY <1>1, <1>4, <2>2, <2>3 DEF RoundWith
<1> QED
  BY <1>1, <1>2, <1>3, <1>4, RoundsElsewhere

(***************************************************************************)
(* The question is queued behind nothing.                                  *)
(***************************************************************************)
LEMMA PayloadKeepsGets ==
  ASSUME OneCaller, Types, Connected, OnlyCallersCall, AllLinked, AllRounds, AllKept,
         NEW e \in Ends, DecodePayload(e), Harmless, Harmless'
  PROVE  AllRounds' /\ AllKept'
<1> DEFINE m == [from |-> e[2], msg |-> Head(in[e])]
           known == Head(in[e]) \in {MessageStoreFile, MessageGetFile}
<1>1. /\ loop[e] = "payload" /\ in[e] # <<>> /\ loop' = [loop EXCEPT ![e] = "read"]
      /\ rpcs' = IF known THEN [rpcs EXCEPT ![e[1]] = Append(@, m)] ELSE rpcs
      /\ UNCHANGED <<net, files, app, ops, last, told, got>>
  BY DEF DecodePayload
<1>2. /\ e = <<e[1], e[2]>> /\ e[1] \in Nodes /\ e[2] \in Nodes /\ e[1] # e[2]
      /\ in[e] \in Seq(Units) /\ in \in [Ends -> Seq(Units)]
      /\ rpcs \in [Nodes -> Seq([from: Nodes, msg: {MessageStoreFile, MessageGetFile}])]
      /\ rpcs[e[1]] \in Seq(Message(e[1]))
      /\ loop \in [Ends -> {"off", "read", "payload", "took", "wait", "spin"}]
  <2>1. e = <<e[1], e[2]>> /\ e[1] \in Nodes /\ e[2] \in Nodes /\ e[1] # e[2]
    BY DEF Ends
  <2> QED
    BY <2>1 DEF Types, TypeOK
<1>3. in' = [in EXCEPT ![e] = Tail(@)]
  <2>1. PICK k \in 0..(Len(in[e]) - 1) :
          /\ IF k = 0 THEN UNCHANGED happened ELSE Fault("overrun")
          /\ in' = [in EXCEPT ![e] = SubSeq(@, k + 2, Len(@))]
    BY DEF DecodePayload
  <2>2. k = 0 /\ k + 2 = 2
    BY <2>1 DEF Fault, Harmless
  <2>3. SubSeq(in[e], 2, Len(in[e])) = Tail(in[e])
    BY <1>1, <1>2, TailIsSubSeq
  <2> QED
    BY <1>2, <2>1, <2>2, <2>3
<1>4. /\ Len(in[e]) > 0 /\ Head(in[e]) = in[e][1] /\ 1 \in 1..Len(in[e]) /\ in[e][1] \in Units
      /\ Tail(in[e]) \in Seq(Units) /\ Len(Tail(in[e])) = Len(in[e]) - 1
      /\ \A k \in 1..Len(Tail(in[e])) : Tail(in[e])[k] = in[e][k + 1]
  BY <1>1, <1>2, HeadTailProperties, EmptySeq
<1>5. e[2] \notin Callers => rpcs' = rpcs
  <2> SUFFICES ASSUME e[2] \notin Callers PROVE ~known
    BY <1>1
  <2>1. in[e][1].kind \in Answers
    BY <1>4 DEF OnlyCallersCall, OnlyAnswers
  <2> QED
    BY <1>4, <2>1, KindOfUnit DEF Answers
<1>6. known => m \in Message(e[1]) /\ m.msg = Head(in[e]) /\ rpcs'[e[1]] = Append(rpcs[e[1]], m)
  BY <1>1, <1>2 DEF Message
<1> HIDE DEF m, known
<1>7. /\ in'[e] = Tail(in[e])
      /\ \A k \in Ends : k # e => in'[k] = in[k] /\ loop'[k] = loop[k]
      /\ \A k \in Nodes : k # e[1] => rpcs'[k] = rpcs[k]
  BY <1>1, <1>2, <1>3
<1>8. ASSUME NEW a \in Callers, NEW j \in peers[a], e = <<a, j>> PROVE FALSE
  BY <1>1, <1>8 DEF AllRounds, RoundWith, Round, Quiet, Answering
<1>9. ASSUME NEW a \in Callers, NEW j \in peers[a], e = <<j, a>> PROVE RoundWith(a, j)'
  <2>1. /\ <<a, j>> \in Ends /\ <<a, j>> # e /\ RoundWith(a, j) /\ Linked(a, j)
        /\ e[1] = j /\ e[2] = a
    BY <1>9, PeerEnds DEF AllRounds, AllLinked
  <2>2. Round(in[e], rpcs[j], in[<<a, j>>], loop[<<a, j>>], app[a], last[a], j)
    BY <1>9, <2>1 DEF RoundWith
  <2>3. InStep(in[e], "payload", rpcs[j], replica[j][a], app[a].at, last[a], j, told[a])
    BY <1>1, <1>9, <2>1 DEF Linked, InStepWith, LaggingBehind, Lagging
  <2>4. ~HasStore(rpcs[j]) /\ in[e][1].kind \in {"STORE", "GET"}
    BY <2>3 DEF InStep, Position
  <2>5. ~HasGet(rpcs[j])
    BY <1>1, <2>2 DEF Round
  <2>6. known /\ m \in Message(j) /\ m.msg = Head(in[e]) /\ rpcs[j] \in Seq(Message(j))
    <3>1. known
      BY <1>4, <2>4, KindOfUnit DEF known
    <3> QED
      BY <1>2, <1>6, <2>1, <3>1
  <2>7. Round(Tail(in[e]), Append(rpcs[j], m), in[<<a, j>>], loop[<<a, j>>], app[a], last[a], j)
    <3>1. CASE Head(in[e]) = MessageGetFile
      <4>1. rpcs[j] = <<>>
        <5>1. \A n \in 1..Len(rpcs[j]) : rpcs[j][n] \in Message(j)
          BY <2>6, ElementOfSeq
        <5>2. \A n \in 1..Len(rpcs[j]) : FALSE
          BY <2>4, <2>5, <5>1, KindOfUnit DEF HasStore, HasGet, Message
        <5>3. Len(rpcs[j]) \in Nat
          BY <2>6
        <5>4. Len(rpcs[j]) = 0
          <6>1. Len(rpcs[j]) # 0 => 1 \in 1..Len(rpcs[j])
            BY <5>3
          <6> QED
            BY <5>2, <6>1
        <5> QED
          BY <2>6, <5>4, EmptySeq, Zenon
      <4> QED
        BY <1>1, <1>2, <2>2, <2>6, <3>1, <4>1, QueueRound
    <3>2. CASE Head(in[e]) # MessageGetFile
      <4>1. m.msg.kind # "GET"
        BY <1>4, <2>6, <3>2, KindOfUnit
      <4>2. ~HasGet(Append(rpcs[j], m))
        <5>1. /\ Len(Append(rpcs[j], m)) = Len(rpcs[j]) + 1 /\ Len(rpcs[j]) \in Nat
              /\ \A n \in 1..Len(rpcs[j]) : Append(rpcs[j], m)[n] = rpcs[j][n]
              /\ Append(rpcs[j], m)[Len(rpcs[j]) + 1] = m
          BY <2>6, AppendProperties
        <5>2. \A n \in 1..Len(Append(rpcs[j], m)) : n \in 1..Len(rpcs[j]) \/ n = Len(rpcs[j]) + 1
          BY <5>1
        <5> QED
          BY <2>5, <4>1, <5>1, <5>2 DEF HasGet
      <4>3. 1 \in Nat /\ in[e] # <<>> /\ in[e] \in Seq(Units)
        BY <1>1, <1>2
      <4> QED
        BY <1>4, <2>2, <4>2, <4>3, ReadRound, Zenon
    <3> QED
      BY <3>1, <3>2
  <2> QED
    BY <1>1, <1>6, <1>7, <1>9, <2>1, <2>6, <2>7 DEF RoundWith
<1> QED
  BY <1>1, <1>5, <1>7, <1>8, <1>9, RoundsElsewhere

(***************************************************************************)
(* Get reads from peers only.                                              *)
(***************************************************************************)
ReadsPeers == \A i \in Nodes : app[i].todo \subseteq peers[i]

LEMMA StepKeepsReadsPeers ==
  ASSUME Types, ReadsPeers, [Next]_vars
  PROVE  ReadsPeers'
<1>0. /\ app \in [Nodes -> Calls] /\ peers \in [Nodes -> SUBSET Nodes]
      /\ \A i \in Nodes : app[i].todo \in SUBSET Nodes
  BY DEF Types, TypeOK, Calls
<1>1. ASSUME NEW i \in Nodes, NEW place \in {"idle", "announced", "asked", "reading"},
             NEW todo \in SUBSET peers[i], Go(i, place, todo), UNCHANGED peers
      PROVE  ReadsPeers'
  <2>1. todo \in SUBSET Nodes
    BY <1>0
  <2>2. app'[i].todo = todo /\ \A k \in Nodes : k # i => app'[k] = app[k]
    BY <1>0, <1>1, <2>1, GoEffect
  <2> QED
    BY <1>1, <2>2 DEF ReadsPeers
<1>2. ASSUME UNCHANGED app, \A i \in Nodes : peers[i] \subseteq peers'[i] PROVE ReadsPeers'
  BY <1>2 DEF ReadsPeers
<1>3. CASE UNCHANGED vars
  BY <1>2, <1>3 DEF vars
<1>4. ASSUME NEW i \in Nodes, Call(i) \/ Proceed(i) \/ Handle(i) \/ Stop(i) \/ Panic(i)
      PROVE  ReadsPeers'
  <2>1. CASE Panic(i)
    <3>1. app' = [app EXCEPT ![i] = Idle] /\ UNCHANGED peers /\ Idle.todo = {}
      BY <2>1 DEF Panic, Idle
    <3> HIDE DEF Idle
    <3> QED
      BY <1>0, <3>1 DEF ReadsPeers
  <2>2. CASE Handle(i) \/ Stop(i)
    BY <1>2, <2>2 DEF Handle, HandleMessageStoreFile, HandleMessageGetFile, Stop
  <2>3. CASE Call(i) \/ Proceed(i)
    <3>1. UNCHANGED peers
      BY <2>3 DEF Call, Proceed, Store, Delete, GetLocal, Get, Stream, StreamFails, GetRange,
                  GetReturn
    <3>2. \/ UNCHANGED app
          \/ \E place \in {"idle", "announced", "asked"} : Go(i, place, {})
          \/ Go(i, "reading", peers[i])
      BY <2>3 DEF Call, Proceed, Store, Delete, GetLocal, Get, Stream, StreamFails, GetRange,
                  GetReturn
    <3>3. CASE UNCHANGED app
      BY <1>2, <3>1, <3>3
    <3>4. CASE \E place \in {"idle", "announced", "asked"} : Go(i, place, {})
      BY <1>1, <3>1, <3>4
    <3>5. CASE Go(i, "reading", peers[i])
      BY <1>1, <3>1, <3>5
    <3> QED
      BY <3>2, <3>3, <3>4, <3>5
  <2> QED
    BY <1>4, <2>1, <2>2, <2>3
<1>5. ASSUME NEW e \in Ends,
             ReadLoop(e) \/ GetStep(e[1], e[2]) \/ Dial(e[1], e[2]) \/ Drop(e[1], e[2])
      PROVE  ReadsPeers'
  <2>1. CASE ReadLoop(e) \/ Drop(e[1], e[2])
    BY <1>2, <2>1 DEF ReadLoop, DecodeMarker, DecodePayload, AddStream, DecodeFails, Drop
  <2>2. CASE Dial(e[1], e[2])
    <3>1. \A i \in Nodes : peers[i] \subseteq peers'[i]
      BY <1>0, <2>2 DEF Dial, OnPeer
    <3>2. UNCHANGED app
      BY <2>2 DEF Dial
    <3> QED
      BY <1>2, <3>1, <3>2
  <2>3. CASE GetStep(e[1], e[2])
    <3>0. e[1] \in Nodes
      BY DEF Ends
    <3>1. UNCHANGED peers
      BY <2>3 DEF GetStep, GetFrom, GetFails
    <3>2. Go(e[1], "reading", app[e[1]].todo \ {e[2]}) \/ Go(e[1], "idle", {})
      BY <2>3 DEF GetStep, GetFrom, GetFails
    <3>3. app[e[1]].todo \ {e[2]} \in SUBSET peers[e[1]] /\ {} \in SUBSET peers[e[1]]
      BY <3>0 DEF ReadsPeers
    <3> QED
      BY <1>1, <3>0, <3>1, <3>2, <3>3
  <2> QED
    BY <1>5, <2>1, <2>2, <2>3
<1> QED
  BY <1>3, <1>4, <1>5 DEF Next

(***************************************************************************)
(* The caller reads an answer: the whole of it, and it is its file.        *)
(***************************************************************************)
LEMMA GetStepKeepsGets ==
  ASSUME OneCaller, Types, Connected, ReadsPeers, OnlyCallersCall, AllRounds, AllKept,
         NEW i \in Nodes, NEW j \in Nodes, i # j, GetStep(i, j), Harmless
  PROVE  AllRounds' /\ AllKept'
<1> DEFINE e == <<i, j>>
           v == last[i]
<1>1. /\ app[i].at = "reading" /\ j \in app[i].todo
      /\ \E n \in FileSizes(e) : Readable(e, n + 1) /\ (GetFails(i, j) => Len(in[e]) <= 1 \/ n = 0)
      /\ UNCHANGED <<net, rpcs, replica, ops, history>>
  BY DEF GetStep, GetFrom, GetFails
<1>2. i \in Callers /\ (\A k \in Callers : k = i) /\ j \in peers[i]
  BY <1>1 DEF OnlyCallersCall, IdlePeers, OneCaller, ReadsPeers
<1>3. /\ Works(i, j) /\ e \in Ends /\ e[1] = i /\ e[2] = j /\ in[e] \in Seq(Units)
      /\ loop[e] \in {"read", "payload", "took", "wait"}
      /\ in \in [Ends -> Seq(Units)]
      /\ loop \in [Ends -> {"off", "read", "payload", "took", "wait", "spin"}]
      /\ <<j, i>> \in Ends /\ <<j, i>> # e
  BY <1>2, PeerEnds DEF Types, TypeOK
<1>4. loop[e] \in {"took", "wait"}
  BY <1>1, <1>3 DEF Readable
<1>5. RoundWith(i, j)
  BY <1>2 DEF AllRounds
<1>6. in[e] = Answer(v) /\ in[<<j, i>>] = <<>> /\ rpcs[j] = <<>>
  BY <1>4, <1>5 DEF RoundWith, Round, Quiet, Answering
<1>7. /\ Len(in[e]) = 3 /\ in[e][1] = Unit("size", 2)
      /\ in[e][2] = Unit("iv", v) /\ in[e][3] = Unit("cipher", v)
  BY <1>6 DEF Answer
<1>8. v \in 1..MaxOps
  <2>1. in[e][2] \in Units
    BY <1>3, <1>7, ElementOfSeq
  <2> QED
    BY <1>7, <2>1, KindOfUnit
<1>9. FileSizes(e) = {2}
  <2>1. in[e] # <<>> /\ Head(in[e]) = in[e][1]
    BY <1>3, <1>7
  <2> QED
    BY <1>7, <2>1, KindOfUnit DEF FileSizes
<1>10. ~GetFails(i, j)
  BY <1>1, <1>7, <1>9
<1>11. /\ in' = [in EXCEPT ![e] = Rest(e, 3)]
       /\ local' = [local EXCEPT ![i] = CopyDecrypt(Tail(Part(e, 3)))]
       /\ loop' = [loop EXCEPT ![e] = "read"]
       /\ Go(i, "reading", app[i].todo \ {j})
  <2>1. GetFrom(i, j) /\ 2 + 1 = 3
    BY <1>10 DEF GetStep
  <2> QED
    BY <1>9, <2>1 DEF GetFrom, CloseStream
<1>12. Rest(e, 3) = <<>> /\ Part(e, 3) = in[e]
  <2>1. 3 \in Nat
    OBVIOUS
  <2>2. Rest(e, 3) \in Seq(Units) /\ Len(Rest(e, 3)) = IF Len(in[e]) <= 3 THEN 0 ELSE Len(in[e]) - 3
    BY <1>3, <2>1, RestAndPart
  <2>3. Len(Rest(e, 3)) = 0
    BY <1>7, <2>2
  <2> QED
    BY <1>7, <2>2, <2>3, EmptySeq DEF Part
<1>13. Tail(in[e]) = CopyEncrypt(v)
  BY <1>6 DEF Answer, CopyEncrypt
<1>14. local'[i] = <<Unit("plain", v)>>
  <2>1. CopyDecrypt(Tail(Part(e, 3))) = <<Unit("plain", v)>>
    BY <1>8, <1>12, <1>13, DecryptEncrypt
  <2> QED
    BY <1>11, <2>1 DEF Types, TypeOK
<1>15. app'[i].at = "reading" /\ app'[i].todo = app[i].todo \ {j}
  <2>1. app \in [Nodes -> Calls] /\ app[i].todo \ {j} \in SUBSET Nodes
    BY DEF Types, TypeOK, Calls
  <2> QED
    BY <1>11, <2>1, GoEffect
<1>16. /\ in'[e] = <<>> /\ loop'[e] = "read"
       /\ \A k \in Ends : k # e => in'[k] = in[k] /\ loop'[k] = loop[k]
  <2> HIDE DEF e
  <2> QED
    BY <1>3, <1>11, <1>12
<1>17. RoundWith(i, j)'
  <2>1. Silent(<<>>, <<>>, <<>>, "read")
    BY DEF Silent, Without, HasGet, Quiet
  <2>2. in'[<<j, i>>] = <<>> /\ rpcs'[j] = <<>>
    BY <1>1, <1>3, <1>6, <1>16
  <2>3. Round(<<>>, <<>>, <<>>, "read", app'[i], last'[i], j)
    BY <2>1, SilentRound
  <2> QED
    BY <1>16, <2>2, <2>3 DEF RoundWith
<1>18. ASSUME NEW k \in peers[i], k # j PROVE RoundWith(i, k)'
  <2>1. <<i, k>> \in Ends /\ <<k, i>> \in Ends /\ <<i, k>> # e /\ <<k, i>> # e
    BY <1>2, <1>18, PeerEnds
  <2>2. RoundWith(i, k)
    BY <1>2 DEF AllRounds
  <2>3. Waits(app[i], k) => Waits(app'[i], k)
    BY <1>1, <1>15, <1>18 DEF Waits
  <2> QED
    BY <1>1, <1>16, <2>1, <2>2, <2>3, RoundFrame
<1>19. AllKept'
  BY <1>1, <1>2, <1>14 DEF AllKept, Kept
<1> QED
  BY <1>1, <1>2, <1>17, <1>18, <1>19 DEF AllRounds

(***************************************************************************)
(* A new connection carries nothing yet.                                   *)
(***************************************************************************)
LEMMA DialKeepsGets ==
  ASSUME OneCaller, Types, Connected, OnlyCallersCall, AllRounds, AllKept,
         NEW i \in Nodes, NEW j \in Nodes, i # j, Dial(i, j)
  PROVE  AllRounds' /\ AllKept'
<1>1. /\ j \notin peers[i]
      /\ loop' = [loop EXCEPT ![<<i, j>>] = "read", ![<<j, i>>] = "read"]
      /\ UNCHANGED <<life, in, rpcs, files, app, ops, last, told, got>>
  BY DEF Dial, ToDial
<1>2. /\ peers'[i] = peers[i] \cup {j} /\ peers'[j] = peers[j] \cup {i}
      /\ \A k \in Nodes : k # i /\ k # j => peers'[k] = peers[k]
  BY DEF Dial, OnPeer, Types, TypeOK
<1>3. <<i, j>> \in Ends /\ <<j, i>> \in Ends /\ i \notin peers[j]
  BY <1>1 DEF Ends, Connected, Mutual
<1>4. /\ loop'[<<i, j>>] = "read" /\ loop'[<<j, i>>] = "read"
      /\ \A e \in Ends : e # <<i, j>> /\ e # <<j, i>> => loop'[e] = loop[e]
  BY <1>1, <1>3 DEF Types, TypeOK
<1>5. ASSUME NEW a \in Callers, NEW k \in peers[a] PROVE RoundWith(a, k)'
  <2>1. a \in Nodes /\ k \in Nodes \ {a}
    BY CallersAssumption DEF Types, TypeOK, Connected, Mutual
  <2>2. <<a, k>> \in Ends /\ <<a, k>> # <<i, j>> /\ <<a, k>> # <<j, i>>
    BY <1>1, <1>3, <2>1 DEF Ends
  <2>3. loop'[<<a, k>>] = loop[<<a, k>>] /\ RoundWith(a, k)
    BY <1>4, <2>2 DEF AllRounds
  <2> QED
    BY <1>1, <2>3, RoundFrame
<1>6. ASSUME NEW a \in Callers, NEW k \in Nodes, {a, k} = {i, j} PROVE RoundWith(a, k)'
  <2>1. a \in Nodes /\ a # k /\ a \notin peers[k] /\ k \notin peers[a]
    BY <1>1, <1>3, <1>6, CallersAssumption
  <2>2. /\ <<a, k>> \in Ends /\ <<a, k>>[1] = a /\ <<a, k>>[2] = k
        /\ <<k, a>> \in Ends /\ <<k, a>>[1] = k /\ <<k, a>>[2] = a
    BY <2>1 DEF Ends
  <2>3. <<a, k>> = <<i, j>> \/ <<a, k>> = <<j, i>>
    BY <1>6
  <2>4. in[<<k, a>>] = <<>> /\ in[<<a, k>>] = <<>> /\ loop'[<<a, k>>] = "read"
    BY <1>4, <2>1, <2>2, <2>3 DEF Connected, Unused
  <2>5. ~HasGet(rpcs[k])
    <3>1. rpcs[k] \in Seq(Message(k))
      BY DEF Types
    <3>2. DOMAIN rpcs[k] = 1..Len(rpcs[k])
      BY <3>1, LenProperties
    <3>3. \A n \in 1..Len(rpcs[k]) : FALSE
      BY <2>1, <3>2 DEF OneCaller, OnlyCallersCall, FromCallers, Connected, Unused
    <3> QED
      BY <3>3 DEF HasGet
  <2>6. Silent(<<>>, rpcs[k], <<>>, "read")
    BY <2>5 DEF Silent, Without, Quiet
  <2>7. Round(<<>>, rpcs[k], <<>>, "read", app[a], last[a], k)
    BY <2>6, SilentRound
  <2> QED
    BY <1>1, <2>4, <2>7 DEF RoundWith
<1>7. \A a \in Callers : \A k \in peers'[a] : k \in peers[a] \/ (k \in Nodes /\ {a, k} = {i, j})
  BY <1>2, CallersAssumption
<1>8. AllKept'
  BY <1>1 DEF AllKept
<1> QED
  BY <1>5, <1>6, <1>7, <1>8 DEF AllRounds

LEMMA StopKeepsGets ==
  ASSUME AllRounds, AllKept,
         UNCHANGED <<peers, in, loop, rpcs, local, app, last, got>>
  PROVE  AllRounds' /\ AllKept'
BY RoundFrame DEF AllRounds, AllKept

(***************************************************************************)
(* With one caller, and while only joins and Stops happen, every peer is   *)
(* in one round at most and the caller's files are what it stored last.    *)
(***************************************************************************)
THEOREM FileServerGets ==
  ASSUME OneCaller
  PROVE  Spec => []Gets
<1>1. Init => Gets /\ ReadsPeers
  <2>1. Init => AllRounds
    BY CallersAssumption DEF Init, AllRounds
  <2>2. Init => AllKept
    BY CallersAssumption DEF Init, AllKept, Kept
  <2>3. Init => ReadsPeers
    BY DEF Init, ReadsPeers, Idle
  <2> QED
    BY <2>1, <2>2, <2>3 DEF Gets
<1>2. Types /\ Types' /\ Connected /\ Connected' /\ ReadsPeers /\ Protocol /\ Gets
        /\ [Next]_vars => Gets'
  <2> SUFFICES ASSUME Types, Types', Connected, Connected', ReadsPeers, Protocol, Gets,
                      [Next]_vars, Harmless'
               PROVE  AllRounds' /\ AllKept'
    BY DEF Gets
  <2>0. Harmless /\ AllRounds /\ AllKept /\ OnlyCallersCall /\ AllLinked
    <3>1. Harmless
      BY FaultsRemain DEF Harmless
    <3>2. happened \cap Lost = {}
      BY <3>1 DEF Harmless, Lost
    <3> QED
      BY <3>1, <3>2 DEF Gets, Protocol
  <2>1. CASE UNCHANGED vars
    <3>1. UNCHANGED <<peers, in, loop, rpcs, local, app, last, got>>
      BY <2>1 DEF vars
    <3> QED
      BY <2>0, <3>1, StopKeepsGets
  <2>2. ASSUME NEW i \in Nodes, Call(i) \/ Proceed(i) \/ Handle(i) \/ Stop(i) \/ Panic(i)
        PROVE  AllRounds' /\ AllKept'
    <3>1. CASE Call(i)
      BY <2>0, <3>1, StoreKeepsGets, GetKeepsGets, QuietCallKeepsGets DEF Call
    <3>2. CASE Proceed(i)
      <4>1. ~StreamFails(i)
        BY DEF StreamFails, Harmless
      <4> QED
        BY <2>0, <3>2, <4>1, StreamKeepsGets, QuietCallKeepsGets DEF Proceed
    <3>3. CASE Handle(i)
      BY <2>0, <3>3, HandleStoreKeepsGets, HandleGetKeepsGets DEF Handle
    <3>4. CASE Stop(i)
      <4>1. UNCHANGED <<peers, in, loop, rpcs, local, app, last, got>>
        BY <3>4 DEF Stop
      <4> QED
        BY <2>0, <4>1, StopKeepsGets
    <3>5. CASE Panic(i)
      <4>1. life'[i] = "dead"
        BY <3>5 DEF Panic, Types, TypeOK
      <4>2. life'[i] # "dead"
        BY DEF Connected, Blameless, Harmless
      <4> QED
        BY <4>1, <4>2
    <3> QED
      BY <2>2, <3>1, <3>2, <3>3, <3>4, <3>5
  <2>3. ASSUME NEW e \in Ends,
               ReadLoop(e) \/ GetStep(e[1], e[2]) \/ Dial(e[1], e[2]) \/ Drop(e[1], e[2])
        PROVE  AllRounds' /\ AllKept'
    <3>1. e[1] \in Nodes /\ e[2] \in Nodes /\ e[1] # e[2]
      BY DEF Ends
    <3>2. CASE ReadLoop(e)
      BY <2>0, <3>2, MarkerKeepsGets, PayloadKeepsGets, AddStreamKeepsGets DEF ReadLoop
    <3>3. CASE GetStep(e[1], e[2])
      BY <2>0, <3>1, <3>3, GetStepKeepsGets
    <3>4. CASE Dial(e[1], e[2])
      BY <2>0, <3>1, <3>4, DialKeepsGets
    <3>5. ~Drop(e[1], e[2])
      BY DEF Drop, Fault, Harmless
    <3> QED
      BY <2>3, <3>2, <3>3, <3>4, <3>5
  <2> QED
    BY <2>1, <2>2, <2>3 DEF Next
<1>3. Types /\ ReadsPeers /\ [Next]_vars => ReadsPeers'
  BY StepKeepsReadsPeers
<1> QED
  BY <1>1, <1>2, <1>3, FileServerTypes, FileServerConnected, FileServerProtocol, PTL DEF Spec

(***************************************************************************)
(* With one caller, a Get that succeeds returns what the last Store        *)
(* stored, from the local disk or decrypted from the last peer read, for   *)
(* any number of peers, of which some may join late or stop.               *)
(***************************************************************************)
THEOREM FileServerGetIsLastStored ==
  ASSUME OneCaller
  PROVE  Spec => []GetIsLastStored
<1>1. Gets => GetIsLastStored
  BY DEF Gets, Harmless, AllKept, Kept, GetIsLastStored
<1> QED
  BY <1>1, FileServerGets, PTL
=============================================================================
