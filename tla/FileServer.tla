----------------------------- MODULE FileServer -----------------------------
(***************************************************************************)
(* The peer-to-peer file store: FileServer (server.go) on top of           *)
(* TCPTransport and DefaultDecoder (p2p/) and the local Store and its      *)
(* AES-CTR copies (storage/).                                              *)
(*                                                                         *)
(* Every connection has a read loop at both ends.  A message is announced  *)
(* by one marker byte, a stream by another; the stream's bytes are then    *)
(* read by whoever handles the message, while the read loop waits on the   *)
(* peer's wait group until CloseStream.  Nothing on the wire says which    *)
(* bytes belong together: two sleeps and the order of reads do.            *)
(*                                                                         *)
(* Every node has one file of its own, known to the others by its ID and   *)
(* hashed key.  What one write sends is a unit; TCP keeps units in order.  *)
(* A read loop that has nothing else to do is blocked in Read and holds    *)
(* the connection's read lock, so that others read only while it is busy   *)
(* with a stream; the exceptions are faults below.  Disk errors are left   *)
(* out.                                                                    *)
(***************************************************************************)
EXTENDS Integers, Sequences, FiniteSets

CONSTANTS
  Nodes,     \* file servers
  Callers,   \* the nodes whose Store and Get are called
  Bootstrap, \* BootstrapNodes: whom each node dials
  Faults,    \* kinds of faults that may happen
  MaxFaults, \* bound: faults in one behaviour, each of another kind
  MaxOps     \* bound: calls

FaultKinds ==
  {"drop",     \* a connection breaks
   "overrun",  \* the Read of a message returns what was sent after it, too
   "first",    \* a handler reads before the read loop is back in Read
   "add",      \* a stream is finished before the read loop's wg.Add(1)
   "join",     \* a peer connects in the middle of a call
   "stop"}     \* Stop

ASSUME CallersAssumption == Callers \subseteq Nodes /\ IsFiniteSet(Nodes)
ASSUME BootstrapAssumption == Bootstrap \in [Nodes -> SUBSET Nodes]
(* Of two nodes at most one dials the other: every pair has one            *)
(* connection.                                                             *)
ASSUME OneWayAssumption ==
  \A i \in Nodes : \A j \in Bootstrap[i] : j # i /\ i \notin Bootstrap[j]
ASSUME FaultsAssumption == Faults \subseteq FaultKinds
ASSUME BoundsAssumption == MaxFaults \in Nat /\ MaxOps \in Nat

(* <<i, j>>: the end at i of its connection with j.                        *)
Ends == {e \in Nodes \X Nodes : e[1] # e[2]}

VARIABLES
  life,      \* "up", "stopped" (Stop was called) or "dead" (panic)
  peers,     \* FileServer.peers: never shrinks
  up,        \* connections that work: sets of two nodes
  in,        \* units sent to an end and not read there
  loop,      \* read loop: "off", "read", "payload", "took", "wait", "spin"
  rpcs,      \* rpcch of each node
  local,     \* each node's own file, in plain
  replica,   \* replica[j][i]: what j holds of i's file
  app,       \* the call under way at each node
  ops,       \* calls so far; numbers the contents stored
  last,      \* history: content of the last Store of each node
  told,      \* history: peers its STORE message was sent to
  got,       \* history: what a Get returned since the last Store, NoFile if none
  happened   \* history: faults so far, and "torn" for a Store that failed

net == <<life, peers, up>>
files == <<local, replica>>
history == <<last, told, got, happened>>
vars == <<net, in, loop, rpcs, files, app, ops, history>>

-----------------------------------------------------------------------------
Unit(k, v) == [kind |-> k, of |-> v]

IncomingMessage == Unit("message", 0)
IncomingStream == Unit("stream", 0)
MessageStoreFile == Unit("STORE", 0)
MessageGetFile == Unit("GET", 0)

(* CopyEncrypt: an IV, then the content.                                   *)
CopyEncrypt(v) == <<Unit("iv", v), Unit("cipher", v)>>

(* Mutant of StoreSize: the IV is not counted.                             *)
StoreSizeOfContent == 1

(* MessageStoreFile.Size: the content and 16 bytes of IV.                  *)
StoreSize == 2

(* CopyDecrypt: what follows the IV, which is of use only with its own IV. *)
CopyDecrypt(s) ==
  [n \in 1..(Len(s) - 1) |->
    IF s[1].kind = "iv" /\ s[n + 1] = Unit("cipher", s[1].of)
      THEN Unit("plain", s[1].of) ELSE Unit("junk", 0)]

NoFile == <<Unit("none", 0)>>

Idle == [at |-> "idle", todo |-> {}]

Init ==
  /\ life = [i \in Nodes |-> "up"]
  /\ peers = [i \in Nodes |-> {}]
  /\ up = {}
  /\ in = [e \in Ends |-> <<>>]
  /\ loop = [e \in Ends |-> "off"]
  /\ rpcs = [i \in Nodes |-> <<>>]
  /\ local = [i \in Nodes |-> NoFile]
  /\ replica = [j \in Nodes |-> [i \in Nodes |-> NoFile]]
  /\ app = [i \in Nodes |-> Idle]
  /\ ops = 0
  /\ last = [i \in Nodes |-> 0]
  /\ told = [i \in Nodes |-> {}]
  /\ got = [i \in Nodes |-> NoFile]
  /\ happened = {}

Works(i, j) == {i, j} \in up

Broken(i) == {j \in peers[i] : ~Works(i, j)}

(* Node i writes s[j] to every peer j; a broken connection loses it.       *)
Send(i, s) ==
  in' = [e \in Ends |-> IF e[2] = i /\ e[1] \in peers[i] /\ Works(e[1], i)
                          THEN in[e] \o s[e[1]] ELSE in[e]]

(* A fault of kind k happens, and is remembered.                           *)
Fault(k) ==
  /\ k \in Faults
  /\ Cardinality(happened) < MaxFaults
  /\ k \notin happened
  /\ happened' = happened \cup {k}

-----------------------------------------------------------------------------
(* Connections.                                                            *)

(* bootstrapNetwork: every address is dialled once.  Whom i dials does not *)
(* dial i, so those who are its peers are those it has dialled already.    *)
ToDial(i) == Bootstrap[i] \ peers[i]

(* OnPeer, at both ends.                                                   *)
OnPeer(i, j) == peers' = [peers EXCEPT ![i] = @ \cup {j}, ![j] = @ \cup {i}]

(* i dials j, which accepts: handleConn up to the read loop, at both ends. *)
Dial(i, j) ==
  /\ j \in ToDial(i)
  /\ life[i] = "up" /\ life[j] = "up"
  /\ up' = up \cup {{i, j}}
  /\ OnPeer(i, j)
  /\ loop' = [loop EXCEPT ![<<i, j>>] = "read", ![<<j, i>>] = "read"]
  /\ IF app[i] = Idle /\ app[j] = Idle THEN UNCHANGED happened ELSE Fault("join")
  /\ UNCHANGED <<life, in, rpcs, files, app, ops, last, told, got>>

(* A connection breaks; of what was under way a prefix arrives.            *)
Drop(i, j) ==
  /\ Works(i, j)
  /\ Fault("drop")
  /\ up' = up \ {{i, j}}
  /\ \E m \in 0..Len(in[<<i, j>>]), n \in 0..Len(in[<<j, i>>]) :
       in' = [in EXCEPT ![<<i, j>>] = SubSeq(@, 1, m), ![<<j, i>>] = SubSeq(@, 1, n)]
  /\ UNCHANGED <<life, peers, loop, rpcs, files, app, ops, last, told, got>>

(* Stop: no message is handled and no connection accepted any more; the    *)
(* read loops go on.                                                       *)
Stop(i) ==
  /\ life[i] = "up"
  /\ Fault("stop")
  /\ life' = [life EXCEPT ![i] = "stopped"]
  /\ UNCHANGED <<peers, up, in, loop, rpcs, files, app, ops, last, told, got>>

-----------------------------------------------------------------------------
(* The read loop at end e (handleConn, Decode).                            *)

(* The first byte.  That of a misplaced unit may look like either marker;  *)
(* the rest of the unit is taken to be lost with it.                       *)
DecodeMarker(e) ==
  /\ loop[e] = "read"
  /\ in[e] # <<>>
  /\ in' = [in EXCEPT ![e] = Tail(@)]
  /\ \E next \in {"took", "payload"} :
       /\ Head(in[e]) = IncomingStream => next = "took"
       /\ Head(in[e]) = IncomingMessage => next = "payload"
       /\ loop' = [loop EXCEPT ![e] = next]
  /\ UNCHANGED <<net, rpcs, files, app, ops, history>>

(* One Read for the message, and the RPC goes to rpcch; one that cannot be *)
(* decoded is only logged.  The Read returns the message and k units more. *)
DecodePayload(e) ==
  /\ loop[e] = "payload"
  /\ in[e] # <<>>
  /\ \E k \in 0..(Len(in[e]) - 1) :
       /\ IF k = 0 THEN UNCHANGED happened ELSE Fault("overrun")
       /\ in' = [in EXCEPT ![e] = SubSeq(@, k + 2, Len(@))]
  /\ rpcs' = IF Head(in[e]) \in {MessageStoreFile, MessageGetFile}
               THEN [rpcs EXCEPT ![e[1]] = Append(@, [from |-> e[2], msg |-> Head(in[e])])]
               ELSE rpcs
  /\ loop' = [loop EXCEPT ![e] = "read"]
  /\ UNCHANGED <<net, files, app, ops, last, told, got>>

(* peer.wg.Add(1), and the loop waits.                                     *)
AddStream(e) ==
  /\ loop[e] = "took"
  /\ loop' = [loop EXCEPT ![e] = "wait"]
  /\ UNCHANGED <<net, in, rpcs, files, app, ops, history>>

Ended(e) == in[e] = <<>> /\ ~Works(e[1], e[2])

(* A broken connection: the error of the first Read is swallowed and the   *)
(* loop spins; that of the second ends handleConn, which closes it.        *)
DecodeFails(e) ==
  /\ loop[e] \in {"read", "payload"}
  /\ Ended(e)
  /\ loop' = [loop EXCEPT ![e] = IF @ = "read" THEN "spin" ELSE "off"]
  /\ UNCHANGED <<net, in, rpcs, files, app, ops, history>>

(* Somebody other than the read loop can read n units at e, or up to the   *)
(* end of a broken connection.                                             *)
Readable(e, n) ==
  \/ loop[e] \in {"took", "wait"} /\ (Len(in[e]) >= n \/ ~Works(e[1], e[2]))
  \/ loop[e] \in {"spin", "off"}

Rest(e, n) == SubSeq(in[e], n + 1, Len(in[e]))
Part(e, n) == IF Len(in[e]) <= n THEN in[e] ELSE SubSeq(in[e], 1, n)

(* peer.CloseStream().                                                     *)
CloseStream(e) ==
  /\ loop[e] = "wait"
  /\ loop' = [loop EXCEPT ![e] = "read"]

-----------------------------------------------------------------------------
(* FileServer.loop: one message at a time.                                 *)

Handling(i, m) == life[i] = "up" /\ rpcs[i] # <<>> /\ Head(rpcs[i]).msg = m

Sender(i) == Head(rpcs[i]).from

(* Mutant of HandleMessageStoreFile: the stream is not closed.             *)
HandleMessageStoreFileUnclosed(i) ==
  LET e == <<i, Sender(i)>>
  IN  /\ Handling(i, MessageStoreFile)
      /\ Readable(e, StoreSize)
      /\ replica' = [replica EXCEPT ![i][Sender(i)] = Part(e, StoreSize)]
      /\ in' = [in EXCEPT ![e] = Rest(e, StoreSize)]
      /\ rpcs' = [rpcs EXCEPT ![i] = Tail(@)]
      /\ UNCHANGED <<net, loop, local, app, ops, history>>

(* handleMessageStoreFile: Store.Write reads Size bytes, or what there is  *)
(* before the connection ends.  That is no error, and the stream is        *)
(* closed; when the connection was reset, or closed at this end, it is     *)
(* one, and the stream is not.                                             *)
HandleMessageStoreFile(i) ==
  LET e == <<i, Sender(i)>>
  IN  /\ Handling(i, MessageStoreFile)
      /\ Readable(e, StoreSize)
      /\ replica' = [replica EXCEPT ![i][Sender(i)] = Part(e, StoreSize)]
      /\ in' = [in EXCEPT ![e] = Rest(e, StoreSize)]
      /\ rpcs' = [rpcs EXCEPT ![i] = Tail(@)]
      /\ CloseStream(e) \/ (Len(in[e]) < StoreSize /\ UNCHANGED loop)
      /\ UNCHANGED <<net, local, app, ops, history>>

(* Mutant of HandleMessageGetFile: the size counts the marker.             *)
HandleMessageGetFileLong(i) ==
  LET f == replica[i][Sender(i)]
  IN  /\ Handling(i, MessageGetFile)
      /\ Send(i, [j \in Nodes |->
           IF j = Sender(i) /\ f # NoFile
             THEN <<IncomingStream, Unit("size", Len(f) + 1)>> \o f ELSE <<>>])
      /\ rpcs' = [rpcs EXCEPT ![i] = Tail(@)]
      /\ UNCHANGED <<net, loop, files, app, ops, history>>

(* handleMessageGetFile: nothing is sent when there is no such file.       *)
HandleMessageGetFile(i) ==
  LET f == replica[i][Sender(i)]
  IN  /\ Handling(i, MessageGetFile)
      /\ Send(i, [j \in Nodes |->
           IF j = Sender(i) /\ f # NoFile
             THEN <<IncomingStream, Unit("size", Len(f))>> \o f ELSE <<>>])
      /\ rpcs' = [rpcs EXCEPT ![i] = Tail(@)]
      /\ UNCHANGED <<net, loop, files, app, ops, history>>

-----------------------------------------------------------------------------
(* Store and Get.                                                          *)

(* After these the units of a connection may be out of step for good.      *)
Lost == {"torn", "overrun", "first", "add"}

(* Bound: nothing is claimed of calls made after that, and none is made; a *)
(* node makes one call at a time.                                          *)
Begin(i) ==
  /\ i \in Callers
  /\ happened \cap Lost = {}
  /\ life[i] # "dead"
  /\ app[i] = Idle
  /\ ops < MaxOps
  /\ ops' = ops + 1

Go(i, place, todo) == app' = [app EXCEPT ![i] = [at |-> place, todo |-> todo]]

(* broadcast: every peer is sent the message ...                           *)
Broadcast(i, m) == Send(i, [j \in Nodes |-> <<IncomingMessage, m>>])

(* ... unless Send fails at a broken connection: in the order of the map,  *)
(* some peers were sent it before that.                                    *)
BroadcastFails(i, m) ==
  \E j \in Broken(i) : \E before \in SUBSET (peers[i] \ {j}) :
    Send(i, [p \in Nodes |-> IF p \in before THEN <<IncomingMessage, m>> ELSE <<>>])

(* Store: the local file is written, then the peers are told.              *)
Store(i) ==
  /\ Begin(i)
  /\ local' = [local EXCEPT ![i] = <<Unit("plain", ops + 1)>>]
  /\ last' = [last EXCEPT ![i] = ops + 1]
  /\ told' = [told EXCEPT ![i] = peers[i]]
  /\ got' = [got EXCEPT ![i] = NoFile]
  /\ \/ /\ Broadcast(i, MessageStoreFile)
        /\ Go(i, "announced", {})
        /\ UNCHANGED happened
     \/ /\ BroadcastFails(i, MessageStoreFile)
        /\ Go(i, "idle", {})
        /\ happened' = happened \cup {"torn"}
  /\ UNCHANGED <<net, loop, rpcs, replica>>

(* 5 ms later: the stream goes to all who are peers by now.                *)
Stream(i) ==
  /\ app[i].at = "announced"
  /\ Send(i, [j \in Nodes |-> <<IncomingStream>> \o CopyEncrypt(last[i])])
  /\ Go(i, "idle", {})
  /\ UNCHANGED <<net, loop, rpcs, files, ops, history>>

(* MultiWriter gives up at the first writer that fails: those before it    *)
(* have the unit, those behind it do not.  Store ignores that of the       *)
(* marker, and fails at the same writer with the IV.                       *)
StreamFails(i) ==
  LET units == <<IncomingStream>> \o CopyEncrypt(last[i])
  IN  /\ app[i].at = "announced"
      /\ \E j \in Broken(i) : \E before \in SUBSET (peers[i] \ {j}), n \in 1..Len(units) :
           Send(i, [p \in Nodes |->
             SubSeq(units, 1, IF p \notin before THEN n - 1 ELSE IF n = 1 THEN 2 ELSE n)])
      /\ Go(i, "idle", {})
      /\ happened' = happened \cup {"torn"}
      /\ UNCHANGED <<net, loop, rpcs, files, ops, last, told, got>>

(* Store.Delete of the node's own file.                                    *)
Delete(i) ==
  /\ Begin(i)
  /\ local[i] # NoFile
  /\ local' = [local EXCEPT ![i] = NoFile]
  /\ UNCHANGED <<net, in, loop, rpcs, replica, app, history>>

(* Get of a file that is on the local disk.                                *)
GetLocal(i) ==
  /\ Begin(i)
  /\ local[i] # NoFile
  /\ got' = [got EXCEPT ![i] = local[i]]
  /\ UNCHANGED <<net, in, loop, rpcs, files, app, last, told, happened>>

(* Get of one that is not: the peers are asked.                            *)
Get(i) ==
  /\ Begin(i)
  /\ local[i] = NoFile
  /\ \/ Broadcast(i, MessageGetFile) /\ Go(i, "asked", {})
     \/ BroadcastFails(i, MessageGetFile) /\ UNCHANGED app
  /\ UNCHANGED <<net, loop, rpcs, files, history>>

(* 500 ms later: all who are peers by now are read from, in any order.     *)
GetRange(i) ==
  /\ app[i].at = "asked"
  /\ Go(i, "reading", peers[i])
  /\ UNCHANGED <<net, in, loop, rpcs, files, ops, history>>

(* The file size as read at e; 0 when the connection ended, anything when  *)
(* what is read is no size.                                                *)
FileSizes(e) ==
  IF in[e] = <<>> THEN {0}
  ELSE IF Head(in[e]).kind = "size" THEN {Head(in[e]).of} ELSE 0..StoreSize

(* Mutant of GetFrom: what one peer sent is added to the others'.          *)
GetFromAppending(i, j) ==
  LET e == <<i, j>>
  IN  /\ app[i].at = "reading" /\ j \in app[i].todo
      /\ \E n \in FileSizes(e) :
           /\ Readable(e, n + 1)
           /\ Len(in[e]) > 1 /\ n > 0
           /\ in' = [in EXCEPT ![e] = Rest(e, n + 1)]
           /\ local' = [local EXCEPT ![i] =
                (IF @ = NoFile THEN <<>> ELSE @) \o CopyDecrypt(Tail(Part(e, n + 1)))]
           /\ CloseStream(e)
           /\ Go(i, "reading", app[i].todo \ {j})
      /\ UNCHANGED <<net, rpcs, replica, ops, history>>

(* The size, then WriteDecrypt: the local file is created anew, and filled *)
(* with what follows the IV.  Any peer that can be read is next, whereas   *)
(* the code picks one and blocks on it: the same when each of them answers *)
(* or is cut off, which is the case GetReturns is about.                   *)
GetFrom(i, j) ==
  LET e == <<i, j>>
  IN  /\ app[i].at = "reading" /\ j \in app[i].todo
      /\ \E n \in FileSizes(e) :
           /\ Readable(e, n + 1)
           /\ Len(in[e]) > 1 /\ n > 0
           /\ in' = [in EXCEPT ![e] = Rest(e, n + 1)]
           /\ local' = [local EXCEPT ![i] = CopyDecrypt(Tail(Part(e, n + 1)))]
           /\ CloseStream(e)
           /\ Go(i, "reading", app[i].todo \ {j})
      /\ UNCHANGED <<net, rpcs, replica, ops, history>>

(* Not even an IV: Get fails, and leaves an empty file behind.             *)
GetFails(i, j) ==
  LET e == <<i, j>>
  IN  /\ app[i].at = "reading" /\ j \in app[i].todo
      /\ \E n \in FileSizes(e) :
           /\ Readable(e, n + 1)
           /\ Len(in[e]) <= 1 \/ n = 0
           /\ in' = [in EXCEPT ![e] = Rest(e, 1)]
      /\ local' = [local EXCEPT ![i] = <<>>]
      /\ Go(i, "idle", {})
      /\ UNCHANGED <<net, loop, rpcs, replica, ops, history>>

(* Store.Read of what the last peer sent, if there was one.                *)
GetReturn(i) ==
  /\ app[i].at = "reading" /\ app[i].todo = {}
  /\ got' = IF local[i] = NoFile THEN got ELSE [got EXCEPT ![i] = local[i]]
  /\ Go(i, "idle", {})
  /\ UNCHANGED <<net, in, loop, rpcs, files, ops, last, told, happened>>

-----------------------------------------------------------------------------
(* A wait group counter below zero panics, and the process is gone:        *)
(* CloseStream came before the read loop's Add, or after a stream whose    *)
(* marker never came (the connection broke first) or was read by the       *)
(* handler itself.  Its disk is not read any more.                          *)
ClosesEarly(e) ==
  /\ \/ /\ Handling(e[1], MessageStoreFile) /\ Sender(e[1]) = e[2]
        /\ Readable(e, StoreSize)
     \/ /\ app[e[1]].at = "reading" /\ e[2] \in app[e[1]].todo
        /\ Len(in[e]) > 1 /\ \E n \in FileSizes(e) \ {0} : Readable(e, n + 1)
  /\ \/ loop[e] = "took" /\ Fault("add")
     \/ loop[e] = "spin" /\ UNCHANGED happened

ReadsMarker(e) ==
  /\ Handling(e[1], MessageStoreFile) /\ Sender(e[1]) = e[2]
  /\ loop[e] = "read"
  /\ Len(in[e]) >= StoreSize /\ Head(in[e]) = IncomingStream
  /\ Fault("first")

Panic(i) ==
  /\ \E j \in Nodes \ {i} : ClosesEarly(<<i, j>>) \/ ReadsMarker(<<i, j>>)
  /\ life' = [life EXCEPT ![i] = "dead"]
  /\ up' = {c \in up : i \notin c}
  /\ loop' = [e \in Ends |-> IF e[1] = i THEN "off" ELSE loop[e]]
  /\ rpcs' = [rpcs EXCEPT ![i] = <<>>]
  /\ app' = [app EXCEPT ![i] = Idle]
  /\ UNCHANGED <<peers, in, files, ops, last, told, got>>

-----------------------------------------------------------------------------
Call(i) == Store(i) \/ Delete(i) \/ GetLocal(i) \/ Get(i)

Proceed(i) == Stream(i) \/ StreamFails(i) \/ GetRange(i) \/ GetReturn(i)

GetStep(i, j) == GetFrom(i, j) \/ GetFails(i, j)

ReadLoop(e) == DecodeMarker(e) \/ DecodePayload(e) \/ AddStream(e) \/ DecodeFails(e)

Handle(i) == HandleMessageStoreFile(i) \/ HandleMessageGetFile(i)

Next ==
  \/ \E i \in Nodes : Call(i) \/ Proceed(i) \/ Handle(i) \/ Stop(i) \/ Panic(i)
  \/ \E e \in Ends :
       ReadLoop(e) \/ GetStep(e[1], e[2]) \/ Dial(e[1], e[2]) \/ Drop(e[1], e[2])

(* Goroutines run when they can, and TCP delivers.                         *)
Fairness ==
  /\ \A i \in Nodes : WF_vars(Proceed(i)) /\ WF_vars(Handle(i))
  /\ \A e \in Ends : WF_vars(ReadLoop(e)) /\ WF_vars(GetStep(e[1], e[2]))

Spec == Init /\ [][Next]_vars /\ Fairness

-----------------------------------------------------------------------------
Units ==
  [kind: {"message", "stream", "STORE", "GET", "junk", "none"}, of: {0}]
    \cup [kind: {"iv", "cipher", "plain"}, of: 1..MaxOps]
    \cup [kind: {"size"}, of: 0..StoreSize]

TypeOK ==
  /\ life \in [Nodes -> {"up", "stopped", "dead"}]
  /\ peers \in [Nodes -> SUBSET Nodes]
  /\ up \subseteq {{e[1], e[2]} : e \in Ends}
  /\ in \in [Ends -> Seq(Units)]
  /\ loop \in [Ends -> {"off", "read", "payload", "took", "wait", "spin"}]
  /\ rpcs \in [Nodes -> Seq([from: Nodes, msg: {MessageStoreFile, MessageGetFile}])]
  /\ local \in [Nodes -> Seq(Units)]
  /\ replica \in [Nodes -> [Nodes -> Seq(Units)]]
  /\ app \in [Nodes -> [at: {"idle", "announced", "asked", "reading"}, todo: SUBSET Nodes]]
  /\ ops \in 0..MaxOps
  /\ last \in [Nodes -> 0..MaxOps]
  /\ told \in [Nodes -> SUBSET Nodes]
  /\ got \in [Nodes -> Seq(Units)]
  /\ happened \subseteq FaultKinds \cup {"torn"}

(* What i sent to j has been read and handled.                             *)
Settled(i, j) ==
  /\ app[i].at # "announced"
  /\ in[<<j, i>>] = <<>>
  /\ \A n \in DOMAIN rpcs[j] : rpcs[j][n].from # i

(***************************************************************************)
(* "streams the AES-encrypted bytes to them so they hold a replica too":   *)
(* once what a Store sent is handled, every peer it told holds exactly     *)
(* what was stored last, however many Stores and Gets overlap in the       *)
(* read loops and queues and whichever other connections broke.  Without   *)
(* any fault nobody panics.                                                *)
(***************************************************************************)
ReplicaExact ==
  /\ happened \subseteq {"drop"} =>
       \A i \in Callers : \A j \in told[i] :
         Works(i, j) /\ Settled(i, j) => replica[j][i] = CopyEncrypt(last[i])
  /\ happened = {} => \A i \in Nodes : life[i] = "up"

(***************************************************************************)
(* A Get that succeeds returns what the last Store stored, from the local  *)
(* disk or decrypted from the last peer read; peers that join late or stop *)
(* make no difference.                                                     *)
(***************************************************************************)
GetIsLastStored ==
  happened \subseteq {"join", "stop"} =>
    \A i \in Callers : got[i] # NoFile => got[i] = <<Unit("plain", last[i])>>

Getting(i) == app[i].at \in {"asked", "reading"}

(***************************************************************************)
(* A Get does not keep hanging when every peer that is still connected has *)
(* the file, whatever connections break meanwhile.                         *)
(***************************************************************************)
GetReturns ==
  \A i \in Callers :
    []<>~(/\ Getting(i)
          /\ happened \subseteq {"drop"}
          /\ \A j \in peers[i] : Works(i, j) => replica[j][i] # NoFile)

(***************************************************************************)
(* Get "reads back the encrypted bytes from whichever peer responds": it   *)
(* is enough that one connected peer has the file.                         *)
(***************************************************************************)
AnyPeerIsEnough ==
  \A i \in Callers :
    []<>~(Getting(i) /\ \E j \in peers[i] : Works(i, j) /\ replica[j][i] # NoFile)
=============================================================================
