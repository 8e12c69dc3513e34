--------------------------- MODULE PoolOpsProofs ---------------------------
(***************************************************************************)
(* Proofs about PoolOps for every set of clients, processes, names and     *)
(* labels, every number of chunks and every bound on the requests.         *)
(***************************************************************************)
EXTENDS PoolOps, FiniteSetTheorems, WellFoundedInduction, TLAPS

-----------------------------------------------------------------------------
(* Requests by their shape.                                                *)

Answers == {"none", "ok", "error", "refused", "panic"}
PutPlaces == {"upload", "failing", "create", "record", "cleanup"}

EndReq == [at: {"idle"}, ans: Answers]
GotReq == [at: {"idle"}, ans: {"ok"}, got: SUBSET Object]
PurgedReq == [at: {"idle"}, ans: {"ok"}, purged: 1..MaxOps, skipped: BOOLEAN]
PutReq == [at: PutPlaces, name: Names, gen: 1..MaxOps, cand: SUBSET Ids,
           idx: 0..NumChunks, up: SUBSET Object, ans: {"none"}]
ListReq == [at: {"get list", "purge list"}, name: Names, gen: 1..MaxOps, ans: {"none"}]
GetReq == [at: {"get"}, name: Names, gen: 1..MaxOps, list: SUBSET Object,
           got: SUBSET Object, ans: {"none"}]
PurgeReq == [at: {"purge"}, name: Names, gen: 1..MaxOps, list: SUBSET Object,
             folders: SUBSET Ids, skipped: BOOLEAN, ans: {"none"}]
DisconnectReq == [at: {"count", "deregister", "forget"}, label: Labels, id: Ids,
                  force: BOOLEAN, ans: {"none"}]
RegisterReq == [at: {"register"}, label: Labels, ans: {"none"}]
RememberReq == [at: {"remember"}, id: Ids, ans: {"none"}]
StatusReq == [at: {"status"}, ids: SUBSET Ids, ans: {"none"}]

Request ==
  EndReq \cup GotReq \cup PurgedReq \cup PutReq \cup ListReq \cup GetReq \cup PurgeReq
    \cup DisconnectReq \cup RegisterReq \cup RememberReq \cup StatusReq

Registering == {c \in Clients : At(c, "register")}

(***************************************************************************)
(* Types, and what bounds the counters: every generation and every         *)
(* registration is paid for by a request.                                  *)
(***************************************************************************)
Typed ==
  /\ TypeOK
  /\ req \in [Clients -> Request]
  /\ gens <= started
  /\ IsFiniteSet(Registering)
  /\ \A l \in Labels :
       /\ accounts[l] <= regs[l]
       /\ regs[l] + Cardinality(Registering) <= started + 1

-----------------------------------------------------------------------------
(* Accounts that have been registered; a disconnect is forever.            *)
Issued == {a \in Ids : a[2] <= regs[a[1]]}

Lasting == Issued \subseteq Issued' /\ Disconnected \subseteq Disconnected'

Putting(c) == req[c].at \in PutPlaces

(***************************************************************************)
(* What an upload has stored so far is its own, one object for each index, *)
(* and is still there unless its file is being purged.                     *)
(***************************************************************************)
Stored(c) ==
  Putting(c) =>
    /\ req[c].gen <= gens
    /\ \A o \in req[c].up : o.gen = req[c].gen /\ o.acc \in Ids
    /\ \A o, p \in req[c].up : o.idx = p.idx => o = p
    /\ \A o \in req[c].up, p \in remote : p.gen = o.gen /\ p.idx = o.idx => p = o
    /\ req[c].gen \notin purging => req[c].up \subseteq remote
    /\ req[c].cand \subseteq Mem(c) \cup Disconnected

(* Nobody else has heard of an upload that is not recorded yet.            *)
Private(c) ==
  At(c, "upload") \/ At(c, "failing") \/ At(c, "create") \/ At(c, "cleanup") =>
    /\ req[c].gen \notin purging
    /\ \A n \in Names : files[n].gen # req[c].gen
    /\ \A r \in rows : r.gen # req[c].gen

(* The chunks are stored in order, and all of them before the first row.   *)
InOrder(c) ==
  /\ Uploading(c) =>
       /\ req[c].idx < NumChunks
       /\ \A o \in req[c].up : o.idx <= req[c].idx
       /\ \A p \in remote : p.gen = req[c].gen => p.idx <= req[c].idx
  /\ At(c, "upload") => \A i \in 1..req[c].idx : \E o \in req[c].up : o.idx = i
  /\ At(c, "create") => \A i \in 1..NumChunks : \E o \in req[c].up : o.idx = i

(***************************************************************************)
(* While rows are recorded, rows and what is left to record make up the    *)
(* file, as long as the file is there; only a Remove can take it away.     *)
(***************************************************************************)
Recording(c) ==
  At(c, "record") =>
    /\ \A n \in Names : files[n].gen = req[c].gen => n = req[c].name
    /\ req[c].name \notin removing => files[req[c].name].gen = req[c].gen
    /\ \A o \in req[c].up, r \in rows : r.gen = req[c].gen => r.idx # o.idx
    /\ files[req[c].name].gen = req[c].gen =>
         \A i \in 1..NumChunks :
           (\E o \in req[c].up : o.idx = i) \/ (\E r \in rows : r.gen = req[c].gen /\ r.idx = i)

(* A download has one row for each index, all of one file.                 *)
Getting(c) ==
  At(c, "get") =>
    /\ \A o \in req[c].list \cup req[c].got : o.gen = req[c].gen
    /\ \A o, p \in req[c].list \cup req[c].got : o.idx = p.idx => o = p

(***************************************************************************)
(* A purge is known by name and generation.  One that skipped nothing has  *)
(* every object that is left still on its list.                            *)
(***************************************************************************)
Purging(c) ==
  /\ At(c, "purge list") \/ At(c, "purge") =>
       req[c].gen \in purging /\ req[c].name \in removing
  /\ At(c, "purge") =>
       /\ \A o \in req[c].list : o.gen = req[c].gen
       /\ req[c].folders \subseteq Mem(c) \cup Disconnected
       /\ ~req[c].skipped =>
            \A o \in remote : o.gen = req[c].gen =>
              \E r \in req[c].list : r.idx = o.idx /\ r.acc \in {o.acc, Null}

(* One that has ended without skipping anything has left nothing.          *)
Gone(c) ==
  req[c] \in PurgedReq =>
    /\ req[c].purged \in purging
    /\ ~req[c].skipped => \A o \in remote : o.gen # req[c].purged

(* A download that has ended returned one upload, all of it.               *)
Whole(c) ==
  req[c] \in GotReq =>
    \E g \in 1..MaxOps : /\ \A o \in req[c].got : o.gen = g
                        /\ \A i \in 1..NumChunks : \E o \in req[c].got : o.idx = i

(* An account is forgotten after it was deregistered.                      *)
Disconnecting(c) ==
  req[c] \in DisconnectReq =>
    /\ req[c].id \in Issued /\ req[c].id[1] = req[c].label
    /\ At(c, "forget") => req[c].id \in Disconnected

(* One generation, one upload.                                             *)
Distinct ==
  \A c, d \in Clients : c # d /\ Putting(c) /\ Putting(d) => req[c].gen # req[d].gen

(***************************************************************************)
(* The tables against each other, against Drive and against the purges.    *)
(***************************************************************************)
Known ==
  /\ \A n \in Names : files[n].gen <= gens
  /\ \A r \in rows \cup remote : r.gen <= gens
  /\ purging \subseteq 1..gens

OneName == \A n, m \in Names : files[n].gen # 0 /\ files[n].gen = files[m].gen => n = m

RowsHaveFiles == \A r \in rows : \E n \in Names : files[n].gen = r.gen

OneRow == \A r, s \in rows : r.gen = s.gen /\ r.idx = s.idx => r = s

RowsMatch ==
  \A r \in rows, o \in remote : r.gen = o.gen /\ r.idx = o.idx => r.acc \in {o.acc, Null}

NullsTaken ==
  \A r \in rows, o \in remote :
    r.gen = o.gen /\ r.idx = o.idx /\ r.acc = Null => o.acc \in Disconnected

PurgesAsked == \A n \in Names : files[n].gen \in purging => n \in removing

AckedKept ==
  \A f \in acked :
    /\ f.name \in Names /\ f.gen \in 1..MaxOps
    /\ f.name \notin removing => files[f.name] = [gen |-> f.gen, status |-> "complete"]

ClientOK(c) ==
  /\ Stored(c) /\ Private(c) /\ InOrder(c) /\ Recording(c)
  /\ Getting(c) /\ Purging(c) /\ Disconnecting(c) /\ Gone(c) /\ Whole(c)

Tables ==
  /\ Known /\ OneName /\ RowsHaveFiles /\ OneRow /\ RowsMatch /\ NullsTaken
  /\ PurgesAsked /\ AckedKept /\ CompleteHasAllRows /\ RowsPointSomewhere

OInv == Typed /\ (\A c \in Clients : ClientOK(c)) /\ Distinct /\ Tables

-----------------------------------------------------------------------------
(***************************************************************************)
(* The shape of a request follows from its place.                          *)
(***************************************************************************)
LEMMA Shapes ==
  ASSUME req \in [Clients -> Request], NEW c \in Clients
  PROVE  /\ At(c, "idle") => req[c] \in EndReq \cup GotReq \cup PurgedReq
         /\ Putting(c) => req[c] \in PutReq
         /\ At(c, "get list") \/ At(c, "purge list") => req[c] \in ListReq
         /\ At(c, "get") => req[c] \in GetReq
         /\ At(c, "purge") => req[c] \in PurgeReq
         /\ At(c, "count") \/ At(c, "deregister") \/ At(c, "forget") => req[c] \in DisconnectReq
         /\ At(c, "register") => req[c] \in RegisterReq
         /\ At(c, "remember") => req[c] \in RememberReq
         /\ At(c, "status") => req[c] \in StatusReq
  <1> DEFINE q == req[c]
  <1>1. q \in Request
    OBVIOUS
  <1>2. q \in EndReq \cup GotReq \cup PurgedReq => q.at = "idle"
    BY DEF EndReq, GotReq, PurgedReq
  <1>3. /\ q \in PutReq => q.at \in PutPlaces
        /\ q \in ListReq => q.at \in {"get list", "purge list"}
        /\ q \in GetReq => q.at = "get"
        /\ q \in PurgeReq => q.at = "purge"
    BY DEF PutReq, ListReq, GetReq, PurgeReq
  <1>4. /\ q \in DisconnectReq => q.at \in {"count", "deregister", "forget"}
        /\ q \in RegisterReq => q.at = "register"
        /\ q \in RememberReq => q.at = "remember"
        /\ q \in StatusReq => q.at = "status"
    BY DEF DisconnectReq, RegisterReq, RememberReq, StatusReq
  <1> QED BY <1>1, <1>2, <1>3, <1>4 DEF Request, PutPlaces, Putting, At

(***************************************************************************)
(* A request at one of these places has nothing to keep.                   *)
(***************************************************************************)
LEMMA PlainOK ==
  ASSUME NEW c \in Clients,
         req'[c] \in EndReq \cup RegisterReq \cup RememberReq \cup StatusReq
           \/ (req'[c] \in ListReq /\ req'[c].at = "get list")
  PROVE  ClientOK(c)'
  <1> USE DEF EndReq, RegisterReq, RememberReq, StatusReq, ListReq, At
  <1>1. req'[c].at \in {"idle", "register", "remember", "status", "get list"}
    OBVIOUS
  <1>2. req'[c].at # "idle" \/ req'[c] \in EndReq
    OBVIOUS
  <1>3. req'[c] \notin PurgedReq /\ req'[c] \notin GotReq
    <2>1. req'[c] \in EndReq => "purged" \notin DOMAIN req'[c] /\ "got" \notin DOMAIN req'[c]
      OBVIOUS
    <2>2. /\ req'[c] \in PurgedReq => "purged" \in DOMAIN req'[c]
          /\ req'[c] \in GotReq => "got" \in DOMAIN req'[c]
      BY DEF PurgedReq, GotReq
    <2>3. req'[c] \in PurgedReq \cup GotReq => req'[c].at = "idle"
      BY DEF PurgedReq, GotReq
    <2> QED BY <1>2, <2>1, <2>2, <2>3
  <1>4. req'[c] \notin DisconnectReq
    BY DEF DisconnectReq
  <1> HIDE DEF EndReq, RegisterReq, RememberReq, StatusReq, ListReq
  <1> QED BY <1>1, <1>3, <1>4 DEF ClientOK, Stored, Private, InOrder, Recording, Getting,
          Purging, Disconnecting, Gone, Whole, Putting, PutPlaces, Uploading

LEMMA NullIsNoId == Null \notin Ids
  BY DEF Null, Ids, Id

LEMMA SameObject ==
  ASSUME NEW o \in Object, NEW p \in Object, o.gen = p.gen, o.idx = p.idx, o.acc = p.acc
  PROVE  o = p
  BY DEF Object

(***************************************************************************)
(* The next row of a list is one of the list.                              *)
(***************************************************************************)
LEMMA FirstIsOne ==
  ASSUME NEW list \in SUBSET Object, list # {}
  PROVE  First(list) \in list
  <1> DEFINE T == {r.idx : r \in list}
             R == OpToRel(<, Nat)
  <1>1. T \subseteq Nat /\ T # {}
    BY NumChunksAssumption DEF Object
  <1>2. \A y, x \in Nat : y < x => <<y, x>> \in R
    BY DEF OpToRel
  <1>3. IsWellFoundedOn(R, Nat)
    BY NatLessThanWellFounded
  <1> HIDE DEF R
  <1>4. PICK x \in T : \A y \in T : ~(<<y, x>> \in R)
    <2> HIDE DEF T
    <2> QED BY <1>1, <1>3, WFMin
  <1>5. ASSUME NEW y \in T PROVE x <= y
    <2> HIDE DEF T
    <2>1. x \in Nat /\ y \in Nat
      BY <1>1
    <2>2. ~(y < x)
      BY <2>1, <1>2, <1>4
    <2> QED BY <2>1, <2>2
  <1>6. PICK r \in list : r.idx = x
    OBVIOUS
  <1>7. \A t \in list : r.idx <= t.idx
    BY <1>5, <1>6
  <1> QED BY <1>7 DEF First

-----------------------------------------------------------------------------
(* Frames: what the steps of others leave alone.                           *)

(***************************************************************************)
(* A request keeps what it relies on through a step of another one that    *)
(* stores and deletes no object of its file (but for a file that is being  *)
(* purged), takes no account from its Pool that is not disconnected, and   *)
(* keeps what the tables say of an upload.                                 *)
(***************************************************************************)
LEMMA OthersKept ==
  ASSUME NEW d \in Clients, ClientOK(d), req \in [Clients -> Request], req'[d] = req[d],
         gens \in Nat, gens' \in Nat, gens <= gens',
         purging \subseteq purging', removing \subseteq removing',
         Lasting, Mem(d) \subseteq Mem(d)' \cup Disconnected',
         \A o \in remote' : o \in remote
                            \/ (o.gen \notin purging /\ (Putting(d) => o.gen # req[d].gen)),
         \A o \in remote : Putting(d) /\ o.gen = req[d].gen /\ o.gen \notin purging'
                           => o \in remote',
         Private(d)', Recording(d)'
  PROVE  ClientOK(d)'
  <1> USE DEF At
  <1>0. Putting(d) => req[d].gen \in Nat
    <2>1. Putting(d) => req[d] \in PutReq
      BY Shapes
    <2> QED BY <2>1, MaxOpsAssumption DEF PutReq
  <1>1. Stored(d)'
    <2> SUFFICES ASSUME Putting(d) PROVE Stored(d)'
      BY DEF Stored, Putting
    <2>1. Stored(d) /\ req[d].gen \in Nat
      BY <1>0 DEF ClientOK
    <2>2. \A o \in req[d].up, p \in remote' : p.gen = o.gen /\ p.idx = o.idx => p = o
      BY <2>1 DEF Stored
    <2>3. req[d].gen \notin purging' => req[d].up \subseteq remote'
      BY <2>1 DEF Stored
    <2>4. req[d].cand \subseteq (Mem(d) \cup Disconnected)'
      BY <2>1 DEF Stored, Lasting
    <2> QED BY <2>1, <2>2, <2>3, <2>4 DEF Stored
  <1>2. InOrder(d)'
    BY DEF InOrder, ClientOK, Putting, PutPlaces, Uploading
  <1>3. Getting(d)'
    BY DEF Getting, ClientOK
  <1>4. Purging(d)'
    <2>1. At(d, "purge list") \/ At(d, "purge") =>
            req[d].gen \in purging' /\ req[d].name \in removing' /\ req[d].gen \in purging
      BY DEF Purging, ClientOK
    <2> SUFFICES ASSUME At(d, "purge") PROVE Purging(d)'
      BY <2>1 DEF Purging
    <2>2. \A o \in req[d].list : o.gen = req[d].gen
      BY DEF Purging, ClientOK
    <2>3. req[d].folders \subseteq (Mem(d) \cup Disconnected)'
      BY DEF Purging, ClientOK, Lasting
    <2>4. ~req[d].skipped =>
            \A o \in remote' : o.gen = req[d].gen =>
              \E r \in req[d].list : r.idx = o.idx /\ r.acc \in {o.acc, Null}
      BY <2>1 DEF Purging, ClientOK
    <2> QED BY <2>1, <2>2, <2>3, <2>4 DEF Purging
  <1>5. Disconnecting(d)' /\ Whole(d)'
    BY DEF Disconnecting, Whole, ClientOK, Lasting
  <1>6. Gone(d)'
    BY DEF Gone, ClientOK
  <1> QED BY <1>1, <1>2, <1>3, <1>4, <1>5, <1>6 DEF ClientOK

(***************************************************************************)
(* The tables say the same of an upload when no row and no generation of a *)
(* file changes and no purge looks its file up.                            *)
(***************************************************************************)
LEMMA UploadKept ==
  ASSUME NEW d \in Clients, ClientOK(d), req \in [Clients -> Request], req'[d] = req[d],
         rows' = rows, \A n \in Names : files'[n].gen = files[n].gen,
         removing \subseteq removing', purging' = purging
  PROVE  Private(d)' /\ Recording(d)'
  <1> USE DEF At
  <1>1. Private(d)'
    BY DEF Private, ClientOK
  <1>2. At(d, "record") => req[d].name \in Names
    <2>1. Putting(d) => req[d] \in PutReq
      BY Shapes
    <2> QED BY <2>1 DEF PutReq, Putting, PutPlaces
  <1>3. Recording(d)'
    BY <1>2 DEF Recording, ClientOK
  <1> QED BY <1>1, <1>3

(* The accounts table stays as it is.                                      *)
LEMMA SameAccounts ==
  ASSUME UNCHANGED <<accounts, regs>>
  PROVE  Lasting /\ Issued' = Issued /\ Disconnected' = Disconnected
  BY DEF Lasting, Issued, Disconnected

(* An account id is a label and a number.                                  *)
LEMMA IdParts ==
  ASSUME NEW a \in Ids
  PROVE  a[1] \in Labels /\ a[2] \in 1..(MaxOps + 1) /\ a = Id(a[1], a[2])
  BY DEF Ids, Id

(***************************************************************************)
(* A client goes on: the others stay where they are.                       *)
(***************************************************************************)
LEMMA Going ==
  ASSUME NEW c \in Clients, NEW q \in Request, req \in [Clients -> Request], Go(c, q)
  PROVE  /\ req' \in [Clients -> Request]
         /\ req'[c] = q
         /\ \A d \in Clients : d # c => req'[d] = req[d]
         /\ q.at # "register" => Registering' \subseteq Registering
  <1>1. /\ req' \in [Clients -> Request]
        /\ req'[c] = q
        /\ \A d \in Clients : d # c => req'[d] = req[d]
    BY DEF Go
  <1>2. q.at # "register" => Registering' \subseteq Registering
    BY <1>1 DEF Registering, At
  <1> QED BY <1>1, <1>2

LEMMA RequestAnswers ==
  ASSUME NEW q \in Request
  PROVE  q.ans \in Answers
  BY DEF Request, EndReq, GotReq, PurgedReq, PutReq, ListReq, GetReq, PurgeReq,
         DisconnectReq, RegisterReq, RememberReq, StatusReq, Answers

(***************************************************************************)
(* The counters stay bounded as long as nobody else starts to register.    *)
(***************************************************************************)
LEMMA TypedKept ==
  ASSUME Typed, req' \in [Clients -> Request], Registering' \subseteq Registering,
         accounts' \in [Labels -> 0..(MaxOps + 1)], regs' = regs,
         \A l \in Labels : accounts'[l] <= regs[l],
         mem' \in [Pools -> SUBSET Ids],
         files' \in [Names -> [gen: 0..MaxOps,
                               status: {"none", "incomplete", "complete", "deleted"}]],
         rows' \subseteq Object, remote' \subseteq Object, crashed' \subseteq Pools,
         gens' \in Nat, gens' <= started', started' \in 0..MaxOps, started <= started'
  PROVE  Typed'
  <1>1. IsFiniteSet(Registering') /\ Cardinality(Registering') <= Cardinality(Registering)
        /\ Cardinality(Registering) \in Nat /\ Cardinality(Registering') \in Nat
    BY FS_Subset, FS_CardinalityType DEF Typed
  <1>2. TypeOK'
    <2>1. \A c \in Clients : req'[c].ans \in {"none", "ok", "error", "refused", "panic"}
      BY RequestAnswers DEF Answers
    <2>2. gens' \in 0..MaxOps
      BY MaxOpsAssumption
    <2>3. regs' \in [Labels -> 0..(MaxOps + 1)]
      BY DEF Typed, TypeOK
    <2> QED BY <2>1, <2>2, <2>3 DEF TypeOK
  <1>3. \A l \in Labels : regs'[l] + Cardinality(Registering') <= started' + 1
    <2> SUFFICES ASSUME NEW l \in Labels
                 PROVE  regs[l] + Cardinality(Registering') <= started' + 1
      OBVIOUS
    <2>1. regs[l] \in Nat /\ started \in Nat /\ started' \in Nat
          /\ regs[l] + Cardinality(Registering) <= started + 1
      BY MaxOpsAssumption DEF Typed, TypeOK
    <2> QED BY <2>1, <1>1
  <1>4. \A l \in Labels : accounts'[l] <= regs'[l]
    OBVIOUS
  <1> QED BY <1>1, <1>2, <1>3, <1>4 DEF Typed

(* No client becomes an upload, and uploads keep their generation.         *)
LEMMA DistinctKept ==
  ASSUME Distinct,
         \A d \in Clients : Putting(d)' => Putting(d) /\ req'[d].gen = req[d].gen
  PROVE  Distinct'
  BY DEF Distinct

(* The tables, Drive and the purges stay as they are.                      *)
LEMMA TablesKept ==
  ASSUME Typed, Tables, rows' = rows, remote' = remote, files' = files,
         purging' = purging, acked' = acked, removing \subseteq removing',
         gens \in Nat, gens' \in Nat, gens <= gens', Lasting
  PROVE  Tables'
  <1> USE DEF Tables
  <1>1. Known'
    <2>1. /\ \A n \in Names : files[n].gen \in Nat
          /\ \A r \in rows \cup remote : r.gen \in Nat
      BY MaxOpsAssumption DEF Typed, TypeOK, Object
    <2> QED BY <2>1 DEF Known
  <1>2. OneName' /\ RowsHaveFiles' /\ OneRow'
    BY DEF OneName, RowsHaveFiles, OneRow
  <1>3. RowsMatch' /\ NullsTaken' /\ PurgesAsked'
    BY DEF RowsMatch, NullsTaken, PurgesAsked, Lasting
  <1>4. AckedKept'
    BY DEF AckedKept
  <1>5. CompleteHasAllRows' /\ RowsPointSomewhere'
    BY DEF CompleteHasAllRows, RowsPointSomewhere, RowsOf
  <1> QED BY <1>1, <1>2, <1>3, <1>4, <1>5

(***************************************************************************)
(* Steps that only move a request, and touch at most the accounts a Pool   *)
(* has in memory, the counters and the history: what is left to show is    *)
(* that the request itself is in order.                                    *)
(***************************************************************************)
LEMMA OnlyRequest ==
  ASSUME OInv, NEW c \in Clients, NEW q \in Request, Go(c, q), q.at # "register",
         q.at \in PutPlaces => Putting(c) /\ q.gen = req[c].gen,
         UNCHANGED <<accounts, regs, files, rows, remote, acked, purging, crashed>>,
         removing \subseteq removing', mem' \in [Pools -> SUBSET Ids],
         gens' \in Nat, gens <= gens', gens' <= started',
         started' \in 0..MaxOps, started <= started',
         \A d \in Clients : Mem(d) \subseteq Mem(d)' \cup Disconnected',
         ClientOK(c)'
  PROVE  OInv'
  <1>1. gens \in Nat /\ req \in [Clients -> Request]
    BY MaxOpsAssumption DEF OInv, Typed, TypeOK
  <1>2. /\ req' \in [Clients -> Request]
        /\ req'[c] = q
        /\ \A d \in Clients : d # c => req'[d] = req[d]
        /\ Registering' \subseteq Registering
    BY <1>1, Going
  <1>3. Typed'
    BY <1>2, TypedKept DEF OInv, Typed, TypeOK
  <1>4. Distinct'
    BY <1>2, DistinctKept DEF OInv, Putting
  <1>5. Tables'
    BY <1>1, SameAccounts, TablesKept DEF OInv
  <1>6. ASSUME NEW d \in Clients, d # c PROVE ClientOK(d)'
    <2>1. Private(d)' /\ Recording(d)'
      BY <1>1, <1>2, <1>6, UploadKept DEF OInv
    <2>2. Lasting /\ Mem(d) \subseteq Mem(d)' \cup Disconnected'
      BY SameAccounts
    <2>3. /\ \A o \in remote' : o \in remote
                                 \/ (o.gen \notin purging /\ (Putting(d) => o.gen # req[d].gen))
          /\ \A o \in remote : Putting(d) /\ o.gen = req[d].gen /\ o.gen \notin purging'
                                => o \in remote'
          /\ purging \subseteq purging'
      <3>1. remote' = remote /\ purging' = purging
        OBVIOUS
      <3> QED BY <3>1
    <2>4. ClientOK(d) /\ req'[d] = req[d]
      BY <1>2, <1>6 DEF OInv
    <2> QED BY <1>1, <2>1, <2>2, <2>3, <2>4, OthersKept
  <1> QED BY <1>3, <1>4, <1>5, <1>6 DEF OInv

(***************************************************************************)
(* A request ends and has nothing to keep, or goes on with nothing to      *)
(* keep.                                                                   *)
(***************************************************************************)
LEMMA OnlyPlain ==
  ASSUME OInv, NEW c \in Clients, NEW q, Go(c, q),
         q \in EndReq \cup RememberReq \cup StatusReq \/ (q \in ListReq /\ q.at = "get list"),
         UNCHANGED <<accounts, regs, files, rows, remote, acked, purging, crashed>>,
         removing \subseteq removing', mem' \in [Pools -> SUBSET Ids],
         gens' \in Nat, gens <= gens', gens' <= started',
         started' \in 0..MaxOps, started <= started',
         \A d \in Clients : Mem(d) \subseteq Mem(d)' \cup Disconnected'
  PROVE  OInv'
  <1>1. q \in Request
    BY DEF Request
  <1>2. q.at # "register" /\ q.at \notin PutPlaces
    BY DEF EndReq, RememberReq, StatusReq, ListReq, PutPlaces
  <1>3. req'[c] = q
    BY <1>1, Going DEF OInv, Typed
  <1>4. ClientOK(c)'
    BY <1>3, PlainOK
  <1> QED BY <1>1, <1>2, <1>4, OnlyRequest

(* What the history, the counters and memory are like when nothing but the *)
(* request moves.                                                          *)
LEMMA Quiet ==
  ASSUME OInv, UNCHANGED <<mem, gens, started, removing>>
  PROVE  /\ removing \subseteq removing' /\ mem' \in [Pools -> SUBSET Ids]
         /\ gens' \in Nat /\ gens <= gens' /\ gens' <= started'
         /\ started' \in 0..MaxOps /\ started <= started'
         /\ \A d \in Clients : Mem(d) \subseteq Mem(d)' \cup Disconnected'
  <1>1. gens \in Nat /\ started \in Nat /\ started <= MaxOps /\ gens <= started
        /\ mem \in [Pools -> SUBSET Ids]
    BY MaxOpsAssumption DEF OInv, Typed, TypeOK
  <1> QED BY <1>1, MaxOpsAssumption DEF Mem

(* The same for a request that starts.                                     *)
LEMMA QuietStart ==
  ASSUME OInv, NEW c \in Clients, NEW op, Start(c, op),
         UNCHANGED <<mem, gens>>, removing \subseteq removing'
  PROVE  /\ mem' \in [Pools -> SUBSET Ids]
         /\ gens' \in Nat /\ gens <= gens' /\ gens' <= started'
         /\ started' \in 0..MaxOps /\ started <= started'
         /\ \A d \in Clients : Mem(d) \subseteq Mem(d)' \cup Disconnected'
  <1>1. gens \in Nat /\ started \in Nat /\ started < MaxOps /\ gens <= started
        /\ mem \in [Pools -> SUBSET Ids]
    BY MaxOpsAssumption DEF OInv, Typed, TypeOK, Start
  <1> QED BY <1>1, MaxOpsAssumption DEF Mem, Start

LEMMA EndIsPlain ==
  ASSUME NEW a \in Answers
  PROVE  [at |-> "idle", ans |-> a] \in EndReq
  BY DEF EndReq

-----------------------------------------------------------------------------
(* One lemma for each action.                                              *)

LEMMA StartGetKeeps ==
  ASSUME OInv, NEW c \in Clients, NEW n \in Names, StartGet(c, n)
  PROVE  OInv'
  <1> USE DEF manifestVars, historyVars
  <1>1. UNCHANGED <<accounts, regs, files, rows, remote, acked, purging, crashed>>
        /\ UNCHANGED <<mem, gens, removing>> /\ Start(c, "get")
    BY DEF StartGet
  <1>0. /\ mem' \in [Pools -> SUBSET Ids]
        /\ gens' \in Nat /\ gens <= gens' /\ gens' <= started'
        /\ started' \in 0..MaxOps /\ started <= started'
        /\ \A d \in Clients : Mem(d) \subseteq Mem(d)' \cup Disconnected'
        /\ removing \subseteq removing'
    BY <1>1, QuietStart
  <1>2. CASE files[n].gen = 0
    <2>1. Go(c, [at |-> "idle", ans |-> "error"])
      BY <1>2 DEF StartGet, Answer
    <2>2. [at |-> "idle", ans |-> "error"] \in EndReq
      BY EndIsPlain DEF Answers
    <2> QED BY <1>1, <1>0, <2>1, <2>2, OnlyPlain
  <1>3. CASE files[n].gen # 0
    <2> DEFINE q == [at |-> "get list", name |-> n, gen |-> files[n].gen, ans |-> "none"]
    <2>1. Go(c, q)
      BY <1>3 DEF StartGet
    <2>2. files[n].gen \in 1..MaxOps
      BY <1>3, MaxOpsAssumption DEF OInv, Typed, TypeOK
    <2>3. q \in ListReq /\ q.at = "get list"
      BY <2>2 DEF ListReq
    <2> HIDE DEF q
    <2> QED BY <1>1, <1>0, <2>1, <2>3, OnlyPlain
  <1> QED BY <1>2, <1>3

LEMMA StartStatusKeeps ==
  ASSUME OInv, NEW c \in Clients, StartStatus(c)
  PROVE  OInv'
  <1> USE DEF manifestVars, historyVars
  <1> DEFINE q == [at |-> "status", ids |-> Registered, ans |-> "none"]
  <1>1. UNCHANGED <<accounts, regs, files, rows, remote, acked, purging, crashed>>
        /\ UNCHANGED <<mem, gens, removing>> /\ Start(c, "status") /\ Go(c, q)
    BY DEF StartStatus
  <1>2. Registered \subseteq Ids
    <2>1. \A l \in Labels : accounts[l] # 0 => accounts[l] \in 1..(MaxOps + 1)
      BY MaxOpsAssumption DEF OInv, Typed, TypeOK
    <2> QED BY <2>1 DEF Registered, Ids
  <1>3. q \in StatusReq
    BY <1>2 DEF StatusReq
  <1> HIDE DEF q
  <1>4. /\ mem' \in [Pools -> SUBSET Ids]
        /\ gens' \in Nat /\ gens <= gens' /\ gens' <= started'
        /\ started' \in 0..MaxOps /\ started <= started'
        /\ \A d \in Clients : Mem(d) \subseteq Mem(d)' \cup Disconnected'
        /\ removing \subseteq removing'
    BY <1>1, QuietStart
  <1> QED BY <1>1, <1>3, <1>4, OnlyPlain

LEMMA StatusRowKeeps ==
  ASSUME OInv, NEW c \in Clients, StatusRow(c)
  PROVE  OInv'
  <1> USE DEF manifestVars, historyVars
  <1>1. UNCHANGED <<accounts, regs, files, rows, remote, acked, purging, crashed>>
        /\ UNCHANGED <<mem, gens, started, removing>> /\ At(c, "status")
    BY DEF StatusRow
  <1>2. req[c] \in StatusReq
    BY <1>1, Shapes DEF OInv, Typed
  <1>3. \A id : [req[c] EXCEPT !.ids = @ \ {id}] \in StatusReq
    BY <1>2 DEF StatusReq
  <1>4. PICK q \in EndReq \cup StatusReq : Go(c, q)
    <2>1. CASE Answer(c, "ok") \/ Answer(c, "panic")
      BY <2>1, EndIsPlain DEF Answer, Answers
    <2>2. CASE \E id \in req[c].ids : Go(c, [req[c] EXCEPT !.ids = @ \ {id}])
      BY <2>2, <1>3
    <2> QED BY <2>1, <2>2 DEF StatusRow
  <1> QED BY <1>1, <1>4, Quiet, OnlyPlain

LEMMA RememberKeeps ==
  ASSUME OInv, NEW c \in Clients, Remember(c)
  PROVE  OInv'
  <1> USE DEF manifestVars, historyVars
  <1>1. UNCHANGED <<accounts, regs, files, rows, remote, acked, purging, crashed>>
        /\ UNCHANGED <<gens, started, removing>> /\ At(c, "remember")
    BY DEF Remember
  <1>2. req[c].id \in Ids
    <2>1. req[c] \in RememberReq
      BY <1>1, Shapes DEF OInv, Typed
    <2> QED BY <2>1 DEF RememberReq
  <1>3. PICK a \in {"ok", "error"} : Answer(c, a)
    BY DEF Remember
  <1>4. mem' \in [Pools -> SUBSET Ids] /\ \A d \in Clients : Mem(d) \subseteq Mem(d)' \cup Disconnected'
    BY <1>2, HomeAssumption DEF Remember, Mem, OInv, Typed, TypeOK
  <1>5. [at |-> "idle", ans |-> a] \in EndReq
    BY EndIsPlain DEF Answers
  <1>6. /\ gens' \in Nat /\ gens <= gens' /\ gens' <= started'
        /\ started' \in 0..MaxOps /\ started <= started'
    BY <1>1, MaxOpsAssumption DEF OInv, Typed, TypeOK
  <1> QED BY <1>1, <1>3, <1>4, <1>5, <1>6, OnlyPlain DEF Answer

LEMMA ForgetKeeps ==
  ASSUME OInv, NEW c \in Clients, Forget(c)
  PROVE  OInv'
  <1> USE DEF manifestVars, historyVars
  <1>1. UNCHANGED <<accounts, regs, files, rows, remote, acked, purging, crashed>>
        /\ UNCHANGED <<gens, started, removing>> /\ At(c, "forget")
        /\ Go(c, [at |-> "idle", ans |-> "ok"])
    BY DEF Forget, Answer
  <1>2. req[c].id \in Disconnected'
    <2>1. req[c] \in DisconnectReq
      BY <1>1, Shapes DEF OInv, Typed
    <2> QED BY <1>1, <2>1, SameAccounts DEF OInv, ClientOK, Disconnecting
  <1>3. mem \in [Pools -> SUBSET Ids] /\ mem' = [mem EXCEPT ![Home[c]] = @ \ {req[c].id}]
    BY DEF Forget, OInv, Typed, TypeOK
  <1>4. /\ mem' \in [Pools -> SUBSET Ids]
        /\ \A d \in Clients : Mem(d) \subseteq Mem(d)' \cup Disconnected'
    BY <1>2, <1>3, HomeAssumption DEF Mem
  <1>5. [at |-> "idle", ans |-> "ok"] \in EndReq
    BY EndIsPlain DEF Answers
  <1>6. /\ gens' \in Nat /\ gens <= gens' /\ gens' <= started'
        /\ started' \in 0..MaxOps /\ started <= started'
    BY <1>1, MaxOpsAssumption DEF OInv, Typed, TypeOK
  <1> QED BY <1>1, <1>2, <1>4, <1>5, <1>6, OnlyPlain

(* Calls whose error is returned as it is.                                 *)
StepFails(c) ==
  \/ PutAddChunkFails(c) \/ PutCompleteFails(c) \/ GetListFails(c) \/ PurgeListFails(c)
  \/ PurgeFails(c) \/ PurgeDeleteFails(c) \/ CountChunksFails(c) \/ DeregisterFails(c)
  \/ RegisterFails(c)

LEMMA FailureKeeps ==
  ASSUME OInv, NEW c \in Clients, StepFails(c)
  PROVE  OInv'
  <1> USE DEF manifestVars, historyVars
  <1>1. UNCHANGED <<accounts, regs, files, rows, remote, acked, purging, crashed>>
        /\ UNCHANGED <<mem, gens, started, removing>>
        /\ Go(c, [at |-> "idle", ans |-> "error"])
    BY DEF StepFails, PutAddChunkFails, PutCompleteFails, GetListFails, PurgeListFails,
       PurgeFails, PurgeDeleteFails, CountChunksFails, DeregisterFails, RegisterFails,
       Fails, Answer
  <1>2. [at |-> "idle", ans |-> "error"] \in EndReq
    BY EndIsPlain DEF Answers
  <1> QED BY <1>1, <1>2, Quiet, OnlyPlain

LEMMA LookupFailsKeeps ==
  ASSUME OInv, NEW c \in Clients, LookupFails(c)
  PROVE  OInv'
  <1> USE DEF manifestVars, historyVars
  <1>1. UNCHANGED <<accounts, regs, files, rows, remote, acked, purging, crashed>>
        /\ UNCHANGED <<mem, gens, removing>>
        /\ Go(c, [at |-> "idle", ans |-> "error"])
    BY DEF LookupFails, Answer
  <1>2. PICK op \in Ops : Start(c, op)
    BY DEF LookupFails
  <1>3. /\ mem' \in [Pools -> SUBSET Ids]
        /\ gens' \in Nat /\ gens <= gens' /\ gens' <= started'
        /\ started' \in 0..MaxOps /\ started <= started'
        /\ \A d \in Clients : Mem(d) \subseteq Mem(d)' \cup Disconnected'
        /\ removing \subseteq removing'
    BY <1>1, <1>2, QuietStart
  <1>4. [at |-> "idle", ans |-> "error"] \in EndReq
    BY EndIsPlain DEF Answers
  <1> QED BY <1>1, <1>3, <1>4, OnlyPlain

(* The request of an upload moves to another place.                        *)
LEMMA PutMoves ==
  ASSUME NEW q \in PutReq, NEW p \in PutPlaces
  PROVE  LET r == [q EXCEPT !.at = p]
         IN  /\ r \in PutReq /\ r.at = p /\ r.name = q.name /\ r.gen = q.gen
             /\ r.cand = q.cand /\ r.idx = q.idx /\ r.up = q.up
  BY Zenon DEF PutReq

(* It has stored, deleted or recorded a chunk.                             *)
LEMMA PutCounts ==
  ASSUME NEW q \in PutReq, NEW u \in SUBSET Object
  PROVE  LET r == [q EXCEPT !.up = u]
         IN  /\ r \in PutReq /\ r.at = q.at /\ r.name = q.name /\ r.gen = q.gen
             /\ r.cand = q.cand /\ r.idx = q.idx /\ r.up = u
  BY Zenon DEF PutReq

(* A request that uploads is no ended purge, no ended download and no      *)
(* disconnect.                                                             *)
LEMMA PutIsPut ==
  ASSUME NEW q \in PutReq
  PROVE  /\ q.at \in PutPlaces /\ q.name \in Names /\ q.gen \in 1..MaxOps
         /\ q.cand \in SUBSET Ids /\ q.idx \in 0..NumChunks /\ q.up \in SUBSET Object
         /\ q \notin PurgedReq /\ q \notin GotReq /\ q \notin DisconnectReq /\ q \in Request
  <1>1. /\ q.at \in PutPlaces /\ q.name \in Names /\ q.gen \in 1..MaxOps
        /\ q.cand \in SUBSET Ids /\ q.idx \in 0..NumChunks /\ q.up \in SUBSET Object
    BY DEF PutReq
  <1>2. /\ q \in PurgedReq => q.at = "idle"
        /\ q \in GotReq => q.at = "idle"
        /\ q \in DisconnectReq => q.at \in {"count", "deregister", "forget"}
    BY DEF PurgedReq, GotReq, DisconnectReq
  <1> QED BY <1>1, <1>2 DEF PutPlaces, Request

(* An upload goes on after a failure: what it stored stays its own.        *)
LEMMA PutGivesUp ==
  ASSUME OInv, NEW c \in Clients, Uploading(c), NEW q \in PutReq, Go(c, q),
         q.gen = req[c].gen, q.cand = req[c].cand, q.up = req[c].up,
         \/ q.at = "cleanup"
         \/ q.at = "failing" /\ q.idx = req[c].idx + 1 /\ q.idx < NumChunks,
         UNCHANGED <<accounts, regs, files, rows, remote, acked, purging, crashed>>,
         UNCHANGED <<mem, gens, started, removing>>
  PROVE  OInv'
  <1>1. Putting(c) /\ req[c] \in PutReq
    BY Shapes DEF OInv, Typed, Putting, PutPlaces, At, Uploading
  <1>2. req'[c] = q
    BY PutIsPut, Going DEF OInv, Typed
  <1>3. ClientOK(c)'
    <2>1. Stored(c)'
      BY <1>1, <1>2, SameAccounts DEF Stored, OInv, ClientOK, Putting, PutPlaces, At, Mem
    <2>2. Private(c)'
      BY <1>2 DEF Private, OInv, ClientOK, At, Uploading
    <2>3. InOrder(c)'
      <3> SUFFICES ASSUME q.at = "failing" PROVE InOrder(c)'
        BY <1>2 DEF InOrder, At, Uploading
      <3>1. req[c].idx \in Nat /\ req[c].up \in SUBSET Object
        BY <1>1, PutIsPut, NumChunksAssumption
      <3>2. /\ \A o \in req[c].up : o.idx <= req[c].idx
            /\ \A p \in remote : p.gen = req[c].gen => p.idx <= req[c].idx
        BY DEF OInv, ClientOK, InOrder
      <3>3. /\ \A o \in req[c].up : o.idx <= q.idx
            /\ \A p \in remote : p.gen = req[c].gen => p.idx <= q.idx
        BY <3>1, <3>2, NumChunksAssumption DEF OInv, Typed, TypeOK, Object
      <3> QED BY <1>2, <3>3 DEF InOrder, At, Uploading
    <2>4. Recording(c)' /\ Getting(c)' /\ Purging(c)'
      BY <1>2 DEF Recording, Getting, Purging, At
    <2>5. Disconnecting(c)' /\ Gone(c)' /\ Whole(c)'
      BY <1>2, PutIsPut DEF Disconnecting, Gone, Whole
    <2> QED BY <2>1, <2>2, <2>3, <2>4, <2>5 DEF ClientOK
  <1>4. q \in Request /\ q.at # "register"
    BY PutIsPut DEF PutPlaces
  <1> QED BY <1>1, <1>3, <1>4, Quiet, OnlyRequest

LEMMA PutReadFailsKeeps ==
  ASSUME OInv, NEW c \in Clients, PutReadFails(c)
  PROVE  OInv'
  <1> USE DEF manifestVars, historyVars
  <1> DEFINE q == [req[c] EXCEPT !.at = "cleanup"]
  <1>1. UNCHANGED <<accounts, regs, files, rows, remote, acked, purging, crashed>>
        /\ UNCHANGED <<mem, gens, started, removing>> /\ Go(c, q) /\ Uploading(c)
    BY DEF PutReadFails
  <1>2. req[c] \in PutReq
    BY <1>1, Shapes DEF OInv, Typed, Putting, PutPlaces, At, Uploading
  <1>3. /\ q \in PutReq /\ q.at = "cleanup" /\ q.gen = req[c].gen
        /\ q.cand = req[c].cand /\ q.up = req[c].up
    BY <1>2, PutMoves DEF PutPlaces
  <1> HIDE DEF q
  <1> QED BY <1>1, <1>3, PutGivesUp

LEMMA PutChunkFailsKeeps ==
  ASSUME OInv, NEW c \in Clients, PutChunkFails(c)
  PROVE  OInv'
  <1> USE DEF manifestVars, historyVars
  <1> DEFINE i == req[c].idx + 1
             p == AfterChunk("failing", i)
             q == [req[c] EXCEPT !.idx = i, !.at = p]
  <1>1. UNCHANGED <<accounts, regs, files, rows, remote, acked, purging, crashed>>
        /\ UNCHANGED <<mem, gens, started, removing>> /\ Go(c, q) /\ Uploading(c)
    BY DEF PutChunkFails
  <1>2. req[c] \in PutReq
    BY <1>1, Shapes DEF OInv, Typed, Putting, PutPlaces, At, Uploading
  <1>3. i \in 0..NumChunks
    <2>1. req[c].idx \in Nat /\ req[c].idx < NumChunks
      BY <1>1, <1>2, PutIsPut, NumChunksAssumption DEF OInv, ClientOK, InOrder
    <2> QED BY <2>1, NumChunksAssumption
  <1>4. p = "cleanup" \/ (p = "failing" /\ i < NumChunks)
    BY DEF AfterChunk
  <1>5. p \in PutPlaces
    BY <1>4 DEF PutPlaces
  <1>6. /\ q \in PutReq /\ q.at = p /\ q.gen = req[c].gen
        /\ q.cand = req[c].cand /\ q.up = req[c].up /\ q.idx = i
    <2> HIDE DEF i, p
    <2> QED BY <1>2, <1>3, <1>5, Zenon DEF PutReq
  <1> HIDE DEF q, p
  <1> QED BY <1>1, <1>4, <1>6, PutGivesUp

(* A disconnect has nothing to keep but the account it takes away.         *)
LEMMA DisconnectOK ==
  ASSUME NEW c \in Clients, req'[c] \in DisconnectReq, Disconnecting(c)'
  PROVE  /\ ClientOK(c)' /\ req'[c].at \notin PutPlaces /\ req'[c].at # "register"
         /\ req'[c] \in Request
  <1>1. req'[c].at \in {"count", "deregister", "forget"}
    BY DEF DisconnectReq
  <1>2. /\ req'[c] \in PurgedReq => req'[c].at = "idle"
        /\ req'[c] \in GotReq => req'[c].at = "idle"
    BY DEF PurgedReq, GotReq
  <1>3. ClientOK(c)'
    BY <1>1, <1>2 DEF ClientOK, Stored, Private, InOrder, Recording, Getting,
          Purging, Disconnecting, Gone, Whole, Putting, PutPlaces, At, Uploading
  <1> QED BY <1>1, <1>3 DEF PutPlaces, Request

LEMMA StartDisconnectKeeps ==
  ASSUME OInv, NEW c \in Clients, NEW l \in Labels, NEW f \in BOOLEAN, StartDisconnect(c, l, f)
  PROVE  OInv'
  <1> USE DEF manifestVars, historyVars
  <1>1. UNCHANGED <<accounts, regs, files, rows, remote, acked, purging, crashed>>
        /\ UNCHANGED <<mem, gens, removing>>
        /\ Start(c, IF f THEN "force" ELSE "disconnect")
    BY DEF StartDisconnect
  <1>3. /\ mem' \in [Pools -> SUBSET Ids]
        /\ gens' \in Nat /\ gens <= gens' /\ gens' <= started'
        /\ started' \in 0..MaxOps /\ started <= started'
        /\ \A d \in Clients : Mem(d) \subseteq Mem(d)' \cup Disconnected'
        /\ removing \subseteq removing'
    BY <1>1, QuietStart
  <1>4. CASE accounts[l] = 0
    <2>1. Go(c, [at |-> "idle", ans |-> "error"])
      BY <1>4 DEF StartDisconnect, Answer
    <2>2. [at |-> "idle", ans |-> "error"] \in EndReq
      BY EndIsPlain DEF Answers
    <2> QED BY <1>1, <1>3, <2>1, <2>2, OnlyPlain
  <1>5. CASE accounts[l] # 0
    <2> DEFINE q == [at |-> IF f THEN "deregister" ELSE "count", label |-> l,
                     id |-> Id(l, accounts[l]), force |-> f, ans |-> "none"]
    <2>1. Go(c, q)
      BY <1>5 DEF StartDisconnect
    <2>2. Id(l, accounts[l]) \in Ids
      <3>1. accounts[l] \in 1..(MaxOps + 1)
        BY <1>5, MaxOpsAssumption DEF OInv, Typed, TypeOK
      <3> QED BY <3>1 DEF Ids
    <2>3. /\ q \in DisconnectReq /\ q.at # "forget"
          /\ q.id = Id(l, accounts[l]) /\ q.label = l
      BY <2>2 DEF DisconnectReq
    <2> HIDE DEF q
    <2>4. req'[c] = q
      BY <2>1, <2>3, Going DEF OInv, Typed, Request
    <2>5. q.id \in Issued' /\ q.id[1] = q.label
      <3>1. accounts[l] <= regs'[l]
        BY <1>1 DEF OInv, Typed
      <3> QED BY <2>2, <2>3, <3>1 DEF Issued, Id
    <2>6. Disconnecting(c)'
      BY <2>3, <2>4, <2>5 DEF Disconnecting, At
    <2>7. ClientOK(c)' /\ q.at \notin PutPlaces /\ q.at # "register" /\ q \in Request
      BY <2>3, <2>4, <2>6, DisconnectOK
    <2> QED BY <1>1, <1>3, <2>1, <2>7, OnlyRequest
  <1> QED BY <1>4, <1>5

LEMMA CountChunksKeeps ==
  ASSUME OInv, NEW c \in Clients, CountChunks(c)
  PROVE  OInv'
  <1> USE DEF manifestVars, historyVars
  <1>1. UNCHANGED <<accounts, regs, files, rows, remote, acked, purging, crashed>>
        /\ UNCHANGED <<mem, gens, started, removing>>
        /\ At(c, "count")
    BY DEF CountChunks
  <1>2. req[c] \in DisconnectReq
    BY <1>1, Shapes DEF OInv, Typed
  <1>3. CASE ActiveChunks(req[c].id) # {}
    <2>1. Go(c, [at |-> "idle", ans |-> "refused"])
      BY <1>3 DEF CountChunks, Answer
    <2>2. [at |-> "idle", ans |-> "refused"] \in EndReq
      BY EndIsPlain DEF Answers
    <2> QED BY <1>1, <2>1, <2>2, Quiet, OnlyPlain
  <1>4. CASE ActiveChunks(req[c].id) = {}
    <2> DEFINE q == [req[c] EXCEPT !.at = "deregister"]
    <2>1. Go(c, q)
      BY <1>4 DEF CountChunks
    <2>2. /\ q \in DisconnectReq /\ q.at = "deregister"
          /\ q.id = req[c].id /\ q.label = req[c].label
      BY <1>2 DEF DisconnectReq
    <2> HIDE DEF q
    <2>4. req'[c] = q
      BY <2>1, <2>2, Going DEF OInv, Typed, Request
    <2>3. Disconnecting(c)'
      BY <1>1, <1>2, <2>2, <2>4, SameAccounts DEF OInv, ClientOK, Disconnecting, At
    <2>5. ClientOK(c)' /\ q.at \notin PutPlaces /\ q.at # "register" /\ q \in Request
      BY <2>2, <2>3, <2>4, DisconnectOK
    <2> QED BY <1>1, <2>1, <2>5, Quiet, OnlyRequest
  <1> QED BY <1>3, <1>4

(* What is left to show of a download or a purge.                          *)
LEMMA ReadOK ==
  ASSUME NEW c \in Clients, req'[c].at \in {"get", "purge list", "purge", "idle"},
         Getting(c)', Purging(c)', Gone(c)', Whole(c)'
  PROVE  ClientOK(c)'
  <1>1. req'[c] \notin DisconnectReq
    BY DEF DisconnectReq
  <1> QED BY <1>1 DEF ClientOK, Stored, Private, InOrder, Recording, Disconnecting, Putting,
          PutPlaces, At, Uploading

(* A request under way is no ended purge and no ended download.            *)
LEMMA NotEnded ==
  ASSUME NEW q, q.at # "idle"
  PROVE  q \notin PurgedReq /\ q \notin GotReq
  BY DEF PurgedReq, GotReq

(* As many chunks as the file has, no two with the same index, are all.    *)
LEMMA AllChunks ==
  ASSUME NEW S \in SUBSET Object, \A o, p \in S : o.idx = p.idx => o = p
  PROVE  /\ IsFiniteSet(S) /\ Cardinality(S) \in Nat /\ Cardinality(S) <= NumChunks
         /\ Cardinality(S) = NumChunks => \A i \in 1..NumChunks : \E o \in S : o.idx = i
  <1> DEFINE f == [o \in S |-> o.idx]
             T == 1..NumChunks
  <1>1. f \in [S -> T] /\ f \in Injection(S, T)
    BY DEF Object, Injection, IsInjective
  <1>2. IsFiniteSet(T) /\ Cardinality(T) = NumChunks
    BY FS_Interval, NumChunksAssumption
  <1>3. IsFiniteSet(S) /\ Cardinality(S) <= NumChunks
    <2> HIDE DEF f, T
    <2> QED BY <1>1, <1>2, FS_Injection
  <1>4. Cardinality(S) \in Nat
    BY <1>3, FS_CardinalityType
  <1>5. Cardinality(S) = NumChunks => f \in Surjection(S, T)
    <2> HIDE DEF f, T
    <2> QED BY <1>1, <1>2, <1>3, FS_Injection, FS_Surjection
  <1> QED BY <1>3, <1>4, <1>5 DEF Surjection

LEMMA GetListKeeps ==
  ASSUME OInv, NEW c \in Clients, GetList(c)
  PROVE  OInv'
  <1> USE DEF manifestVars, historyVars
  <1> DEFINE list == RowsOf(req[c].gen)
             q == [at |-> "get", name |-> req[c].name, gen |-> req[c].gen,
                   list |-> list, got |-> {}, ans |-> "none"]
  <1>1. UNCHANGED <<accounts, regs, files, rows, remote, acked, purging, crashed>>
        /\ UNCHANGED <<mem, gens, started, removing>>
        /\ At(c, "get list")
    BY DEF GetList
  <1>2. CASE list = {}
    <2>1. Go(c, [at |-> "idle", ans |-> "error"])
      BY <1>2 DEF GetList, Answer
    <2>2. [at |-> "idle", ans |-> "error"] \in EndReq
      BY EndIsPlain DEF Answers
    <2> QED BY <1>1, <2>1, <2>2, Quiet, OnlyPlain
  <1>3. CASE list # {}
    <2>1. Go(c, q)
      BY <1>3 DEF GetList
    <2>2. req[c] \in ListReq /\ rows \subseteq Object
      BY <1>1, Shapes DEF OInv, Typed, TypeOK
    <2>3. q \in GetReq /\ q.at = "get" /\ q.gen = req[c].gen /\ q.list = list /\ q.got = {}
      BY <2>2 DEF GetReq, ListReq, RowsOf
    <2>4. q \in Request /\ q.at # "register" /\ q.at \notin PutPlaces
      BY <2>3 DEF Request, PutPlaces
    <2> HIDE DEF q
    <2>5. req'[c] = q
      BY <2>1, <2>4, Going DEF OInv, Typed
    <2>6. Getting(c)'
      BY <2>3, <2>5 DEF Getting, At, RowsOf, OInv, Tables, OneRow
    <2>7. Purging(c)'
      BY <2>3, <2>5 DEF Purging, At
    <2>8. Gone(c)' /\ Whole(c)'
      BY <2>3, <2>5, NotEnded DEF Gone, Whole
    <2>9. ClientOK(c)'
      BY <2>3, <2>5, <2>6, <2>7, <2>8, ReadOK
    <2> QED BY <1>1, <2>1, <2>4, <2>9, Quiet, OnlyRequest
  <1> QED BY <1>2, <1>3

LEMMA GetMoves ==
  ASSUME NEW q \in GetReq, NEW r \in q.list
  PROVE  LET p == [q EXCEPT !.list = @ \ {r}, !.got = @ \cup {r}]
         IN  /\ p \in GetReq /\ p.at = "get" /\ p.gen = q.gen
             /\ p.list = q.list \ {r} /\ p.got = q.got \cup {r}
  <1>1. q.list \ {r} \in SUBSET Object /\ q.got \cup {r} \in SUBSET Object
    BY DEF GetReq
  <1>2. ASSUME NEW s \in SUBSET Object, NEW t \in SUBSET Object
        PROVE  LET p == [q EXCEPT !.list = s, !.got = t]
               IN  /\ p \in GetReq /\ p.at = "get" /\ p.gen = q.gen
                   /\ p.list = s /\ p.got = t
    BY Zenon DEF GetReq
  <1> QED BY <1>1, <1>2

LEMMA GetChunkKeeps ==
  ASSUME OInv, NEW c \in Clients, GetChunk(c)
  PROVE  OInv'
  <1> USE DEF manifestVars, historyVars
  <1>1. UNCHANGED <<accounts, regs, files, rows, remote, acked, purging, crashed>>
        /\ UNCHANGED <<mem, gens, started, removing>>
        /\ At(c, "get")
    BY DEF GetChunk
  <1>2. req[c] \in GetReq /\ Getting(c)
    BY <1>1, Shapes DEF OInv, Typed, ClientOK
  <1>3. /\ req[c].list \in SUBSET Object /\ req[c].got \in SUBSET Object
        /\ req[c].gen \in 1..MaxOps
    BY <1>2 DEF GetReq
  <1>4. CASE Answer(c, "error")
    <2>1. [at |-> "idle", ans |-> "error"] \in EndReq
      BY EndIsPlain DEF Answers
    <2> QED BY <1>1, <1>4, <2>1, Quiet, OnlyPlain DEF Answer
  <1>5. CASE /\ req[c].list = {} /\ Cardinality(req[c].got) = NumChunks
             /\ Go(c, [at |-> "idle", ans |-> "ok", got |-> req[c].got])
    <2> DEFINE q == [at |-> "idle", ans |-> "ok", got |-> req[c].got]
    <2>1. q \in GotReq /\ q.at = "idle" /\ q.got = req[c].got
          /\ "purged" \notin DOMAIN q
      BY <1>3 DEF GotReq
    <2>2. q \in Request /\ q.at # "register" /\ q.at \notin PutPlaces
      BY <2>1 DEF Request, PutPlaces
    <2> HIDE DEF q
    <2>3. req'[c] = q
      BY <1>5, <2>2, Going DEF OInv, Typed, q
    <2>4. Getting(c)' /\ Purging(c)'
      BY <2>1, <2>3 DEF Getting, Purging, At
    <2>5. Gone(c)'
      <3>1. q \in PurgedReq => "purged" \in DOMAIN q
        BY DEF PurgedReq
      <3> QED BY <2>1, <2>3, <3>1 DEF Gone
    <2>6. Whole(c)'
      <3>1. \A i \in 1..NumChunks : \E o \in req[c].got : o.idx = i
        BY <1>1, <1>2, <1>3, <1>5, AllChunks DEF Getting
      <3>2. \A o \in req[c].got : o.gen = req[c].gen
        BY <1>1, <1>2 DEF Getting
      <3> QED BY <1>3, <2>1, <2>3, <3>1, <3>2 DEF Whole
    <2>7. ClientOK(c)'
      BY <2>1, <2>3, <2>4, <2>5, <2>6, ReadOK
    <2> QED BY <1>1, <1>5, <2>2, <2>7, Quiet, OnlyRequest DEF q
  <1>6. CASE /\ req[c].list # {}
             /\ LET r == First(req[c].list)
                IN  Go(c, [req[c] EXCEPT !.list = @ \ {r}, !.got = @ \cup {r}])
    <2> DEFINE r == First(req[c].list)
               q == [req[c] EXCEPT !.list = @ \ {r}, !.got = @ \cup {r}]
    <2>1. r \in req[c].list
      BY <1>3, <1>6, FirstIsOne
    <2> HIDE DEF r
    <2>2. /\ q \in GetReq /\ q.at = "get" /\ q.gen = req[c].gen
          /\ q.list = req[c].list \ {r} /\ q.got = req[c].got \cup {r}
      BY <1>2, <2>1, GetMoves
    <2> HIDE DEF q
    <2>3. Go(c, q)
      BY <1>6 DEF q, r
    <2>4. q \in Request /\ q.at # "register" /\ q.at \notin PutPlaces
      BY <2>2 DEF Request, PutPlaces
    <2>5. req'[c] = q
      BY <2>3, <2>4, Going DEF OInv, Typed
    <2>6. q.list \cup q.got = req[c].list \cup req[c].got
      BY <2>1, <2>2
    <2>7. Getting(c)'
      BY <1>1, <1>2, <2>2, <2>5, <2>6 DEF Getting, At
    <2>8. Purging(c)'
      BY <2>2, <2>5 DEF Purging, At
    <2>9. Gone(c)' /\ Whole(c)'
      BY <2>2, <2>5, NotEnded DEF Gone, Whole
    <2>10. ClientOK(c)'
      BY <2>2, <2>5, <2>7, <2>8, <2>9, ReadOK
    <2> QED BY <1>1, <2>3, <2>4, <2>10, Quiet, OnlyRequest
  <1> QED BY <1>4, <1>5, <1>6 DEF GetChunk

LEMMA PurgeListKeeps ==
  ASSUME OInv, NEW c \in Clients, PurgeList(c)
  PROVE  OInv'
  <1> USE DEF manifestVars, historyVars
  <1> DEFINE list == RowsOf(req[c].gen)
             short == Cardinality(list) < NumChunks
             q == [at |-> "purge", name |-> req[c].name, gen |-> req[c].gen, list |-> list,
                   folders |-> {}, skipped |-> short, ans |-> "none"]
  <1>1. UNCHANGED <<accounts, regs, files, rows, remote, acked, purging, crashed>>
        /\ UNCHANGED <<mem, gens, started, removing>>
        /\ At(c, "purge list") /\ Go(c, q)
    BY DEF PurgeList
  <1>2. req[c] \in ListReq /\ rows \subseteq Object /\ remote \subseteq Object
    BY <1>1, Shapes DEF OInv, Typed, TypeOK
  <1>3. list \subseteq Object /\ \A o, p \in list : o.idx = p.idx => o = p
    BY <1>2 DEF RowsOf, OInv, Tables, OneRow
  <1>4. /\ q \in PurgeReq /\ q.at = "purge" /\ q.gen = req[c].gen /\ q.name = req[c].name
        /\ q.list = list /\ q.folders = {} /\ q.skipped = short
    <2>1. short \in BOOLEAN
      OBVIOUS
    <2>2. req[c].name \in Names /\ req[c].gen \in 1..MaxOps
      BY <1>2 DEF ListReq
    <2> HIDE DEF short, list
    <2> QED BY <1>3, <2>1, <2>2, Zenon DEF PurgeReq
  <1>5. q \in Request /\ q.at # "register" /\ q.at \notin PutPlaces
    BY <1>4 DEF Request, PutPlaces
  <1> HIDE DEF q
  <1>6. req'[c] = q
    BY <1>1, <1>5, Going DEF OInv, Typed
  <1>7. Getting(c)'
    BY <1>4, <1>6 DEF Getting, At
  <1>8. Purging(c)'
    <2>1. req[c].gen \in purging /\ req[c].name \in removing
      BY <1>1 DEF OInv, ClientOK, Purging
    <2>2. ASSUME ~q.skipped, NEW o \in remote, o.gen = q.gen
          PROVE  \E r \in q.list : r.idx = o.idx /\ r.acc \in {o.acc, Null}
      <3> HIDE DEF list
      <3>0. ~(Cardinality(list) < NumChunks)
        BY <1>4, <2>2, Zenon
      <3>1. \A i \in 1..NumChunks : \E r \in list : r.idx = i
        BY <1>3, <3>0, AllChunks, NumChunksAssumption
      <3>2. PICK r \in list : r.idx = o.idx
        BY <1>2, <3>1 DEF Object
      <3>3. r \in rows /\ r.gen = o.gen
        BY <2>2, <1>4 DEF list, RowsOf
      <3> QED BY <1>4, <3>2, <3>3 DEF OInv, Tables, RowsMatch
    <2>3. \A o \in q.list : o.gen = q.gen
      BY <1>4 DEF RowsOf
    <2> QED BY <1>1, <1>4, <1>6, <2>1, <2>2, <2>3 DEF Purging, At
  <1>9. Gone(c)' /\ Whole(c)'
    BY <1>4, <1>6, NotEnded DEF Gone, Whole
  <1>10. ClientOK(c)'
    BY <1>4, <1>6, <1>7, <1>8, <1>9, ReadOK
  <1> QED BY <1>1, <1>5, <1>10, Quiet, OnlyRequest

(***************************************************************************)
(* Steps that move a request and delete objects: of a file that is being   *)
(* purged, or of an upload that failed before anybody heard of it.         *)
(***************************************************************************)
LEMMA OnlyDeletes ==
  ASSUME OInv, NEW c \in Clients, NEW q \in Request, Go(c, q), q.at # "register",
         q.at \in PutPlaces => Putting(c) /\ q.gen = req[c].gen,
         UNCHANGED <<accounts, regs, files, rows, acked, purging, crashed>>,
         UNCHANGED <<mem, gens, started, removing>>,
         remote' \subseteq remote,
         \A o \in remote : \/ o \in remote'
                           \/ o.gen \in purging
                           \/ Putting(c) /\ o.gen = req[c].gen /\ (\A r \in rows : r.gen # o.gen),
         ClientOK(c)'
  PROVE  OInv'
  <1>1. gens \in Nat /\ req \in [Clients -> Request]
    BY MaxOpsAssumption DEF OInv, Typed, TypeOK
  <1>2. /\ req' \in [Clients -> Request]
        /\ req'[c] = q
        /\ \A d \in Clients : d # c => req'[d] = req[d]
        /\ Registering' \subseteq Registering
    BY <1>1, Going
  <1>3. Typed'
    <2>1. remote' \subseteq Object
      BY DEF OInv, Typed, TypeOK
    <2>2. /\ mem' \in [Pools -> SUBSET Ids]
          /\ gens' \in Nat /\ gens' <= started'
          /\ started' \in 0..MaxOps /\ started <= started'
      BY Quiet
    <2> QED BY <1>2, <2>1, <2>2, TypedKept DEF OInv, Typed, TypeOK
  <1>4. Distinct'
    BY <1>2, DistinctKept DEF OInv, Putting
  <1>5. Tables'
    <2>1. Known' /\ OneName' /\ RowsHaveFiles' /\ OneRow'
      BY DEF OInv, Tables, Known, OneName, RowsHaveFiles, OneRow
    <2>2. RowsMatch' /\ PurgesAsked'
      BY DEF OInv, Tables, RowsMatch, PurgesAsked
    <2>3. NullsTaken' /\ AckedKept'
      BY SameAccounts DEF OInv, Tables, NullsTaken, AckedKept
    <2>4. CompleteHasAllRows'
      BY DEF OInv, Tables, CompleteHasAllRows, RowsOf
    <2>5. RowsPointSomewhere'
      <3> SUFFICES ASSUME NEW r \in rows, r.gen \notin purging
                   PROVE  \E o \in remote' : /\ o.gen = r.gen /\ o.idx = r.idx
                                             /\ r.acc \in {o.acc, Null}
        BY DEF RowsPointSomewhere
      <3>1. PICK o \in remote : o.gen = r.gen /\ o.idx = r.idx /\ r.acc \in {o.acc, Null}
        BY DEF OInv, Tables, RowsPointSomewhere
      <3>2. o \in remote'
        BY <3>1
      <3> QED BY <3>1, <3>2
    <2> QED BY <2>1, <2>2, <2>3, <2>4, <2>5 DEF Tables
  <1>6. ASSUME NEW d \in Clients, d # c PROVE ClientOK(d)'
    <2>1. ClientOK(d) /\ req'[d] = req[d]
      BY <1>2, <1>6 DEF OInv
    <2>2. /\ removing \subseteq removing' /\ purging \subseteq purging'
          /\ \A n \in Names : files'[n].gen = files[n].gen
      OBVIOUS
    <2>3. Private(d)' /\ Recording(d)'
      BY <1>1, <2>1, <2>2, UploadKept
    <2>4. /\ \A o \in remote' : o \in remote
                                 \/ (o.gen \notin purging /\ (Putting(d) => o.gen # req[d].gen))
          /\ \A o \in remote : Putting(d) /\ o.gen = req[d].gen /\ o.gen \notin purging'
                                => o \in remote'
      BY <1>6 DEF OInv, Distinct
    <2>5. Lasting /\ Mem(d) \subseteq Mem(d)' \cup Disconnected'
      BY SameAccounts DEF Mem
    <2>6. gens' \in Nat /\ gens <= gens'
      BY <1>1
    <2> QED BY <1>1, <2>1, <2>2, <2>3, <2>4, <2>5, <2>6, Quiet, OthersKept
  <1> QED BY <1>2, <1>3, <1>4, <1>5, <1>6 DEF OInv

(* An upload that cleans up has nothing to keep but what it stored.        *)
LEMMA PutCleanupKeeps ==
  ASSUME OInv, NEW c \in Clients, PutCleanup(c)
  PROVE  OInv'
  <1> USE DEF manifestVars, historyVars
  <1>1. UNCHANGED <<accounts, regs, files, rows, acked, purging, crashed>>
        /\ UNCHANGED <<mem, gens, started, removing>>
        /\ At(c, "cleanup")
    BY DEF PutCleanup
  <1>2. Putting(c) /\ req[c] \in PutReq
    BY <1>1, Shapes DEF OInv, Typed, Putting, PutPlaces, At, Uploading
  <1>3. req[c].up \in SUBSET Object
    BY <1>2, PutIsPut
  <1>4. CASE req[c].up = {}
    <2>1. Go(c, [at |-> "idle", ans |-> "error"]) /\ remote' = remote
      BY <1>4 DEF PutCleanup, Answer
    <2>2. [at |-> "idle", ans |-> "error"] \in EndReq
      BY EndIsPlain DEF Answers
    <2> QED BY <1>1, <2>1, <2>2, Quiet, OnlyPlain
  <1>5. CASE req[c].up # {}
    <2> DEFINE obj == First(req[c].up)
               u == req[c].up \ {obj}
               q == [req[c] EXCEPT !.up = u]
    <2>1. obj \in req[c].up
      BY <1>3, <1>5, FirstIsOne
    <2>2. Go(c, q)
      BY <1>5 DEF PutCleanup
    <2>3. remote' = remote \/ remote' = remote \ {obj}
      BY <1>5 DEF PutCleanup
    <2> HIDE DEF obj
    <2>4. /\ q \in PutReq /\ q.at = "cleanup" /\ q.gen = req[c].gen
          /\ q.cand = req[c].cand /\ q.up = u
      <3>1. u \in SUBSET Object /\ req[c].at = "cleanup"
        BY <1>1, <1>3 DEF At
      <3> HIDE DEF u
      <3> QED BY <1>2, <3>1, PutCounts
    <2> HIDE DEF q
    <2>5. q \in Request /\ q.at # "register" /\ q \notin PurgedReq /\ q \notin GotReq
          /\ q \notin DisconnectReq
      BY <2>4, PutIsPut
    <2>6. req'[c] = q
      BY <2>2, <2>5, Going DEF OInv, Typed
    <2>7. Stored(c) /\ Private(c) /\ obj.gen = req[c].gen
      BY <1>2, <2>1 DEF OInv, ClientOK, Stored
    <2>8. Stored(c)'
      <3>1. /\ req[c].gen <= gens
            /\ \A o \in u : o.gen = req[c].gen /\ o.acc \in Ids
            /\ \A o, p \in u : o.idx = p.idx => o = p
            /\ \A o \in u, p \in remote' : p.gen = o.gen /\ p.idx = o.idx => p = o
            /\ req[c].gen \notin purging => u \subseteq remote'
        BY <1>2, <2>3, <2>7 DEF Stored
      <3>2. req[c].cand \subseteq (Mem(c) \cup Disconnected)'
        BY <1>1, <1>2, <2>7, SameAccounts DEF Stored, Mem
      <3> HIDE DEF u
      <3> QED BY <1>1, <2>4, <2>6, <3>1, <3>2 DEF Stored
    <2>9. Private(c)'
      BY <1>1, <2>4, <2>6, <2>7 DEF Private, At
    <2>10. InOrder(c)' /\ Recording(c)' /\ Getting(c)' /\ Purging(c)'
      BY <2>4, <2>6 DEF InOrder, Recording, Getting, Purging, At, Uploading
    <2>11. Disconnecting(c)' /\ Gone(c)' /\ Whole(c)'
      BY <2>5, <2>6 DEF Disconnecting, Gone, Whole
    <2>12. ClientOK(c)'
      BY <2>8, <2>9, <2>10, <2>11 DEF ClientOK
    <2>13. \A r \in rows : r.gen # req[c].gen
      BY <1>1, <2>7 DEF Private
    <2>14. \A o \in remote : \/ o \in remote'
                             \/ o.gen \in purging
                             \/ Putting(c) /\ o.gen = req[c].gen /\ (\A r \in rows : r.gen # o.gen)
      BY <1>2, <2>3, <2>7, <2>13
    <2>15. remote' \subseteq remote
      BY <2>3
    <2> QED BY <1>1, <1>2, <2>2, <2>4, <2>5, <2>12, <2>14, <2>15, OnlyDeletes
  <1> QED BY <1>4, <1>5

(* A purge skips a chunk.                                                  *)
LEMMA PurgeSkips ==
  ASSUME NEW q \in PurgeReq, NEW l \in SUBSET Object
  PROVE  LET r == [q EXCEPT !.list = l, !.skipped = TRUE]
         IN  /\ r \in PurgeReq /\ r.at = "purge" /\ r.name = q.name /\ r.gen = q.gen
             /\ r.list = l /\ r.folders = q.folders /\ r.skipped
  BY Zenon DEF PurgeReq

(* A purge deletes a folder.                                               *)
LEMMA PurgeDeletesFolder ==
  ASSUME NEW q \in PurgeReq, NEW f \in SUBSET Ids
  PROVE  LET r == [q EXCEPT !.folders = f]
         IN  /\ r \in PurgeReq /\ r.at = "purge" /\ r.name = q.name /\ r.gen = q.gen
             /\ r.list = q.list /\ r.folders = f /\ r.skipped = q.skipped
  BY Zenon DEF PurgeReq

(* What a purge that goes on has to show.                                  *)
LEMMA PurgeGoesOn ==
  ASSUME OInv, NEW c \in Clients, At(c, "purge"), NEW q \in PurgeReq, Go(c, q),
         q.name = req[c].name, q.gen = req[c].gen,
         UNCHANGED <<accounts, regs, files, rows, acked, purging, crashed>>,
         UNCHANGED <<mem, gens, started, removing>>,
         remote' \subseteq remote,
         \A o \in remote : o \in remote' \/ o.gen = q.gen,
         q.list \subseteq req[c].list, q.folders \subseteq Mem(c) \cup Disconnected,
         ~q.skipped => \A o \in remote' : o.gen = q.gen =>
                         \E r \in q.list : r.idx = o.idx /\ r.acc \in {o.acc, Null}
  PROVE  OInv'
  <1>1. q.at = "purge"
    BY DEF PurgeReq
  <1>2. q \in Request /\ q.at # "register" /\ q.at \notin PutPlaces
    BY <1>1 DEF Request, PutPlaces
  <1>3. req'[c] = q
    BY <1>2, Going DEF OInv, Typed
  <1>4. /\ req[c].gen \in purging /\ req[c].name \in removing
        /\ \A o \in req[c].list : o.gen = req[c].gen
    BY DEF OInv, ClientOK, Purging
  <1>5. Getting(c)'
    BY <1>1, <1>3 DEF Getting, At
  <1>6. Purging(c)'
    <2>1. q.folders \subseteq (Mem(c) \cup Disconnected)'
      BY SameAccounts DEF Mem
    <2>2. \A o \in q.list : o.gen = q.gen
      BY <1>4
    <2>3. q.gen \in purging' /\ q.name \in removing'
      BY <1>4
    <2> QED BY <1>1, <1>3, <2>1, <2>2, <2>3 DEF Purging, At
  <1>7. Gone(c)' /\ Whole(c)'
    BY <1>1, <1>3, NotEnded DEF Gone, Whole
  <1>8. ClientOK(c)'
    BY <1>1, <1>3, <1>5, <1>6, <1>7, ReadOK
  <1>9. \A o \in remote : \/ o \in remote'
                          \/ o.gen \in purging
                          \/ Putting(c) /\ o.gen = req[c].gen /\ (\A r \in rows : r.gen # o.gen)
    BY <1>4
  <1> QED BY <1>2, <1>8, <1>9, OnlyDeletes

LEMMA PurgeChunkKeeps ==
  ASSUME OInv, NEW c \in Clients, PurgeChunk(c)
  PROVE  OInv'
  <1> USE DEF manifestVars, historyVars
  <1> DEFINE r == First(req[c].list)
             l == req[c].list \ {r}
             f == req[c].folders \cup {r.acc}
  <1>1. UNCHANGED <<accounts, regs, files, rows, acked, purging, crashed>>
        /\ UNCHANGED <<mem, gens, started, removing>>
        /\ At(c, "purge") /\ req[c].list # {}
    BY DEF PurgeChunk
  <1>2. req[c] \in PurgeReq /\ Purging(c) /\ remote \subseteq Object
    BY <1>1, Shapes DEF OInv, Typed, TypeOK, ClientOK
  <1>3. req[c].list \in SUBSET Object /\ req[c].folders \in SUBSET Ids
    BY <1>2 DEF PurgeReq
  <1>4. r \in req[c].list
    BY <1>1, <1>3, FirstIsOne
  <1>5. r \in Object /\ r.gen = req[c].gen
    BY <1>1, <1>2, <1>3, <1>4 DEF Purging
  <1>6. CASE r.acc \in Mem(c)
    <2> DEFINE q == [req[c] EXCEPT !.list = l, !.folders = f]
    <2>1. Go(c, q) /\ remote' = remote \ {r}
      BY <1>6 DEF PurgeChunk
    <2> HIDE DEF r
    <2>2. r.acc \in Ids
      BY <1>6, HomeAssumption DEF Mem, OInv, Typed, TypeOK
    <2>3. /\ q \in PurgeReq /\ q.name = req[c].name /\ q.gen = req[c].gen
          /\ q.list = l /\ q.folders = f /\ q.skipped = req[c].skipped
      <3>1. l \in SUBSET Object /\ f \in SUBSET Ids
        BY <1>3, <2>2
      <3> HIDE DEF l, f
      <3> QED BY <1>2, <3>1, Zenon DEF PurgeReq
    <2> HIDE DEF q
    <2>4. f \subseteq Mem(c) \cup Disconnected
      BY <1>1, <1>2, <1>6 DEF Purging
    <2>5. ASSUME ~q.skipped, NEW o \in remote', o.gen = q.gen
          PROVE  \E s \in l : s.idx = o.idx /\ s.acc \in {o.acc, Null}
      <3>1. o \in remote /\ o # r
        BY <2>1
      <3>2. ~req[c].skipped
        BY <2>3, <2>5, Zenon
      <3>3. PICK s \in req[c].list : s.idx = o.idx /\ s.acc \in {o.acc, Null}
        BY <1>1, <1>2, <2>3, <2>5, <3>1, <3>2 DEF Purging
      <3>4. s # r
        <4> SUFFICES ASSUME s = r PROVE FALSE
          OBVIOUS
        <4>1. r.acc = o.acc
          BY <2>2, <3>3, NullIsNoId
        <4> QED BY <1>2, <1>5, <2>3, <2>5, <3>1, <3>3, <4>1, SameObject
      <3> QED BY <3>3, <3>4
    <2>6. /\ remote' \subseteq remote /\ q.list \subseteq req[c].list
          /\ \A o \in remote : o \in remote' \/ o.gen = q.gen
      BY <1>5, <2>1, <2>3
    <2> HIDE DEF f, l
    <2> QED BY <1>1, <2>1, <2>3, <2>4, <2>5, <2>6, PurgeGoesOn
  <1>7. CASE r.acc \notin Mem(c)
    <2> DEFINE q == [req[c] EXCEPT !.list = l, !.skipped = TRUE]
    <2>1. Go(c, q) /\ remote' = remote
      BY <1>7 DEF PurgeChunk
    <2> HIDE DEF r
    <2>2. /\ q \in PurgeReq /\ q.name = req[c].name /\ q.gen = req[c].gen
          /\ q.list = l /\ q.folders = req[c].folders /\ q.skipped
      <3>1. l \in SUBSET Object
        BY <1>3
      <3> HIDE DEF l
      <3> QED BY <1>2, <3>1, PurgeSkips
    <2> HIDE DEF q
    <2>3. q.folders \subseteq Mem(c) \cup Disconnected
      BY <1>1, <1>2, <2>2 DEF Purging
    <2>4. /\ remote' \subseteq remote /\ q.list \subseteq req[c].list
          /\ \A o \in remote : o \in remote' \/ o.gen = q.gen
      BY <2>1, <2>2
    <2> HIDE DEF f, l
    <2> QED BY <1>1, <2>1, <2>2, <2>3, <2>4, PurgeGoesOn
  <1> QED BY <1>6, <1>7

LEMMA PurgeFolderKeeps ==
  ASSUME OInv, NEW c \in Clients, PurgeFolder(c)
  PROVE  OInv'
  <1> USE DEF manifestVars, historyVars
  <1>1. UNCHANGED <<accounts, regs, files, rows, acked, purging, crashed>>
        /\ UNCHANGED <<mem, gens, started, removing>>
        /\ At(c, "purge") /\ req[c].list = {}
    BY DEF PurgeFolder
  <1>2. req[c] \in PurgeReq /\ Purging(c)
    BY <1>1, Shapes DEF OInv, Typed, ClientOK
  <1>3. req[c].folders \in SUBSET Ids
    BY <1>2 DEF PurgeReq
  <1>4. CASE Answer(c, "panic") /\ remote' = remote
    <2>1. [at |-> "idle", ans |-> "panic"] \in EndReq
      BY EndIsPlain DEF Answers
    <2> QED BY <1>1, <1>4, <2>1, Quiet, OnlyPlain DEF Answer
  <1>5. ASSUME NEW a \in req[c].folders,
               remote' = {o \in remote : o.gen # req[c].gen \/ o.acc # a},
               Go(c, [req[c] EXCEPT !.folders = @ \ {a}])
        PROVE  OInv'
    <2> DEFINE f == req[c].folders \ {a}
               q == [req[c] EXCEPT !.folders = f]
    <2>1. Go(c, q)
      BY <1>5
    <2>2. /\ q \in PurgeReq /\ q.name = req[c].name /\ q.gen = req[c].gen
          /\ q.list = req[c].list /\ q.folders = f /\ q.skipped = req[c].skipped
      <3>1. f \in SUBSET Ids
        BY <1>3
      <3> HIDE DEF f
      <3> QED BY <1>2, <3>1, PurgeDeletesFolder
    <2> HIDE DEF q
    <2>3. q.folders \subseteq Mem(c) \cup Disconnected
      BY <1>1, <1>2, <2>2 DEF Purging
    <2>4. ~q.skipped => \A o \in remote' : o.gen = q.gen =>
                          \E r \in q.list : r.idx = o.idx /\ r.acc \in {o.acc, Null}
      <3>1. ASSUME ~q.skipped, NEW o \in remote', o.gen = q.gen PROVE FALSE
        <4>1. ~req[c].skipped
          BY <2>2, <3>1, Zenon
        <4>2. o \in remote
          BY <1>5
        <4> QED BY <1>1, <1>2, <2>2, <3>1, <4>1, <4>2 DEF Purging
      <3> QED BY <3>1
    <2>5. /\ remote' \subseteq remote /\ q.list \subseteq req[c].list
          /\ \A o \in remote : o \in remote' \/ o.gen = q.gen
      BY <1>5, <2>2
    <2> HIDE DEF f
    <2> QED BY <1>1, <2>1, <2>2, <2>3, <2>4, <2>5, PurgeGoesOn
  <1> QED BY <1>4, <1>5 DEF PurgeFolder

(***************************************************************************)
(* A purge announces itself: nobody relies on a file that has a name       *)
(* before it is recorded under that name.                                  *)
(***************************************************************************)
LEMMA StartPurgeKeeps ==
  ASSUME OInv, NEW c \in Clients, NEW n \in Names, StartPurge(c, n)
  PROVE  OInv'
  <1> USE DEF manifestVars, historyVars
  <1> DEFINE g == files[n].gen
             q == [at |-> "purge list", name |-> n, gen |-> g, ans |-> "none"]
  <1>1. UNCHANGED <<accounts, regs, files, rows, remote, acked, crashed>>
        /\ UNCHANGED <<mem, gens>> /\ removing' = removing \cup {n}
        /\ Start(c, "purge")
    BY DEF StartPurge
  <1>2. removing \subseteq removing' /\ n \in removing'
    BY <1>1
  <1>3. /\ mem' \in [Pools -> SUBSET Ids]
        /\ gens' \in Nat /\ gens <= gens' /\ gens' <= started'
        /\ started' \in 0..MaxOps /\ started <= started'
        /\ \A d \in Clients : Mem(d) \subseteq Mem(d)' \cup Disconnected'
    BY <1>1, <1>2, QuietStart
  <1>4. CASE g = 0
    <2>1. Go(c, [at |-> "idle", ans |-> "error"]) /\ purging' = purging
      BY <1>4 DEF StartPurge, Answer
    <2>2. [at |-> "idle", ans |-> "error"] \in EndReq
      BY EndIsPlain DEF Answers
    <2> QED BY <1>1, <1>2, <1>3, <2>1, <2>2, OnlyPlain
  <1>5. CASE g # 0
    <2>1. Go(c, q) /\ purging' = purging \cup {g}
      BY <1>5 DEF StartPurge
    <2>2. g \in 1..MaxOps /\ gens \in Nat /\ req \in [Clients -> Request]
      BY <1>5, MaxOpsAssumption DEF OInv, Typed, TypeOK
    <2>3. q \in ListReq /\ q.at = "purge list" /\ q.gen = g /\ q.name = n
      BY <2>2 DEF ListReq
    <2>4. q \in Request
      BY <2>3 DEF Request
    <2> HIDE DEF q
    <2>5. /\ req' \in [Clients -> Request]
          /\ req'[c] = q
          /\ \A d \in Clients : d # c => req'[d] = req[d]
          /\ Registering' \subseteq Registering
      BY <2>1, <2>2, <2>3, <2>4, Going
    <2>6. Typed'
      BY <1>1, <1>3, <2>5, TypedKept DEF OInv, Typed, TypeOK
    <2>7. Distinct'
      BY <2>3, <2>5, DistinctKept DEF OInv, Putting, PutPlaces
    <2>8. ClientOK(c)'
      <3>1. Getting(c)' /\ Purging(c)'
        BY <1>2, <2>1, <2>3, <2>5 DEF Getting, Purging, At
      <3>2. Gone(c)' /\ Whole(c)'
        BY <2>3, <2>5, NotEnded DEF Gone, Whole
      <3> QED BY <2>3, <2>5, <3>1, <3>2, ReadOK
    <2>9. ASSUME NEW d \in Clients, d # c PROVE ClientOK(d)'
      <3>1. ClientOK(d) /\ req'[d] = req[d]
        BY <2>5, <2>9 DEF OInv
      <3>2. Private(d)'
        BY <1>1, <2>1, <3>1 DEF ClientOK, Private, At
      <3>3. Recording(d)'
        BY <1>1, <3>1 DEF ClientOK, Recording, At
      <3>4. /\ purging \subseteq purging'
            /\ \A o \in remote' : o \in remote
                                 \/ (o.gen \notin purging /\ (Putting(d) => o.gen # req[d].gen))
            /\ \A o \in remote : Putting(d) /\ o.gen = req[d].gen /\ o.gen \notin purging'
                                => o \in remote'
        BY <1>1, <2>1
      <3>5. Lasting
        BY <1>1, SameAccounts
      <3> QED BY <1>2, <1>3, <2>2, <3>1, <3>2, <3>3, <3>4, <3>5, OthersKept
    <2>10. Tables'
      <3>1. Known'
        <4>1. g \in 1..gens
          BY <2>2 DEF OInv, Tables, Known
        <4> QED BY <1>1, <2>1, <4>1 DEF OInv, Tables, Known
      <3>2. PurgesAsked'
        <4> SUFFICES ASSUME NEW m \in Names, files[m].gen \in purging' PROVE m \in removing'
          BY <1>1 DEF PurgesAsked
        <4>1. CASE files[m].gen \in purging
          BY <1>2, <4>1 DEF OInv, Tables, PurgesAsked
        <4>2. CASE files[m].gen = g
          BY <1>2, <1>5, <4>2 DEF OInv, Tables, OneName
        <4> QED BY <2>1, <4>1, <4>2
      <3>3. OneName' /\ RowsHaveFiles' /\ OneRow' /\ RowsMatch'
        BY <1>1 DEF OInv, Tables, OneName, RowsHaveFiles, OneRow, RowsMatch
      <3>4. NullsTaken'
        BY <1>1, <1>3, SameAccounts DEF OInv, Tables, NullsTaken
      <3>5. AckedKept'
        BY <1>1, <1>2 DEF OInv, Tables, AckedKept
      <3>6. CompleteHasAllRows'
        BY <1>1 DEF OInv, Tables, CompleteHasAllRows, RowsOf
      <3>7. RowsPointSomewhere'
        BY <1>1, <2>1 DEF OInv, Tables, RowsPointSomewhere
      <3> QED BY <3>1, <3>2, <3>3, <3>4, <3>5, <3>6, <3>7 DEF Tables
    <2> QED BY <2>6, <2>7, <2>8, <2>9, <2>10 DEF OInv
  <1> QED BY <1>4, <1>5

LEMMA SoftRemoveKeeps ==
  ASSUME OInv, NEW c \in Clients, NEW n \in Names, SoftRemove(c, n)
  PROVE  OInv'
  <1> USE DEF manifestVars, historyVars
  <1>1. UNCHANGED <<accounts, regs, rows, remote, acked, purging, crashed>>
        /\ UNCHANGED <<mem, gens>> /\ removing' = removing \cup {n}
        /\ Start(c, "soft")
    BY DEF SoftRemove
  <1>2. removing \subseteq removing' /\ n \in removing'
    BY <1>1
  <1>3. /\ mem' \in [Pools -> SUBSET Ids]
        /\ gens' \in Nat /\ gens <= gens' /\ gens' <= started'
        /\ started' \in 0..MaxOps /\ started <= started'
        /\ \A d \in Clients : Mem(d) \subseteq Mem(d)' \cup Disconnected'
    BY <1>1, <1>2, QuietStart
  <1>4. CASE files[n].gen = 0
    <2>1. Go(c, [at |-> "idle", ans |-> "error"]) /\ files' = files
      BY <1>4 DEF SoftRemove, Answer
    <2>2. [at |-> "idle", ans |-> "error"] \in EndReq
      BY EndIsPlain DEF Answers
    <2> QED BY <1>1, <1>2, <1>3, <2>1, <2>2, OnlyPlain
  <1>5. CASE files[n].gen # 0
    <2> DEFINE q == [at |-> "idle", ans |-> "ok"]
    <2>1. Go(c, q) /\ files' = [files EXCEPT ![n].status = "deleted"]
      BY <1>5 DEF SoftRemove, Answer
    <2>2. gens \in Nat /\ req \in [Clients -> Request]
      BY MaxOpsAssumption DEF OInv, Typed, TypeOK
    <2>3. q \in EndReq /\ q.at = "idle"
      BY EndIsPlain DEF Answers
    <2>4. q \in Request
      BY <2>3 DEF Request
    <2> HIDE DEF q
    <2>5. /\ req' \in [Clients -> Request]
          /\ req'[c] = q
          /\ \A d \in Clients : d # c => req'[d] = req[d]
          /\ Registering' \subseteq Registering
      BY <2>1, <2>2, <2>3, <2>4, Going
    <2>6. /\ files' \in [Names -> [gen: 0..MaxOps,
                                   status: {"none", "incomplete", "complete", "deleted"}]]
          /\ \A m \in Names : files'[m].gen = files[m].gen
          /\ \A m \in Names : m # n => files'[m] = files[m]
          /\ files'[n].status = "deleted"
      BY <2>1 DEF OInv, Typed, TypeOK
    <2>7. Typed'
      BY <1>1, <1>3, <2>5, <2>6, TypedKept DEF OInv, Typed, TypeOK
    <2>8. Distinct'
      BY <2>3, <2>5, DistinctKept DEF OInv, Putting, PutPlaces
    <2>9. ClientOK(c)'
      BY <2>3, <2>5, PlainOK
    <2>10. ASSUME NEW d \in Clients, d # c PROVE ClientOK(d)'
      <3>1. ClientOK(d) /\ req'[d] = req[d]
        BY <2>5, <2>10 DEF OInv
      <3>2. Private(d)' /\ Recording(d)'
        BY <1>1, <1>2, <2>2, <2>6, <3>1, UploadKept
      <3>3. /\ purging \subseteq purging'
            /\ \A o \in remote' : o \in remote
                                 \/ (o.gen \notin purging /\ (Putting(d) => o.gen # req[d].gen))
            /\ \A o \in remote : Putting(d) /\ o.gen = req[d].gen /\ o.gen \notin purging'
                                => o \in remote'
        BY <1>1
      <3>5. Lasting
        BY <1>1, SameAccounts
      <3> QED BY <1>2, <1>3, <2>2, <3>1, <3>2, <3>3, <3>5, OthersKept
    <2>11. Tables'
      <3>1. Known' /\ RowsHaveFiles'
        BY <1>1, <2>6 DEF OInv, Tables, Known, RowsHaveFiles
      <3>2. OneName' /\ OneRow' /\ RowsMatch'
        BY <1>1, <2>6 DEF OInv, Tables, OneName, OneRow, RowsMatch
      <3>3. NullsTaken' /\ PurgesAsked'
        BY <1>1, <1>2, <1>3, <2>6, SameAccounts DEF OInv, Tables, NullsTaken, PurgesAsked
      <3>4. AckedKept'
        BY <1>1, <1>2, <2>6 DEF OInv, Tables, AckedKept
      <3>5. CompleteHasAllRows'
        BY <1>1, <2>6 DEF OInv, Tables, CompleteHasAllRows, RowsOf
      <3>6. RowsPointSomewhere'
        BY <1>1 DEF OInv, Tables, RowsPointSomewhere
      <3> QED BY <3>1, <3>2, <3>3, <3>4, <3>5, <3>6 DEF Tables
    <2> QED BY <2>7, <2>8, <2>9, <2>10, <2>11 DEF OInv
  <1> QED BY <1>4, <1>5

(* A file that is complete is a file.                                      *)
LEMMA CompleteIsFile ==
  ASSUME OInv, NEW n \in Names, files[n].status = "complete"
  PROVE  files[n].gen # 0
  <1> SUFFICES ASSUME files[n].gen = 0 PROVE FALSE
    OBVIOUS
  <1>1. {r.idx : r \in RowsOf(0)} = 1..NumChunks
    BY DEF OInv, Tables, CompleteHasAllRows
  <1>2. RowsOf(0) = {}
    BY MaxOpsAssumption DEF RowsOf, OInv, Typed, TypeOK, Object
  <1>3. 1 \in 1..NumChunks
    BY NumChunksAssumption
  <1> QED BY <1>1, <1>2, <1>3

(***************************************************************************)
(* The last statement of a purge takes the file that has the name by then, *)
(* which need not be the one it looked up; the rows go with the file.      *)
(***************************************************************************)
LEMMA PurgeDeleteKeeps ==
  ASSUME OInv, NEW c \in Clients, PurgeDelete(c)
  PROVE  OInv'
  <1> USE DEF manifestVars, historyVars
  <1> DEFINE n == req[c].name
             h == files[n].gen
             q == [at |-> "idle", ans |-> "ok", purged |-> req[c].gen, skipped |-> req[c].skipped]
  <1>1. UNCHANGED <<accounts, regs, remote, acked, purging, crashed>>
        /\ UNCHANGED <<mem, gens, started, removing>>
        /\ At(c, "purge") /\ req[c].list = {} /\ Go(c, q)
        /\ rows' = rows \ RowsOf(h) /\ files' = [files EXCEPT ![n] = NoFile]
    BY DEF PurgeDelete
  <1>2. /\ req[c] \in PurgeReq /\ Purging(c) /\ gens \in Nat /\ req \in [Clients -> Request]
        /\ files \in [Names -> [gen: 0..MaxOps,
                                status: {"none", "incomplete", "complete", "deleted"}]]
        /\ rows \subseteq Object /\ remote \subseteq Object
    <2>1. req[c] \in PurgeReq
      BY <1>1, Shapes DEF OInv, Typed
    <2>2. Purging(c)
      BY DEF OInv, ClientOK
    <2> QED BY <2>1, <2>2, MaxOpsAssumption DEF OInv, Typed, TypeOK
  <1>3. n \in Names /\ n \in removing /\ req[c].gen \in 1..MaxOps /\ req[c].gen \in purging
        /\ req[c].skipped \in BOOLEAN
    BY <1>1, <1>2 DEF PurgeReq, Purging
  <1>4. /\ q \in PurgedReq /\ q.at = "idle" /\ q.purged = req[c].gen
        /\ q.skipped = req[c].skipped /\ "got" \notin DOMAIN q
    <2>1. q \in PurgedReq /\ q.at = "idle" /\ q.purged = req[c].gen
      BY <1>3, Zenon DEF PurgedReq
    <2>2. q.skipped = req[c].skipped
      BY Zenon
    <2>3. "got" \notin DOMAIN q
      OBVIOUS
    <2> QED BY <2>1, <2>2, <2>3
  <1>5. q \in Request
    BY <1>4 DEF Request
  <1> HIDE DEF q
  <1>6. /\ req' \in [Clients -> Request]
        /\ req'[c] = q
        /\ \A d \in Clients : d # c => req'[d] = req[d]
        /\ Registering' \subseteq Registering
    BY <1>1, <1>2, <1>4, <1>5, Going
  <1>7. /\ rows' \subseteq rows
        /\ \A r \in rows : r.gen # h => r \in rows'
        /\ \A r \in rows' : r.gen # h
    BY <1>1 DEF RowsOf
  <1>8. /\ files' \in [Names -> [gen: 0..MaxOps,
                                 status: {"none", "incomplete", "complete", "deleted"}]]
        /\ files'[n].gen = 0 /\ files'[n].status = "none"
        /\ \A m \in Names : m # n => files'[m] = files[m]
    BY <1>1, <1>2, <1>3, MaxOpsAssumption DEF NoFile
  <1> HIDE DEF n, h
  <1>9. Typed'
    <2>1. rows' \subseteq Object
      BY <1>2, <1>7
    <2> QED BY <1>1, <1>6, <1>8, <2>1, Quiet, TypedKept DEF OInv, Typed, TypeOK
  <1>10. Distinct'
    BY <1>4, <1>6, DistinctKept DEF OInv, Putting, PutPlaces
  <1>11. ClientOK(c)'
    <2>1. Getting(c)' /\ Purging(c)'
      BY <1>4, <1>6 DEF Getting, Purging, At
    <2>2. Gone(c)'
      <3>1. ~req[c].skipped => \A o \in remote : o.gen # req[c].gen
        BY <1>1, <1>2 DEF Purging
      <3> QED BY <1>1, <1>3, <1>4, <1>6, <3>1 DEF Gone
    <2>3. Whole(c)'
      <3>1. q \in GotReq => "got" \in DOMAIN q
        BY DEF GotReq
      <3> QED BY <1>4, <1>6, <3>1 DEF Whole
    <2> QED BY <1>4, <1>6, <2>1, <2>2, <2>3, ReadOK
  <1>12. ASSUME NEW d \in Clients, d # c PROVE ClientOK(d)'
    <2>1. ClientOK(d) /\ req'[d] = req[d]
      BY <1>6, <1>12 DEF OInv
    <2>2. Putting(d) => req[d].gen \in 1..MaxOps /\ req[d].name \in Names
      BY <1>2, Shapes, PutIsPut
    <2>3. Private(d)'
      BY <1>1, <1>7, <1>8, <2>1, <2>2 DEF ClientOK, Private, At, Putting, PutPlaces
    <2>4. Recording(d)'
      <3> SUFFICES ASSUME At(d, "record") PROVE Recording(d)'
        BY <2>1 DEF Recording, At
      <3>1. Recording(d) /\ req[d].gen # 0 /\ req[d].name \in Names
        BY <2>1, <2>2 DEF ClientOK, At, Putting, PutPlaces
      <3>2. /\ \A m \in Names : files'[m].gen = req[d].gen => m = req[d].name
            /\ req[d].name \notin removing => files'[req[d].name].gen = req[d].gen
        BY <1>3, <1>8, <3>1 DEF Recording
      <3>3. \A o \in req[d].up, r \in rows' : r.gen = req[d].gen => r.idx # o.idx
        BY <1>7, <3>1 DEF Recording
      <3>4. ASSUME files'[req[d].name].gen = req[d].gen
            PROVE  \A i \in 1..NumChunks :
                     \/ \E o \in req[d].up : o.idx = i
                     \/ \E r \in rows' : r.gen = req[d].gen /\ r.idx = i
        <4>1. req[d].name # n /\ files[req[d].name].gen = req[d].gen
          BY <1>8, <3>1, <3>4
        <4>2. req[d].gen # h
          BY <1>3, <3>1, <4>1 DEF OInv, Tables, OneName, h
        <4> QED BY <1>7, <3>1, <4>1, <4>2 DEF Recording
      <3> QED BY <1>1, <2>1, <3>2, <3>3, <3>4 DEF Recording
    <2>5. /\ removing \subseteq removing' /\ purging \subseteq purging'
          /\ \A o \in remote' : o \in remote
                                 \/ (o.gen \notin purging /\ (Putting(d) => o.gen # req[d].gen))
          /\ \A o \in remote : Putting(d) /\ o.gen = req[d].gen /\ o.gen \notin purging'
                                => o \in remote'
      BY <1>1
    <2>6. /\ gens' \in Nat /\ gens <= gens' /\ Lasting
      /\ Mem(d) \subseteq Mem(d)' \cup Disconnected'
      BY <1>1, Quiet, SameAccounts
    <2> QED BY <1>2, <2>1, <2>3, <2>4, <2>5, <2>6, OthersKept
  <1>13. Tables'
    <2>1. Known'
      BY <1>1, <1>2, <1>7, <1>8 DEF OInv, Tables, Known
    <2>2. OneName'
      BY <1>8 DEF OInv, Tables, OneName
    <2>3. RowsHaveFiles'
      <3> SUFFICES ASSUME NEW r \in rows' PROVE \E m \in Names : files'[m].gen = r.gen
        BY DEF RowsHaveFiles
      <3>1. PICK m \in Names : files[m].gen = r.gen
        BY <1>7 DEF OInv, Tables, RowsHaveFiles
      <3>2. m # n
        BY <1>7, <3>1 DEF h
      <3> QED BY <1>8, <3>1, <3>2
    <2>4. OneRow' /\ RowsMatch'
      BY <1>1, <1>7 DEF OInv, Tables, OneRow, RowsMatch
    <2>5. NullsTaken'
      BY <1>1, <1>7, SameAccounts DEF OInv, Tables, NullsTaken
    <2>6. PurgesAsked'
      BY <1>1, <1>3, <1>8 DEF OInv, Tables, PurgesAsked
    <2>7. AckedKept'
      BY <1>1, <1>3, <1>8 DEF OInv, Tables, AckedKept
    <2>8. CompleteHasAllRows'
      <3> SUFFICES ASSUME NEW m \in Names, files'[m].status = "complete"
                   PROVE  {r.idx : r \in RowsOf(files[m].gen)'} = 1..NumChunks
                          /\ files'[m].gen = files[m].gen
        BY DEF CompleteHasAllRows, RowsOf
      <3>1. m # n /\ files'[m] = files[m]
        BY <1>8
      <3>2. files[m].gen # h
        BY <1>3, <3>1, CompleteIsFile DEF OInv, Tables, OneName, h
      <3>3. RowsOf(files[m].gen)' = RowsOf(files[m].gen)
        BY <1>7, <3>1, <3>2 DEF RowsOf
      <3> QED BY <3>1, <3>3 DEF OInv, Tables, CompleteHasAllRows
    <2>9. RowsPointSomewhere'
      BY <1>1, <1>7 DEF OInv, Tables, RowsPointSomewhere
    <2> QED BY <2>1, <2>2, <2>3, <2>4, <2>5, <2>6, <2>7, <2>8, <2>9 DEF Tables
  <1> QED BY <1>9, <1>10, <1>11, <1>12, <1>13 DEF OInv

(* What is left to show of an upload that goes on.                         *)
LEMMA UploadOK ==
  ASSUME NEW c \in Clients, req'[c] \in PutReq,
         Stored(c)', Private(c)', InOrder(c)', Recording(c)'
  PROVE  ClientOK(c)'
  <1>1. req'[c].at \in PutPlaces
    BY PutIsPut
  <1>2. req'[c] \notin PurgedReq /\ req'[c] \notin GotReq /\ req'[c] \notin DisconnectReq
    BY PutIsPut
  <1> QED BY <1>1, <1>2 DEF ClientOK, Getting, Purging, Disconnecting, Gone, Whole, PutPlaces, At, Uploading

(* An upload starts with a generation nobody knows.                        *)
LEMMA StartPutKeeps ==
  ASSUME OInv, NEW c \in Clients, NEW n \in Names, StartPut(c, n)
  PROVE  OInv'
  <1> USE DEF manifestVars, historyVars
  <1>1. UNCHANGED <<accounts, regs, files, rows, remote, acked, purging, crashed>>
        /\ UNCHANGED <<mem, removing>> /\ gens' = gens + 1
        /\ Start(c, "put")
    BY DEF StartPut
  <1>2. /\ gens \in Nat /\ started \in Nat /\ gens <= started
        /\ mem \in [Pools -> SUBSET Ids] /\ req \in [Clients -> Request]
    BY MaxOpsAssumption DEF OInv, Typed, TypeOK
  <1>3. /\ mem' \in [Pools -> SUBSET Ids]
        /\ gens' \in Nat /\ gens <= gens' /\ gens' <= started'
        /\ started' \in 0..MaxOps /\ started <= started'
        /\ gens + 1 \in 1..MaxOps
        /\ removing \subseteq removing'
    BY <1>1, <1>2, MaxOpsAssumption DEF Start
  <1>4. Lasting /\ \A d \in Clients : Mem(d) \subseteq Mem(d)' \cup Disconnected'
    BY <1>1, SameAccounts DEF Mem
  <1>5. CASE Mem(c) = {}
    <2>1. Go(c, [at |-> "idle", ans |-> "error"])
      BY <1>5 DEF StartPut, Answer
    <2>2. [at |-> "idle", ans |-> "error"] \in EndReq
      BY EndIsPlain DEF Answers
    <2> QED BY <1>1, <1>3, <1>4, <2>1, <2>2, OnlyPlain
  <1>6. CASE Mem(c) # {}
    <2> DEFINE q == [at |-> "upload", name |-> n, gen |-> gens + 1, cand |-> Mem(c),
                     idx |-> 0, up |-> {}, ans |-> "none"]
    <2>1. Go(c, q)
      BY <1>6 DEF StartPut
    <2>2. Mem(c) \in SUBSET Ids
      BY <1>2, HomeAssumption DEF Mem
    <2>3. /\ q \in PutReq /\ q.at = "upload" /\ q.name = n /\ q.gen = gens + 1
          /\ q.cand = Mem(c) /\ q.idx = 0 /\ q.up = {}
      BY <1>3, <2>2, NumChunksAssumption DEF PutReq, PutPlaces
    <2>4. q \in Request
      BY <2>3, PutIsPut
    <2> HIDE DEF q
    <2>5. /\ req' \in [Clients -> Request]
          /\ req'[c] = q
          /\ \A d \in Clients : d # c => req'[d] = req[d]
          /\ Registering' \subseteq Registering
      BY <1>2, <2>1, <2>3, <2>4, Going
    <2>6. Typed'
      BY <1>1, <1>3, <2>5, TypedKept DEF OInv, Typed, TypeOK
    <2>7. Distinct'
      <3>1. \A d \in Clients : Putting(d) => req[d].gen # gens + 1
        <4> SUFFICES ASSUME NEW d \in Clients, Putting(d) PROVE req[d].gen # gens + 1
          OBVIOUS
        <4>1. req[d].gen \in 1..MaxOps
          BY <1>2, Shapes, PutIsPut
        <4>2. req[d].gen <= gens
          BY DEF OInv, ClientOK, Stored
        <4> QED BY <1>2, <4>1, <4>2, MaxOpsAssumption
      <3> QED BY <2>3, <2>5, <3>1 DEF OInv, Distinct, Putting
    <2>8. ClientOK(c)'
      <3>1. Stored(c)'
        BY <1>1, <1>2, <2>3, <2>5 DEF Stored, Mem
      <3>2. /\ gens + 1 \notin purging
            /\ \A m \in Names : files[m].gen # gens + 1
            /\ \A r \in rows \cup remote : r.gen # gens + 1
        <4>1. /\ \A m \in Names : files[m].gen \in Nat
              /\ \A r \in rows \cup remote : r.gen \in Nat
          BY MaxOpsAssumption DEF OInv, Typed, TypeOK, Object
        <4>2. Known
          BY DEF OInv, Tables
        <4> QED BY <1>2, <4>1, <4>2 DEF Known
      <3>3. Private(c)'
        BY <1>1, <2>3, <2>5, <3>2 DEF Private
      <3>4. InOrder(c)'
        <4>1. q.idx < NumChunks /\ 1..q.idx = {}
          BY <2>3, NumChunksAssumption
        <4>2. \A p \in remote' : p.gen # q.gen
          BY <1>1, <2>3, <3>2
        <4> QED BY <2>3, <2>5, <4>1, <4>2 DEF InOrder, At, Uploading
      <3>5. Recording(c)'
        BY <2>3, <2>5 DEF Recording, At
      <3> QED BY <2>3, <2>5, <3>1, <3>3, <3>4, <3>5, UploadOK
    <2>9. ASSUME NEW d \in Clients, d # c PROVE ClientOK(d)'
      <3>1. ClientOK(d) /\ req'[d] = req[d]
        BY <2>5, <2>9 DEF OInv
      <3>2. Private(d)' /\ Recording(d)'
        BY <1>1, <1>2, <1>3, <3>1, UploadKept
      <3>3. /\ purging \subseteq purging'
            /\ \A o \in remote' : o \in remote
                                 \/ (o.gen \notin purging /\ (Putting(d) => o.gen # req[d].gen))
            /\ \A o \in remote : Putting(d) /\ o.gen = req[d].gen /\ o.gen \notin purging'
                                => o \in remote'
        BY <1>1
      <3> QED BY <1>2, <1>3, <1>4, <3>1, <3>2, <3>3, OthersKept
    <2>10. Tables'
      BY <1>1, <1>2, <1>3, <1>4, TablesKept DEF OInv
    <2> QED BY <2>6, <2>7, <2>8, <2>9, <2>10 DEF OInv
  <1> QED BY <1>5, <1>6

(***************************************************************************)
(* One more chunk: the next index, stored where the candidates are.        *)
(***************************************************************************)
LEMMA PutChunkKeeps ==
  ASSUME OInv, NEW c \in Clients, PutChunk(c)
  PROVE  OInv'
  <1> USE DEF manifestVars, historyVars
  <1> DEFINE k == req[c].idx
             g == req[c].gen
             Obj(a) == [gen |-> g, idx |-> k + 1, acc |-> a]
  <1>1. UNCHANGED <<accounts, regs, files, rows, acked, purging, crashed>>
        /\ UNCHANGED <<mem, gens, started, removing>>
        /\ Uploading(c)
    BY DEF PutChunk
  <1>2. Putting(c) /\ req[c] \in PutReq /\ req \in [Clients -> Request] /\ gens \in Nat
        /\ remote \subseteq Object /\ rows \subseteq Object
    <2>1. Putting(c)
      BY <1>1 DEF Putting, PutPlaces, At, Uploading
    <2>2. req[c] \in PutReq
      BY <2>1, Shapes DEF OInv, Typed
    <2> QED BY <2>1, <2>2, MaxOpsAssumption DEF OInv, Typed, TypeOK
  <1>3. req[c].up \in SUBSET Object /\ req[c].cand \in SUBSET Ids /\ g \in 1..MaxOps
    BY <1>2, PutIsPut
  <1>4. Stored(c) /\ Private(c) /\ InOrder(c) /\ Distinct
    BY DEF OInv, ClientOK
  <1>5. /\ k \in Nat /\ k < NumChunks
        /\ \A o \in req[c].up : o.idx <= k
        /\ At(c, "upload") => \A i \in 1..k : \E o \in req[c].up : o.idx = i
        /\ \A t \in remote : t.gen = g => t.idx <= k
    BY <1>1, <1>2, <1>4, PutIsPut, NumChunksAssumption DEF InOrder
  <1>6. g \notin purging /\ (\A m \in Names : files[m].gen # g) /\ (\A r \in rows : r.gen # g)
    BY <1>1, <1>4 DEF Private, Uploading
  <1>7. PICK a \in req[c].cand :
          /\ remote' = remote \cup {Obj(a)}
          /\ Go(c, [req[c] EXCEPT !.up = @ \cup {Obj(a)}, !.idx = @ + 1,
                                  !.at = AfterChunk(@, k + 1)])
    BY DEF PutChunk, Targets
  <1> DEFINE obj == Obj(a)
             u == req[c].up \cup {obj}
             p == AfterChunk(req[c].at, k + 1)
             q == [req[c] EXCEPT !.up = u, !.idx = k + 1, !.at = p]
  <1>8. /\ obj \in Object /\ obj.gen = g /\ obj.idx = k + 1 /\ obj.acc \in Ids
        /\ k + 1 \in 1..NumChunks
    <2>1. a \in Ids /\ k + 1 \in 1..NumChunks
      BY <1>3, <1>5, <1>7, NumChunksAssumption
    <2> QED BY <1>3, <2>1 DEF Object
  <1>9. Go(c, q) /\ remote' = remote \cup {obj}
    BY <1>7
  <1>11. /\ p \in {"create", "cleanup"} => k + 1 = NumChunks
         /\ p \in {"upload", "failing"} => k + 1 < NumChunks
         /\ p \in {"create", "upload"} => At(c, "upload")
         /\ p \in {"upload", "failing", "create", "cleanup"}
    BY <1>1, <1>5, NumChunksAssumption DEF AfterChunk, Uploading, At
  <1> HIDE DEF k, g, obj, Obj, p
  <1>10. /\ q \in PutReq /\ q.at = p /\ q.name = req[c].name /\ q.gen = g
         /\ q.cand = req[c].cand /\ q.idx = k + 1 /\ q.up = u
    <2>1. u \in SUBSET Object /\ p \in PutPlaces /\ k + 1 \in 0..NumChunks
      BY <1>3, <1>5, <1>8, <1>11, NumChunksAssumption DEF PutPlaces
    <2> HIDE DEF u
    <2> QED BY <1>2, <2>1, Zenon DEF PutReq, g
  <1> HIDE DEF q
  <1>12. q \in Request
    BY <1>10, PutIsPut
  <1>13. /\ req' \in [Clients -> Request]
         /\ req'[c] = q
         /\ \A d \in Clients : d # c => req'[d] = req[d]
         /\ Registering' \subseteq Registering
    BY <1>2, <1>9, <1>10, <1>11, <1>12, Going
  <1>14. Typed'
    <2>1. remote' \subseteq Object
      BY <1>2, <1>8, <1>9
    <2> QED BY <1>1, <1>13, <2>1, Quiet, TypedKept DEF OInv, Typed, TypeOK
  <1>15. Distinct'
    <2>1. \A d \in Clients : Putting(d)' => Putting(d) /\ req'[d].gen = req[d].gen
      BY <1>2, <1>10, <1>13 DEF Putting, g
    <2> QED BY <1>4, <2>1, DistinctKept
  <1>17. ClientOK(c)'
    <2>1. Stored(c)'
      <3>1. /\ g <= gens
            /\ \A o \in u : o.gen = g /\ o.acc \in Ids
            /\ u \subseteq remote'
        BY <1>2, <1>4, <1>6, <1>8, <1>9 DEF Stored, g
      <3>2. \A o \in req[c].up : o.idx # k + 1
        BY <1>5, <1>3, NumChunksAssumption DEF Object
      <3>3. \A o \in remote : o.gen = g => o.idx # k + 1
        BY <1>5, <1>2, NumChunksAssumption DEF Object
      <3>4. \A o, t \in u : o.idx = t.idx => o = t
        BY <1>2, <1>4, <1>8, <3>2 DEF Stored
      <3>5. \A o \in u, t \in remote' : t.gen = o.gen /\ t.idx = o.idx => t = o
        BY <1>2, <1>4, <1>8, <1>9, <3>2, <3>3 DEF Stored, g
      <3>6. q.cand \subseteq (Mem(c) \cup Disconnected)'
        BY <1>1, <1>2, <1>4, <1>10, SameAccounts DEF Stored, Mem
      <3> HIDE DEF u
      <3> QED BY <1>1, <1>10, <1>13, <3>1, <3>4, <3>5, <3>6 DEF Stored
    <2>2. Private(c)'
      BY <1>1, <1>6, <1>10, <1>13 DEF Private
    <2>3. InOrder(c)'
      <3>1. \A o \in u : o.idx <= k + 1
        BY <1>3, <1>5, <1>8, NumChunksAssumption DEF Object
      <3>2. At(c, "upload") => \A i \in 1..(k + 1) : \E o \in u : o.idx = i
        <4> SUFFICES ASSUME At(c, "upload"), NEW i \in 1..(k + 1) PROVE \E o \in u : o.idx = i
          OBVIOUS
        <4>1. CASE i = k + 1
          BY <1>8, <4>1
        <4>2. CASE i \in 1..k
          BY <1>5, <4>2
        <4> QED BY <1>5, <4>1, <4>2
      <3>3. \A t \in remote' : t.gen = g => t.idx <= k + 1
        BY <1>2, <1>5, <1>8, <1>9, NumChunksAssumption DEF Object
      <3> HIDE DEF u
      <3>4. Uploading(c)' => k + 1 < NumChunks
        BY <1>10, <1>11, <1>13 DEF At, Uploading
      <3>5. At(c, "upload")' => \A i \in 1..(k + 1) : \E o \in u : o.idx = i
        BY <1>10, <1>11, <1>13, <3>2 DEF At
      <3>6. At(c, "create")' => \A i \in 1..NumChunks : \E o \in u : o.idx = i
        BY <1>10, <1>11, <1>13, <3>2 DEF At
      <3> QED BY <1>10, <1>13, <3>1, <3>3, <3>4, <3>5, <3>6 DEF InOrder
    <2>4. Recording(c)'
      BY <1>10, <1>11, <1>13 DEF Recording, At
    <2> QED BY <1>10, <1>13, <2>1, <2>2, <2>3, <2>4, UploadOK
  <1>18. ASSUME NEW d \in Clients, d # c PROVE ClientOK(d)'
    <2>1. ClientOK(d) /\ req'[d] = req[d]
      BY <1>13, <1>18 DEF OInv
    <2>2. /\ removing \subseteq removing' /\ purging \subseteq purging'
          /\ \A m \in Names : files'[m].gen = files[m].gen
      BY <1>1
    <2>3. Private(d)' /\ Recording(d)'
      BY <1>1, <1>2, <2>1, <2>2, UploadKept
    <2>4. /\ \A o \in remote' : o \in remote
                                 \/ (o.gen \notin purging /\ (Putting(d) => o.gen # req[d].gen))
          /\ \A o \in remote : Putting(d) /\ o.gen = req[d].gen /\ o.gen \notin purging'
                                => o \in remote'
      BY <1>2, <1>4, <1>6, <1>8, <1>9, <1>18 DEF Distinct, g
    <2>5. gens' \in Nat /\ gens <= gens' /\ Lasting
      /\ Mem(d) \subseteq Mem(d)' \cup Disconnected'
      BY <1>1, Quiet, SameAccounts
    <2> QED BY <1>2, <2>1, <2>2, <2>3, <2>4, <2>5, OthersKept
  <1>19. Tables'
    <2>1. Known'
      <3>1. obj.gen <= gens
        BY <1>2, <1>4, <1>8 DEF Stored, g
      <3> QED BY <1>1, <1>9, <3>1 DEF OInv, Tables, Known
    <2>2. OneName' /\ RowsHaveFiles' /\ OneRow'
      BY <1>1 DEF OInv, Tables, OneName, RowsHaveFiles, OneRow
    <2>3. RowsMatch'
      BY <1>1, <1>6, <1>8, <1>9 DEF OInv, Tables, RowsMatch
    <2>4. NullsTaken' /\ AckedKept' /\ PurgesAsked'
      BY <1>1, <1>6, <1>8, <1>9, SameAccounts DEF OInv, Tables, NullsTaken, AckedKept, PurgesAsked
    <2>5. CompleteHasAllRows'
      BY <1>1 DEF OInv, Tables, CompleteHasAllRows, RowsOf
    <2>6. RowsPointSomewhere'
      BY <1>1, <1>9 DEF OInv, Tables, RowsPointSomewhere
    <2> QED BY <2>1, <2>2, <2>3, <2>4, <2>5, <2>6 DEF Tables
  <1> QED BY <1>13, <1>14, <1>15, <1>17, <1>18, <1>19 DEF OInv

(* A process dies, and with it every request it was serving.               *)
LEMMA PutPanicsKeeps ==
  ASSUME OInv, NEW c \in Clients, PutPanics(c)
  PROVE  OInv'
  <1> USE DEF manifestVars, historyVars
  <1> DEFINE q == [at |-> "idle", ans |-> "panic"]
  <1>1. UNCHANGED <<accounts, regs, files, rows, remote, acked, purging>>
        /\ UNCHANGED <<mem, gens, started, removing>>
        /\ crashed' = crashed \cup {Home[c]}
        /\ req' = [d \in Clients |-> IF Home[d] = Home[c] THEN q ELSE req[d]]
    BY DEF PutPanics
  <1>2. q \in EndReq /\ q \in Request /\ q.at = "idle"
    BY EndIsPlain DEF Answers, Request
  <1>3. gens \in Nat /\ req \in [Clients -> Request]
    BY MaxOpsAssumption DEF OInv, Typed, TypeOK
  <1> HIDE DEF q
  <1>4. /\ req' \in [Clients -> Request]
        /\ \A d \in Clients : req'[d] = req[d] \/ req'[d] = q
    BY <1>1, <1>2, <1>3
  <1>5. Registering' \subseteq Registering
    BY <1>2, <1>4 DEF Registering, At
  <1>6. Typed'
    <2>1. crashed' \subseteq Pools
      BY <1>1, HomeAssumption DEF OInv, Typed, TypeOK
    <2> QED BY <1>1, <1>4, <1>5, <2>1, Quiet, TypedKept DEF OInv, Typed, TypeOK
  <1>7. Distinct'
    BY <1>2, <1>4, DistinctKept DEF OInv, Putting, PutPlaces
  <1>8. ASSUME NEW d \in Clients PROVE ClientOK(d)'
    <2>1. CASE req'[d] = q
      BY <1>2, <2>1, PlainOK
    <2>2. CASE req'[d] = req[d]
      <3>1. ClientOK(d)
        BY DEF OInv
      <3>2. /\ removing \subseteq removing' /\ purging \subseteq purging'
            /\ \A n \in Names : files'[n].gen = files[n].gen
        BY <1>1
      <3>3. Private(d)' /\ Recording(d)'
        BY <1>1, <1>3, <2>2, <3>1, <3>2, UploadKept
      <3>4. /\ \A o \in remote' : o \in remote
                                 \/ (o.gen \notin purging /\ (Putting(d) => o.gen # req[d].gen))
            /\ \A o \in remote : Putting(d) /\ o.gen = req[d].gen /\ o.gen \notin purging'
                                => o \in remote'
        BY <1>1
      <3>5. gens' \in Nat /\ gens <= gens' /\ Lasting
        /\ Mem(d) \subseteq Mem(d)' \cup Disconnected'
        BY <1>1, Quiet, SameAccounts
      <3> QED BY <1>3, <2>2, <3>1, <3>2, <3>3, <3>4, <3>5, OthersKept
    <2> QED BY <1>4, <2>1, <2>2
  <1>9. Tables'
    BY <1>1, <1>3, Quiet, SameAccounts, TablesKept DEF OInv
  <1> QED BY <1>6, <1>7, <1>8, <1>9 DEF OInv

(***************************************************************************)
(* The file gets its row: a name nobody has, and a generation that no      *)
(* other upload, row or purge knows.                                       *)
(***************************************************************************)
LEMMA PutCreateKeeps ==
  ASSUME OInv, NEW c \in Clients, PutCreate(c)
  PROVE  OInv'
  <1> USE DEF manifestVars, historyVars
  <1> DEFINE n == req[c].name
             g == req[c].gen
  <1>1. UNCHANGED <<accounts, regs, rows, remote, acked, purging, crashed>>
        /\ UNCHANGED <<mem, gens, started, removing>>
        /\ At(c, "create")
    BY DEF PutCreate
  <1>2. /\ Putting(c) /\ req[c] \in PutReq /\ req \in [Clients -> Request] /\ gens \in Nat
        /\ files \in [Names -> [gen: 0..MaxOps,
                                status: {"none", "incomplete", "complete", "deleted"}]]
        /\ remote \subseteq Object /\ rows \subseteq Object
    <2>1. Putting(c)
      BY <1>1 DEF Putting, PutPlaces, At, Uploading
    <2>2. req[c] \in PutReq
      BY <2>1, Shapes DEF OInv, Typed
    <2> QED BY <2>1, <2>2, MaxOpsAssumption DEF OInv, Typed, TypeOK
  <1>3. req[c].up \in SUBSET Object /\ n \in Names /\ g \in 1..MaxOps
    BY <1>2, PutIsPut
  <1>4. Stored(c) /\ Private(c) /\ InOrder(c) /\ Distinct
    BY DEF OInv, ClientOK
  <1>5. g \notin purging /\ (\A m \in Names : files[m].gen # g) /\ (\A r \in rows : r.gen # g)
    BY <1>1, <1>4 DEF Private
  <1>6. ASSUME Go(c, [req[c] EXCEPT !.at = "cleanup"]), files' = files PROVE OInv'
    <2> DEFINE q == [req[c] EXCEPT !.at = "cleanup"]
    <2>1. Go(c, q) /\ files' = files
      BY <1>6
    <2>2. /\ q \in PutReq /\ q.at = "cleanup" /\ q.gen = g
          /\ q.cand = req[c].cand /\ q.up = req[c].up
      BY <1>2, PutMoves DEF PutPlaces
    <2> HIDE DEF q
    <2>3. q \in Request /\ q.at # "register"
      BY <2>2, PutIsPut
    <2>4. req'[c] = q
      BY <1>2, <2>1, <2>3, Going
    <2>5. Stored(c)'
      BY <1>1, <1>2, <1>4, <2>2, <2>4, SameAccounts DEF Stored, Mem
    <2>6. Private(c)'
      BY <1>1, <1>5, <2>1, <2>2, <2>4 DEF Private, At
    <2>7. InOrder(c)' /\ Recording(c)'
      BY <2>2, <2>4 DEF InOrder, Recording, At, Uploading
    <2>8. ClientOK(c)'
      BY <2>2, <2>4, <2>5, <2>6, <2>7, UploadOK
    <2> QED BY <1>1, <1>2, <2>1, <2>2, <2>3, <2>8, Quiet, OnlyRequest
  <1>7. ASSUME files[n].gen = 0, Go(c, [req[c] EXCEPT !.at = "record"]),
               files' = [files EXCEPT ![n] = [gen |-> g, status |-> "incomplete"]]
        PROVE  OInv'
    <2> DEFINE q == [req[c] EXCEPT !.at = "record"]
    <2>1. Go(c, q) /\ files' = [files EXCEPT ![n] = [gen |-> g, status |-> "incomplete"]]
      BY <1>7
    <2>2. /\ q \in PutReq /\ q.at = "record" /\ q.gen = g /\ q.name = n
          /\ q.cand = req[c].cand /\ q.up = req[c].up
      BY <1>2, PutMoves DEF PutPlaces
    <2> HIDE DEF q
    <2>3. q \in Request /\ q.at # "register"
      BY <2>2, PutIsPut
    <2>4. /\ req' \in [Clients -> Request]
          /\ req'[c] = q
          /\ \A d \in Clients : d # c => req'[d] = req[d]
          /\ Registering' \subseteq Registering
      BY <1>2, <2>1, <2>3, Going
    <2>5. /\ files' \in [Names -> [gen: 0..MaxOps,
                                   status: {"none", "incomplete", "complete", "deleted"}]]
          /\ files'[n].gen = g /\ files'[n].status = "incomplete"
          /\ \A m \in Names : m # n => files'[m] = files[m]
      BY <1>2, <1>3, <2>1, MaxOpsAssumption
    <2>6. Typed'
      BY <1>1, <2>4, <2>5, Quiet, TypedKept DEF OInv, Typed, TypeOK
    <2>7. Distinct'
      <3>1. \A d \in Clients : Putting(d)' => Putting(d) /\ req'[d].gen = req[d].gen
        BY <1>2, <2>2, <2>4 DEF Putting
      <3> QED BY <1>4, <3>1, DistinctKept
    <2> HIDE DEF n, g
    <2>8. ClientOK(c)'
      <3>1. Stored(c)'
        BY <1>1, <1>2, <1>4, <2>2, <2>4, SameAccounts DEF Stored, Mem, g
      <3>2. Private(c)' /\ InOrder(c)'
        BY <2>2, <2>4 DEF Private, InOrder, At, Uploading
      <3>3. Recording(c)'
        <4>1. \A m \in Names : files'[m].gen = g => m = n
          BY <1>5, <2>5
        <4>2. \A i \in 1..NumChunks : \E o \in req[c].up : o.idx = i
          BY <1>1, <1>4 DEF InOrder
        <4> QED BY <1>1, <1>5, <2>2, <2>4, <2>5, <4>1, <4>2 DEF Recording
      <3> QED BY <2>2, <2>4, <3>1, <3>2, <3>3, UploadOK
    <2>9. ASSUME NEW d \in Clients, d # c PROVE ClientOK(d)'
      <3>1. ClientOK(d) /\ req'[d] = req[d]
        BY <2>4, <2>9 DEF OInv
      <3>2. Putting(d) => req[d].gen # g /\ req[d].gen \in 1..MaxOps /\ req[d].name \in Names
        BY <1>2, <1>4, <2>9, Shapes, PutIsPut DEF Distinct, g
      <3>3. Private(d)'
        BY <1>1, <2>5, <3>1, <3>2 DEF ClientOK, Private, At, Putting, PutPlaces
      <3>4. Recording(d)'
        <4> SUFFICES ASSUME At(d, "record") PROVE Recording(d)'
          BY <3>1 DEF Recording, At
        <4>1. Recording(d) /\ req[d].gen # g /\ req[d].gen # 0 /\ req[d].name \in Names
          BY <3>1, <3>2 DEF ClientOK, At, Putting, PutPlaces
        <4>2. \A m \in Names : files'[m].gen = req[d].gen => m = req[d].name
          BY <2>5, <4>1 DEF Recording
        <4>3. req[d].name \notin removing => files'[req[d].name].gen = req[d].gen
          BY <1>7, <2>5, <4>1 DEF Recording
        <4>4. files'[req[d].name].gen = req[d].gen => files[req[d].name].gen = req[d].gen
          BY <2>5, <4>1
        <4> QED BY <1>1, <3>1, <4>1, <4>2, <4>3, <4>4 DEF Recording
      <3>5. /\ removing \subseteq removing' /\ purging \subseteq purging'
            /\ \A o \in remote' : o \in remote
                                 \/ (o.gen \notin purging /\ (Putting(d) => o.gen # req[d].gen))
            /\ \A o \in remote : Putting(d) /\ o.gen = req[d].gen /\ o.gen \notin purging'
                                => o \in remote'
        BY <1>1
      <3>6. gens' \in Nat /\ gens <= gens' /\ Lasting
        /\ Mem(d) \subseteq Mem(d)' \cup Disconnected'
        BY <1>1, Quiet, SameAccounts
      <3> QED BY <1>2, <3>1, <3>3, <3>4, <3>5, <3>6, OthersKept
    <2>10. Tables'
      <3>1. Known'
        <4>1. g <= gens
          BY <1>2, <1>4 DEF Stored, g
        <4> QED BY <1>1, <2>5, <4>1 DEF OInv, Tables, Known
      <3>2. OneName'
        BY <1>5, <2>5 DEF OInv, Tables, OneName
      <3>3. RowsHaveFiles'
        <4> SUFFICES ASSUME NEW r \in rows PROVE \E m \in Names : files'[m].gen = r.gen
          BY <1>1 DEF RowsHaveFiles
        <4>1. PICK m \in Names : files[m].gen = r.gen
          BY DEF OInv, Tables, RowsHaveFiles
        <4>2. r.gen # 0
          BY <1>2, MaxOpsAssumption DEF Object
        <4> QED BY <1>7, <2>5, <4>1, <4>2
      <3>4. OneRow' /\ RowsMatch'
        BY <1>1 DEF OInv, Tables, OneRow, RowsMatch
      <3>5. NullsTaken'
        BY <1>1, SameAccounts DEF OInv, Tables, NullsTaken
      <3>6. PurgesAsked'
        BY <1>1, <1>5, <2>5 DEF OInv, Tables, PurgesAsked
      <3>7. AckedKept'
        <4>1. \A f \in acked : f.name \notin removing => f.name # n
          <5> SUFFICES ASSUME NEW f \in acked, f.name \notin removing, f.name = n PROVE FALSE
            OBVIOUS
          <5>1. f.gen \in 1..MaxOps /\ files[n] = [gen |-> f.gen, status |-> "complete"]
            BY DEF OInv, Tables, AckedKept
          <5> QED BY <1>7, <5>1, MaxOpsAssumption
        <4> QED BY <1>1, <2>5, <4>1 DEF OInv, Tables, AckedKept
      <3>8. CompleteHasAllRows'
        BY <1>1, <2>5 DEF OInv, Tables, CompleteHasAllRows, RowsOf
      <3>9. RowsPointSomewhere'
        BY <1>1 DEF OInv, Tables, RowsPointSomewhere
      <3> QED BY <3>1, <3>2, <3>3, <3>4, <3>5, <3>6, <3>7, <3>8, <3>9 DEF Tables
    <2> QED BY <2>4, <2>6, <2>7, <2>8, <2>9, <2>10 DEF OInv
  <1> QED BY <1>6, <1>7 DEF PutCreate

(***************************************************************************)
(* A chunk gets its row: the index has none yet, and the object is there.  *)
(***************************************************************************)
LEMMA PutAddChunkKeeps ==
  ASSUME OInv, NEW c \in Clients, PutAddChunk(c)
  PROVE  OInv'
  <1> USE DEF manifestVars, historyVars
  <1> DEFINE n == req[c].name
             g == req[c].gen
             obj == First(req[c].up)
             u == req[c].up \ {obj}
             q == [req[c] EXCEPT !.up = u]
  <1>1. /\ UNCHANGED <<accounts, regs, files, remote, acked, purging, crashed>>
        /\ UNCHANGED <<mem, gens, started, removing>>
        /\ At(c, "record") /\ req[c].up # {}
        /\ files[n].gen = obj.gen /\ rows' = rows \cup {obj} /\ Go(c, q)
    BY DEF PutAddChunk, KeysHold
  <1>2. /\ Putting(c) /\ req[c] \in PutReq /\ req \in [Clients -> Request] /\ gens \in Nat
        /\ remote \subseteq Object /\ rows \subseteq Object
    <2>1. Putting(c)
      BY <1>1 DEF Putting, PutPlaces, At, Uploading
    <2>2. req[c] \in PutReq
      BY <2>1, Shapes DEF OInv, Typed
    <2> QED BY <2>1, <2>2, MaxOpsAssumption DEF OInv, Typed, TypeOK
  <1>3. req[c].up \in SUBSET Object /\ n \in Names /\ g \in 1..MaxOps
    BY <1>2, PutIsPut
  <1>4. Stored(c) /\ Recording(c) /\ Distinct
    BY DEF OInv, ClientOK
  <1>5. obj \in req[c].up
    BY <1>1, <1>3, FirstIsOne
  <1> HIDE DEF obj
  <1>6. /\ obj \in Object /\ obj.gen = g /\ obj.acc \in Ids
        /\ \A o \in u : o.idx # obj.idx
        /\ \A o \in remote : o.gen = g /\ o.idx = obj.idx => o = obj
        /\ \A r \in rows : r.gen = g => r.idx # obj.idx
        /\ g \notin purging => obj \in remote
    BY <1>1, <1>2, <1>3, <1>4, <1>5 DEF Stored, Recording
  <1>7. /\ q \in PutReq /\ q.at = "record" /\ q.gen = g /\ q.name = n
        /\ q.cand = req[c].cand /\ q.up = u
    <2>1. u \in SUBSET Object /\ req[c].at = "record"
      BY <1>1, <1>3 DEF At
    <2> HIDE DEF u
    <2> QED BY <1>2, <2>1, PutCounts
  <1> HIDE DEF q
  <1>8. q \in Request /\ q.at # "register"
    BY <1>7, PutIsPut
  <1>9. /\ req' \in [Clients -> Request]
        /\ req'[c] = q
        /\ \A d \in Clients : d # c => req'[d] = req[d]
        /\ Registering' \subseteq Registering
    BY <1>1, <1>2, <1>8, Going
  <1>10. Typed'
    <2>1. rows' \subseteq Object
      BY <1>1, <1>2, <1>6
    <2> QED BY <1>1, <1>9, <2>1, Quiet, TypedKept DEF OInv, Typed, TypeOK
  <1>11. Distinct'
    <2>1. \A d \in Clients : Putting(d)' => Putting(d) /\ req'[d].gen = req[d].gen
      BY <1>2, <1>7, <1>9 DEF Putting
    <2> QED BY <1>4, <2>1, DistinctKept
  <1> HIDE DEF n, g
  <1>12. ClientOK(c)'
    <2>1. Stored(c)'
      <3>1. /\ g <= gens
            /\ \A o \in u : o.gen = g /\ o.acc \in Ids
            /\ \A o, p \in u : o.idx = p.idx => o = p
            /\ \A o \in u, p \in remote' : p.gen = o.gen /\ p.idx = o.idx => p = o
            /\ g \notin purging => u \subseteq remote'
        BY <1>1, <1>2, <1>4 DEF Stored, g
      <3>2. q.cand \subseteq (Mem(c) \cup Disconnected)'
        BY <1>1, <1>2, <1>4, <1>7, SameAccounts DEF Stored, Mem
      <3> HIDE DEF u
      <3> QED BY <1>1, <1>7, <1>9, <3>1, <3>2 DEF Stored
    <2>2. Private(c)' /\ InOrder(c)'
      BY <1>7, <1>9 DEF Private, InOrder, At, Uploading
    <2>3. Recording(c)'
      <3>1. \A o \in u, r \in rows' : r.gen = g => r.idx # o.idx
        BY <1>1, <1>4, <1>6 DEF Recording, g
      <3>2. files[n].gen = g =>
              \A i \in 1..NumChunks :
                (\E o \in u : o.idx = i) \/ (\E r \in rows' : r.gen = g /\ r.idx = i)
        <4> SUFFICES ASSUME files[n].gen = g, NEW i \in 1..NumChunks
                     PROVE  (\E o \in u : o.idx = i) \/ (\E r \in rows' : r.gen = g /\ r.idx = i)
          OBVIOUS
        <4>1. (\E o \in req[c].up : o.idx = i) \/ (\E r \in rows : r.gen = g /\ r.idx = i)
          BY <1>1, <1>4 DEF Recording, n, g
        <4>2. CASE \E o \in req[c].up : o.idx = i
          BY <1>1, <1>6, <4>2
        <4>3. CASE \E r \in rows : r.gen = g /\ r.idx = i
          BY <1>1, <4>3
        <4> QED BY <4>1, <4>2, <4>3
      <3>3. /\ \A m \in Names : files[m].gen = g => m = n
            /\ n \notin removing => files[n].gen = g
        BY <1>1, <1>4 DEF Recording, n, g
      <3> HIDE DEF u
      <3> QED BY <1>1, <1>7, <1>9, <3>1, <3>2, <3>3 DEF Recording
    <2> QED BY <1>7, <1>9, <2>1, <2>2, <2>3, UploadOK
  <1>13. ASSUME NEW d \in Clients, d # c PROVE ClientOK(d)'
    <2>1. ClientOK(d) /\ req'[d] = req[d]
      BY <1>9, <1>13 DEF OInv
    <2>2. Putting(d) => req[d].gen # g
      BY <1>2, <1>4, <1>13 DEF Distinct, g
    <2>3. Private(d)'
      BY <1>1, <1>6, <2>1, <2>2 DEF ClientOK, Private, At, Putting, PutPlaces
    <2>4. Recording(d)'
      <3> SUFFICES ASSUME At(d, "record") PROVE Recording(d)'
        BY <2>1 DEF Recording, At
      <3>1. Recording(d) /\ req[d].gen # g
        BY <2>1, <2>2 DEF ClientOK, At, Putting, PutPlaces
      <3>2. \A r \in rows' : r.gen = req[d].gen => r \in rows
        BY <1>1, <1>6, <3>1
      <3>3. rows \subseteq rows'
        BY <1>1
      <3> QED BY <1>1, <2>1, <3>1, <3>2, <3>3 DEF Recording
    <2>5. /\ removing \subseteq removing' /\ purging \subseteq purging'
          /\ \A o \in remote' : o \in remote
                                 \/ (o.gen \notin purging /\ (Putting(d) => o.gen # req[d].gen))
          /\ \A o \in remote : Putting(d) /\ o.gen = req[d].gen /\ o.gen \notin purging'
                                => o \in remote'
      BY <1>1
    <2>6. gens' \in Nat /\ gens <= gens' /\ Lasting
      /\ Mem(d) \subseteq Mem(d)' \cup Disconnected'
      BY <1>1, Quiet, SameAccounts
    <2> QED BY <1>2, <2>1, <2>3, <2>4, <2>5, <2>6, OthersKept
  <1>14. Tables'
    <2>1. Known'
      <3>1. g <= gens
        BY <1>2, <1>4 DEF Stored, g
      <3> QED BY <1>1, <1>6, <3>1 DEF OInv, Tables, Known
    <2>2. OneName' /\ PurgesAsked' /\ AckedKept'
      BY <1>1 DEF OInv, Tables, OneName, PurgesAsked, AckedKept
    <2>3. RowsHaveFiles'
      BY <1>1, <1>3, <1>6 DEF OInv, Tables, RowsHaveFiles, n
    <2>4. OneRow'
      BY <1>1, <1>6 DEF OInv, Tables, OneRow
    <2>5. RowsMatch'
      BY <1>1, <1>6 DEF OInv, Tables, RowsMatch
    <2>6. NullsTaken'
      BY <1>1, <1>6, NullIsNoId, SameAccounts DEF OInv, Tables, NullsTaken
    <2>7. CompleteHasAllRows'
      <3> SUFFICES ASSUME NEW m \in Names, files[m].status = "complete"
                   PROVE  {r.idx : r \in {s \in rows' : s.gen = files[m].gen}} = 1..NumChunks
        BY <1>1 DEF CompleteHasAllRows, RowsOf
      <3>1. {r.idx : r \in {s \in rows : s.gen = files[m].gen}} = 1..NumChunks
        BY DEF OInv, Tables, CompleteHasAllRows, RowsOf
      <3>2. obj.idx \in 1..NumChunks
        BY <1>6 DEF Object
      <3> QED BY <1>1, <3>1, <3>2
    <2>8. RowsPointSomewhere'
      <3> SUFFICES ASSUME NEW r \in rows', r.gen \notin purging
                   PROVE  \E o \in remote : /\ o.gen = r.gen /\ o.idx = r.idx
                                            /\ r.acc \in {o.acc, Null}
        BY <1>1 DEF RowsPointSomewhere
      <3>1. CASE r = obj
        BY <1>6, <3>1
      <3>2. CASE r \in rows
        BY <3>2 DEF OInv, Tables, RowsPointSomewhere
      <3> QED BY <1>1, <3>1, <3>2
    <2> QED BY <2>1, <2>2, <2>3, <2>4, <2>5, <2>6, <2>7, <2>8 DEF Tables
  <1> QED BY <1>9, <1>10, <1>11, <1>12, <1>13, <1>14 DEF OInv

(***************************************************************************)
(* The file is called complete: every chunk has its row, if the file is    *)
(* still there at all, and it is as long as nobody asked for its removal.  *)
(***************************************************************************)
LEMMA PutCompleteKeeps ==
  ASSUME OInv, NEW c \in Clients, PutComplete(c)
  PROVE  OInv'
  <1> USE DEF manifestVars, historyVars
  <1> DEFINE n == req[c].name
             g == req[c].gen
             q == [at |-> "idle", ans |-> "ok"]
  <1>1. /\ UNCHANGED <<accounts, regs, rows, remote, purging, crashed>>
        /\ UNCHANGED <<mem, gens, started, removing>>
        /\ At(c, "record") /\ req[c].up = {} /\ Go(c, q)
        /\ files' = IF files[n].gen = g THEN [files EXCEPT ![n].status = "complete"] ELSE files
        /\ acked' = acked \cup {[name |-> n, gen |-> g]}
    BY DEF PutComplete, Answer
  <1>2. /\ Putting(c) /\ req[c] \in PutReq /\ req \in [Clients -> Request] /\ gens \in Nat
        /\ files \in [Names -> [gen: 0..MaxOps,
                                status: {"none", "incomplete", "complete", "deleted"}]]
        /\ rows \subseteq Object
    <2>1. Putting(c)
      BY <1>1 DEF Putting, PutPlaces, At, Uploading
    <2>2. req[c] \in PutReq
      BY <2>1, Shapes DEF OInv, Typed
    <2> QED BY <2>1, <2>2, MaxOpsAssumption DEF OInv, Typed, TypeOK
  <1>3. n \in Names /\ g \in 1..MaxOps
    BY <1>2, PutIsPut
  <1>4. Recording(c)
    BY DEF OInv, ClientOK
  <1>5. q \in EndReq /\ q \in Request /\ q.at = "idle"
    BY EndIsPlain DEF Answers, Request
  <1> HIDE DEF q
  <1>6. /\ req' \in [Clients -> Request]
        /\ req'[c] = q
        /\ \A d \in Clients : d # c => req'[d] = req[d]
        /\ Registering' \subseteq Registering
    BY <1>1, <1>2, <1>5, Going
  <1>7. /\ files' \in [Names -> [gen: 0..MaxOps,
                                 status: {"none", "incomplete", "complete", "deleted"}]]
        /\ \A m \in Names : files'[m].gen = files[m].gen
        /\ \A m \in Names : files'[m] = files[m] \/ (m = n /\ files[n].gen = g)
        /\ files[n].gen = g => files'[n] = [gen |-> g, status |-> "complete"]
    <2>1. CASE files[n].gen = g
      <3>1. files' = [files EXCEPT ![n].status = "complete"]
        BY <1>1, <2>1
      <3>2. files[n] \in [gen: 0..MaxOps,
                          status: {"none", "incomplete", "complete", "deleted"}]
        BY <1>2, <1>3
      <3>3. [files[n] EXCEPT !.status = "complete"] = [gen |-> g, status |-> "complete"]
        BY <2>1, <3>2
      <3>4. files'[n] = [gen |-> g, status |-> "complete"]
        BY <1>2, <1>3, <3>1, <3>3
      <3>5. \A m \in Names : m # n => files'[m] = files[m]
        BY <1>2, <3>1
      <3>6. files' \in [Names -> [gen: 0..MaxOps,
                                  status: {"none", "incomplete", "complete", "deleted"}]]
        BY <1>2, <3>1
      <3> QED BY <2>1, <3>4, <3>5, <3>6
    <2>2. CASE files[n].gen # g
      BY <1>1, <1>2, <2>2
    <2> QED BY <2>1, <2>2
  <1>8. Typed'
    BY <1>1, <1>6, <1>7, Quiet, TypedKept DEF OInv, Typed, TypeOK
  <1>9. Distinct'
    BY <1>5, <1>6, DistinctKept DEF OInv, Putting, PutPlaces
  <1>10. ClientOK(c)'
    BY <1>5, <1>6, PlainOK
  <1> HIDE DEF n, g
  <1>11. ASSUME NEW d \in Clients, d # c PROVE ClientOK(d)'
    <2>1. ClientOK(d) /\ req'[d] = req[d]
      BY <1>6, <1>11 DEF OInv
    <2>2. removing \subseteq removing' /\ purging \subseteq purging'
      BY <1>1
    <2>3. Private(d)' /\ Recording(d)'
      BY <1>1, <1>2, <1>7, <2>1, <2>2, UploadKept
    <2>4. /\ \A o \in remote' : o \in remote
                                 \/ (o.gen \notin purging /\ (Putting(d) => o.gen # req[d].gen))
          /\ \A o \in remote : Putting(d) /\ o.gen = req[d].gen /\ o.gen \notin purging'
                                => o \in remote'
      BY <1>1
    <2>5. gens' \in Nat /\ gens <= gens' /\ Lasting
      /\ Mem(d) \subseteq Mem(d)' \cup Disconnected'
      BY <1>1, Quiet, SameAccounts
    <2> QED BY <1>2, <2>1, <2>2, <2>3, <2>4, <2>5, OthersKept
  <1>12. Tables'
    <2>1. Known' /\ RowsHaveFiles'
      BY <1>1, <1>7 DEF OInv, Tables, Known, RowsHaveFiles
    <2>2. OneName' /\ OneRow' /\ RowsMatch'
      BY <1>1, <1>7 DEF OInv, Tables, OneName, OneRow, RowsMatch
    <2>3. NullsTaken' /\ PurgesAsked'
      BY <1>1, <1>7, SameAccounts DEF OInv, Tables, NullsTaken, PurgesAsked
    <2>4. AckedKept'
      <3> SUFFICES ASSUME NEW f \in acked'
                   PROVE  /\ f.name \in Names /\ f.gen \in 1..MaxOps
                          /\ f.name \notin removing =>
                               files'[f.name] = [gen |-> f.gen, status |-> "complete"]
        BY <1>1 DEF AckedKept
      <3>1. CASE f = [name |-> n, gen |-> g]
        <4>1. n \notin removing => files[n].gen = g
          BY <1>1, <1>4 DEF Recording, n, g
        <4>2. f.name = n /\ f.gen = g
          BY <3>1
        <4> QED BY <1>3, <1>7, <4>1, <4>2
      <3>2. CASE f \in acked
        <4>1. /\ f.name \in Names /\ f.gen \in 1..MaxOps
              /\ f.name \notin removing =>
                   files[f.name] = [gen |-> f.gen, status |-> "complete"]
          BY <3>2 DEF OInv, Tables, AckedKept
        <4>2. CASE files'[f.name] = files[f.name]
          BY <4>1, <4>2
        <4>3. CASE f.name = n /\ files[n].gen = g
          <5>1. f.name \notin removing => f.gen = g
            BY <4>1, <4>3
          <5> QED BY <1>7, <4>1, <4>3, <5>1
        <4> QED BY <1>7, <4>1, <4>2, <4>3
      <3> QED BY <1>1, <3>1, <3>2
    <2>5. CompleteHasAllRows'
      <3> SUFFICES ASSUME NEW m \in Names, files'[m].status = "complete"
                   PROVE  {r.idx : r \in RowsOf(files[m].gen)} = 1..NumChunks
        BY <1>1, <1>7 DEF CompleteHasAllRows, RowsOf
      <3>1. CASE files'[m] = files[m]
        BY <3>1 DEF OInv, Tables, CompleteHasAllRows
      <3>2. CASE m = n /\ files[n].gen = g
        <4>1. \A i \in 1..NumChunks : \E r \in rows : r.gen = g /\ r.idx = i
          BY <1>1, <1>4, <3>2 DEF Recording, n, g
        <4>2. \A r \in rows : r.idx \in 1..NumChunks
          BY <1>2 DEF Object
        <4> QED BY <3>2, <4>1, <4>2 DEF RowsOf
      <3> QED BY <1>7, <3>1, <3>2
    <2>6. RowsPointSomewhere'
      BY <1>1 DEF OInv, Tables, RowsPointSomewhere
    <2> QED BY <2>1, <2>2, <2>3, <2>4, <2>5, <2>6 DEF Tables
  <1> QED BY <1>6, <1>8, <1>9, <1>10, <1>11, <1>12 DEF OInv

(***************************************************************************)
(* An account goes: rows that named it name none, and their objects are on *)
(* an account that is no longer registered.                                *)
(***************************************************************************)
LEMMA DeregisterKeeps ==
  ASSUME OInv, NEW c \in Clients, Deregister(c)
  PROVE  OInv'
  <1> USE DEF manifestVars, historyVars
  <1> DEFINE l == req[c].label
             id == Id(l, accounts[l])
  <1>1. /\ UNCHANGED <<regs, files, remote, acked, purging, crashed>>
        /\ UNCHANGED <<mem, gens, started, removing>>
        /\ At(c, "deregister")
    BY DEF Deregister
  <1>2. req[c] \in DisconnectReq /\ req \in [Clients -> Request] /\ gens \in Nat
        /\ rows \subseteq Object
    <2>1. req[c] \in DisconnectReq
      BY <1>1, Shapes DEF OInv, Typed
    <2> QED BY <2>1, MaxOpsAssumption DEF OInv, Typed, TypeOK
  <1>3. l \in Labels /\ Disconnecting(c)
    BY <1>2 DEF OInv, ClientOK, DisconnectReq
  <1>4. CASE accounts[l] = 0
    <2>1. Go(c, [at |-> "idle", ans |-> "error"]) /\ UNCHANGED <<accounts, rows>>
      BY <1>4 DEF Deregister, Answer
    <2>2. [at |-> "idle", ans |-> "error"] \in EndReq
      BY EndIsPlain DEF Answers
    <2> QED BY <1>1, <2>1, <2>2, Quiet, OnlyPlain
  <1>5. CASE accounts[l] # 0
    <2> DEFINE q == [req[c] EXCEPT !.at = "forget"]
    <2>1. /\ Go(c, q) /\ accounts' = [accounts EXCEPT ![l] = 0]
          /\ rows' = {IF r.acc = id THEN [r EXCEPT !.acc = Null] ELSE r : r \in rows}
      BY <1>5 DEF Deregister
    <2>2. q \in DisconnectReq /\ q.id = req[c].id /\ q.label = l
      BY <1>2 DEF DisconnectReq
    <2>3. q \in Request /\ q.at = "forget"
      BY <1>2, <2>2 DEF Request, DisconnectReq
    <2>12. /\ Lasting /\ id \in Disconnected'
           /\ \A a \in Issued : a[1] = l => a \in Disconnected'
      <3>1. /\ accounts \in [Labels -> 0..(MaxOps + 1)] /\ regs \in [Labels -> 0..(MaxOps + 1)]
            /\ accounts[l] <= regs[l]
        BY <1>3 DEF OInv, Typed, TypeOK
      <3>2. accounts'[l] = 0 /\ (\A k \in Labels : k # l => accounts'[k] = accounts[k])
        BY <1>3, <2>1, <3>1
      <3>3. Issued' = Issued
        BY <1>1 DEF Issued
      <3>4. \A a \in Issued : a[1] = l => a \in Disconnected'
        BY <1>1, <3>2, IdParts, MaxOpsAssumption DEF Issued, Disconnected
      <3>5. Disconnected \subseteq Disconnected'
        <4> SUFFICES ASSUME NEW a \in Disconnected PROVE a \in Disconnected'
          OBVIOUS
        <4>1. a \in Ids /\ a[1] \in Labels /\ a \in Issued
          BY IdParts DEF Disconnected, Issued
        <4>2. CASE a[1] = l
          BY <3>4, <4>1, <4>2
        <4>3. CASE a[1] # l
          BY <1>1, <3>2, <4>1, <4>3 DEF Disconnected
        <4> QED BY <4>2, <4>3
      <3>6. id \in Issued /\ id[1] = l
        <4>1. accounts[l] \in 1..(MaxOps + 1)
          BY <1>3, <1>5, <3>1, MaxOpsAssumption
        <4>2. id \in Ids
          BY <1>3, <4>1 DEF Ids
        <4> QED BY <3>1, <4>2 DEF Issued, Id
      <3> QED BY <3>3, <3>4, <3>5, <3>6 DEF Lasting
    <2> HIDE DEF q
    <2>4. /\ req' \in [Clients -> Request]
          /\ req'[c] = q
          /\ \A d \in Clients : d # c => req'[d] = req[d]
          /\ Registering' \subseteq Registering
      BY <1>2, <2>1, <2>3, Going
    <2> HIDE DEF id
    <2>5. \A r \in rows : /\ [r EXCEPT !.acc = Null] \in Object
                          /\ [r EXCEPT !.acc = Null].gen = r.gen
                          /\ [r EXCEPT !.acc = Null].idx = r.idx
                          /\ [r EXCEPT !.acc = Null].acc = Null
      BY <1>2 DEF Object
    <2>6. /\ \A s \in rows' : \E r \in rows :
                s \in Object /\ s.gen = r.gen /\ s.idx = r.idx /\ s.acc \in {r.acc, Null}
                /\ s = (IF r.acc = id THEN [r EXCEPT !.acc = Null] ELSE r)
          /\ \A r \in rows : \E s \in rows' : s.gen = r.gen /\ s.idx = r.idx
      BY <1>2, <2>1, <2>5
    <2>7. Typed'
      <3>1. rows' \subseteq Object
        BY <2>6
      <3>2. /\ accounts' \in [Labels -> 0..(MaxOps + 1)]
            /\ \A k \in Labels : accounts'[k] <= regs[k]
        BY <1>3, <2>1, MaxOpsAssumption DEF OInv, Typed, TypeOK
      <3> QED BY <1>1, <2>4, <3>1, <3>2, Quiet, TypedKept DEF OInv, Typed, TypeOK
    <2>8. Distinct'
      BY <2>3, <2>4, DistinctKept DEF OInv, Putting, PutPlaces
    <2>9. ClientOK(c)'
      <3>1. Disconnecting(c)'
        <4>1. q.id \in Issued /\ q.id[1] = l
          BY <1>2, <1>3, <2>2 DEF Disconnecting
        <4> QED BY <2>2, <2>4, <2>12, <4>1 DEF Disconnecting, Lasting
      <3> QED BY <2>2, <2>4, <3>1, DisconnectOK
    <2>10. ASSUME NEW d \in Clients, d # c PROVE ClientOK(d)'
      <3>1. ClientOK(d) /\ req'[d] = req[d]
        BY <2>4, <2>10 DEF OInv
      <3>2. Private(d)'
        BY <1>1, <2>6, <3>1 DEF ClientOK, Private, At
      <3>3. Recording(d)'
        <4> SUFFICES ASSUME At(d, "record") PROVE Recording(d)'
          BY <3>1 DEF Recording, At
        <4>1. Recording(d)
          BY <3>1 DEF ClientOK
        <4>2. \A o \in req[d].up, r \in rows' : r.gen = req[d].gen => r.idx # o.idx
          BY <2>6, <4>1 DEF Recording
        <4>3. \A i : (\E r \in rows : r.gen = req[d].gen /\ r.idx = i)
                       => \E r \in rows' : r.gen = req[d].gen /\ r.idx = i
          BY <2>6
        <4> QED BY <1>1, <3>1, <4>1, <4>2, <4>3 DEF Recording
      <3>4. /\ removing \subseteq removing' /\ purging \subseteq purging'
            /\ \A o \in remote' : o \in remote
                                 \/ (o.gen \notin purging /\ (Putting(d) => o.gen # req[d].gen))
            /\ \A o \in remote : Putting(d) /\ o.gen = req[d].gen /\ o.gen \notin purging'
                                => o \in remote'
        BY <1>1
      <3>5. gens' \in Nat /\ gens <= gens' /\ Lasting
        /\ Mem(d) \subseteq Mem(d)' \cup Disconnected'
        BY <1>1, <2>12, Quiet
      <3> QED BY <1>2, <3>1, <3>2, <3>3, <3>4, <3>5, OthersKept
    <2>11. Tables'
      <3>1. Known'
        BY <1>1, <2>6 DEF OInv, Tables, Known
      <3>2. OneName' /\ PurgesAsked' /\ AckedKept'
        BY <1>1 DEF OInv, Tables, OneName, PurgesAsked, AckedKept
      <3>3. RowsHaveFiles'
        BY <1>1, <2>6 DEF OInv, Tables, RowsHaveFiles
      <3>4. OneRow'
        <4> SUFFICES ASSUME NEW s \in rows', NEW t \in rows', s.gen = t.gen, s.idx = t.idx
                     PROVE  s = t
          BY DEF OneRow
        <4>1. PICK r \in rows : /\ s.gen = r.gen /\ s.idx = r.idx
                                /\ s = (IF r.acc = id THEN [r EXCEPT !.acc = Null] ELSE r)
          BY <2>6
        <4>2. PICK p \in rows : /\ t.gen = p.gen /\ t.idx = p.idx
                                /\ t = (IF p.acc = id THEN [p EXCEPT !.acc = Null] ELSE p)
          BY <2>6
        <4>3. r = p
          BY <4>1, <4>2 DEF OInv, Tables, OneRow
        <4> QED BY <4>1, <4>2, <4>3
      <3>5. RowsMatch'
        BY <1>1, <2>6 DEF OInv, Tables, RowsMatch
      <3>6. NullsTaken'
        <4> SUFFICES ASSUME NEW t \in rows', NEW o \in remote, t.gen = o.gen, t.idx = o.idx,
                            t.acc = Null
                     PROVE  o.acc \in Disconnected'
          BY <1>1 DEF NullsTaken
        <4>1. PICK r \in rows : /\ t.gen = r.gen /\ t.idx = r.idx
                                /\ t = (IF r.acc = id THEN [r EXCEPT !.acc = Null] ELSE r)
          BY <2>6
        <4>2. r.acc \in {o.acc, Null}
          BY <4>1 DEF OInv, Tables, RowsMatch
        <4>3. r.acc = id \/ r.acc = Null
          BY <4>1
        <4>4. CASE r.acc = Null
          BY <2>12, <4>1, <4>4 DEF OInv, Tables, NullsTaken, Lasting
        <4>5. CASE r.acc = id /\ r.acc # Null
          BY <2>12, <4>2, <4>5
        <4> QED BY <4>3, <4>4, <4>5
      <3>7. CompleteHasAllRows'
        <4> SUFFICES ASSUME NEW m \in Names, files[m].status = "complete"
                     PROVE  {r.idx : r \in {s \in rows' : s.gen = files[m].gen}} = 1..NumChunks
          BY <1>1 DEF CompleteHasAllRows, RowsOf
        <4>1. {r.idx : r \in {s \in rows : s.gen = files[m].gen}} = 1..NumChunks
          BY DEF OInv, Tables, CompleteHasAllRows, RowsOf
        <4> QED BY <2>6, <4>1
      <3>8. RowsPointSomewhere'
        BY <1>1, <2>6 DEF OInv, Tables, RowsPointSomewhere
      <3> QED BY <3>1, <3>2, <3>3, <3>4, <3>5, <3>6, <3>7, <3>8 DEF Tables
    <2> QED BY <2>4, <2>7, <2>8, <2>9, <2>10, <2>11 DEF OInv
  <1> QED BY <1>4, <1>5

(***************************************************************************)
(* Steps that only change accounts, counters and a request that has        *)
(* nothing to keep.                                                        *)
(***************************************************************************)
LEMMA OnlyAccounts ==
  ASSUME OInv, Typed', Lasting, NEW c \in Clients, NEW q \in Request, Go(c, q),
         q \in RegisterReq \cup RememberReq,
         UNCHANGED <<files, rows, remote, acked, purging, mem, gens, removing>>
  PROVE  OInv'
  <1>1. gens \in Nat /\ req \in [Clients -> Request]
    BY MaxOpsAssumption DEF OInv, Typed, TypeOK
  <1>2. /\ req'[c] = q
        /\ \A d \in Clients : d # c => req'[d] = req[d]
    BY <1>1, Going
  <1>3. q.at \notin PutPlaces
    BY DEF RegisterReq, RememberReq, PutPlaces
  <1>4. Distinct'
    BY <1>2, <1>3, DistinctKept DEF OInv, Putting
  <1>5. \A d \in Clients : Mem(d) \subseteq Mem(d)' \cup Disconnected'
    BY DEF Mem
  <1>6. /\ removing \subseteq removing' /\ purging \subseteq purging' /\ gens' \in Nat
        /\ gens <= gens' /\ files' = files
    BY <1>1
  <1>7. Tables'
    BY <1>1, <1>5, <1>6, TablesKept DEF OInv
  <1>8. ClientOK(c)'
    BY <1>2, PlainOK
  <1>9. ASSUME NEW d \in Clients, d # c PROVE ClientOK(d)'
    <2>1. ClientOK(d) /\ req'[d] = req[d]
      BY <1>2, <1>9 DEF OInv
    <2>2. Private(d)' /\ Recording(d)'
      BY <1>1, <1>6, <2>1, UploadKept
    <2>3. /\ \A o \in remote' : o \in remote
                                 \/ (o.gen \notin purging /\ (Putting(d) => o.gen # req[d].gen))
          /\ \A o \in remote : Putting(d) /\ o.gen = req[d].gen /\ o.gen \notin purging'
                                => o \in remote'
      <3>1. remote' = remote
        OBVIOUS
      <3> QED BY <3>1
    <2> QED BY <1>1, <1>5, <1>6, <2>1, <2>2, <2>3, OthersKept
  <1> QED BY <1>4, <1>7, <1>8, <1>9 DEF OInv

LEMMA StartConnectKeeps ==
  ASSUME OInv, NEW c \in Clients, NEW l \in Labels, StartConnect(c, l)
  PROVE  OInv'
  <1> USE DEF manifestVars, historyVars
  <1>1. /\ UNCHANGED <<accounts, regs, files, rows, remote, acked, purging, crashed>>
        /\ UNCHANGED <<mem, gens, removing>> /\ Start(c, "connect")
    BY DEF StartConnect
  <1>2. /\ mem' \in [Pools -> SUBSET Ids]
        /\ gens' \in Nat /\ gens <= gens' /\ gens' <= started'
        /\ started' \in 0..MaxOps /\ started <= started'
        /\ \A d \in Clients : Mem(d) \subseteq Mem(d)' \cup Disconnected'
        /\ removing \subseteq removing'
    BY <1>1, QuietStart
  <1>3. CASE accounts[l] # 0
    <2>1. Go(c, [at |-> "idle", ans |-> "error"])
      BY <1>3 DEF StartConnect, Answer
    <2>2. [at |-> "idle", ans |-> "error"] \in EndReq
      BY EndIsPlain DEF Answers
    <2> QED BY <1>1, <1>2, <2>1, <2>2, OnlyPlain
  <1>4. CASE accounts[l] = 0
    <2> DEFINE q == [at |-> "register", label |-> l, ans |-> "none"]
    <2>1. Go(c, q)
      BY <1>4 DEF StartConnect
    <2>2. q \in RegisterReq /\ q.at = "register"
      BY DEF RegisterReq
    <2>3. q \in Request
      BY <2>2 DEF Request
    <2> HIDE DEF q
    <2>4. /\ req' \in [Clients -> Request]
          /\ req'[c] = q
          /\ \A d \in Clients : d # c => req'[d] = req[d]
      BY <2>1, <2>3, Going DEF OInv, Typed
    <2>5. Registering' = Registering \cup {c} /\ c \notin Registering
      BY <1>1, <2>2, <2>4 DEF Registering, At, Start
    <2>6. /\ IsFiniteSet(Registering) /\ Cardinality(Registering) \in Nat
          /\ IsFiniteSet(Registering') /\ Cardinality(Registering') = Cardinality(Registering) + 1
      BY <2>5, FS_AddElement, FS_CardinalityType DEF OInv, Typed
    <2>7. Typed'
      <3>1. started \in Nat /\ started' = started + 1
        BY <1>1, MaxOpsAssumption DEF OInv, Typed, TypeOK, Start
      <3>2. \A k \in Labels : regs[k] \in Nat /\ regs[k] + Cardinality(Registering) <= started + 1
        BY MaxOpsAssumption DEF OInv, Typed, TypeOK
      <3>3. \A k \in Labels : regs'[k] + Cardinality(Registering') <= started' + 1
        BY <1>1, <2>6, <3>1, <3>2
      <3>4. TypeOK'
        <4>1. \A d \in Clients : req'[d].ans \in {"none", "ok", "error", "refused", "panic"}
          BY <2>4, RequestAnswers DEF Answers
        <4> QED BY <1>1, <1>2, <4>1 DEF OInv, Typed, TypeOK
      <3> QED BY <1>1, <1>2, <2>4, <2>6, <3>3, <3>4 DEF OInv, Typed
    <2> QED BY <1>1, <2>1, <2>2, <2>3, <2>7, SameAccounts, OnlyAccounts
  <1> QED BY <1>3, <1>4

LEMMA RegisterKeeps ==
  ASSUME OInv, NEW c \in Clients, Register(c)
  PROVE  OInv'
  <1> USE DEF manifestVars, historyVars
  <1> DEFINE l == req[c].label
  <1>1. /\ UNCHANGED <<files, rows, remote, acked, purging, crashed>>
        /\ UNCHANGED <<mem, gens, started, removing>> /\ At(c, "register")
    BY DEF Register
  <1>2. l \in Labels
    <2>1. req[c] \in RegisterReq
      BY <1>1, Shapes DEF OInv, Typed
    <2> QED BY <2>1 DEF RegisterReq
  <1>3. CASE accounts[l] # 0
    <2>1. Go(c, [at |-> "idle", ans |-> "error"]) /\ UNCHANGED <<accounts, regs>>
      BY <1>3 DEF Register, Answer
    <2>2. [at |-> "idle", ans |-> "error"] \in EndReq
      BY EndIsPlain DEF Answers
    <2> QED BY <1>1, <2>1, <2>2, Quiet, OnlyPlain
  <1>4. CASE accounts[l] = 0
    <2> DEFINE q == [at |-> "remember", id |-> Id(l, regs[l] + 1), ans |-> "none"]
    <2>1. /\ Go(c, q) /\ regs' = [regs EXCEPT ![l] = @ + 1]
          /\ accounts' = [accounts EXCEPT ![l] = regs[l] + 1]
      BY <1>4 DEF Register
    <2>2. /\ started \in Nat /\ started <= MaxOps
          /\ IsFiniteSet(Registering) /\ Cardinality(Registering) \in Nat
          /\ c \in Registering
          /\ \A k \in Labels : /\ regs[k] \in Nat /\ accounts[k] \in Nat /\ accounts[k] <= regs[k]
                               /\ regs[k] + Cardinality(Registering) <= started + 1
      BY <1>1, MaxOpsAssumption, FS_CardinalityType DEF OInv, Typed, TypeOK, Registering
    <2>3. /\ IsFiniteSet(Registering \ {c}) /\ Cardinality(Registering \ {c}) \in Nat
          /\ Cardinality(Registering \ {c}) = Cardinality(Registering) - 1
      BY <2>2, FS_RemoveElement, FS_CardinalityType
    <2>4. \A k \in Labels : regs[k] + 1 <= MaxOps + 1
      <3> SUFFICES ASSUME NEW k \in Labels PROVE regs[k] + 1 <= MaxOps + 1
        OBVIOUS
      <3>1. Cardinality(Registering) >= 1
        BY <2>2, <2>3
      <3> QED BY <2>2, <3>1, MaxOpsAssumption
    <2>5. Id(l, regs[l] + 1) \in Ids
      <3>1. regs[l] + 1 \in 1..(MaxOps + 1)
        BY <1>2, <2>2, <2>4, MaxOpsAssumption
      <3> QED BY <1>2, <3>1 DEF Ids
    <2>6. q \in RememberReq /\ q.at = "remember"
      BY <2>5 DEF RememberReq
    <2>7. q \in Request
      BY <2>6 DEF Request
    <2> HIDE DEF q
    <2>8. /\ req' \in [Clients -> Request]
          /\ req'[c] = q
          /\ \A d \in Clients : d # c => req'[d] = req[d]
      BY <2>1, <2>7, Going DEF OInv, Typed
    <2>9. Registering' = Registering \ {c}
      BY <1>1, <2>6, <2>8 DEF Registering, At
    <2>10. Typed'
      <3>1. regs \in [Labels -> 0..(MaxOps + 1)] /\ accounts \in [Labels -> 0..(MaxOps + 1)]
        BY DEF OInv, Typed, TypeOK
      <3>2. regs[l] + 1 \in 0..(MaxOps + 1)
        BY <1>2, <2>2, <2>4, MaxOpsAssumption
      <3>3. /\ regs' \in [Labels -> 0..(MaxOps + 1)] /\ accounts' \in [Labels -> 0..(MaxOps + 1)]
            /\ regs'[l] = regs[l] + 1 /\ accounts'[l] = regs[l] + 1
            /\ \A k \in Labels : k # l => regs'[k] = regs[k] /\ accounts'[k] = accounts[k]
        BY <1>2, <2>1, <3>1, <3>2
      <3>4. \A k \in Labels : /\ accounts'[k] <= regs'[k]
                              /\ regs'[k] + Cardinality(Registering') <= started' + 1
        <4> SUFFICES ASSUME NEW k \in Labels
                     PROVE  /\ accounts'[k] <= regs'[k]
                            /\ regs'[k] + Cardinality(Registering') <= started' + 1
          OBVIOUS
        <4>1. CASE k = l
          BY <1>1, <2>2, <2>3, <2>9, <3>3, <4>1
        <4>2. CASE k # l
          BY <1>1, <2>2, <2>3, <2>9, <3>3, <4>2
        <4> QED BY <4>1, <4>2
      <3>5. TypeOK'
        <4>1. \A d \in Clients : req'[d].ans \in {"none", "ok", "error", "refused", "panic"}
          BY <2>8, RequestAnswers DEF Answers
        <4> QED BY <1>1, <3>3, <4>1 DEF OInv, Typed, TypeOK
      <3> QED BY <1>1, <2>3, <2>8, <2>9, <3>4, <3>5 DEF OInv, Typed
    <2>11. Lasting
      <3>1. /\ regs'[l] = regs[l] + 1 /\ accounts'[l] = regs[l] + 1 /\ regs[l] \in Nat
            /\ \A k \in Labels : k # l => regs'[k] = regs[k] /\ accounts'[k] = accounts[k]
        BY <1>2, <2>1, <2>2 DEF OInv, Typed, TypeOK
      <3>2. ASSUME NEW a \in Ids, a[2] <= regs[a[1]]
            PROVE  /\ a[2] <= regs'[a[1]]
                   /\ a[2] # accounts[a[1]] => a[2] # accounts'[a[1]]
        <4>1. a[1] \in Labels /\ a[2] \in Nat
          BY IdParts, MaxOpsAssumption
        <4>2. CASE a[1] = l
          BY <3>1, <3>2, <4>1, <4>2
        <4>3. CASE a[1] # l
          BY <3>1, <3>2, <4>1, <4>3
        <4> QED BY <4>2, <4>3
      <3> QED BY <3>2 DEF Lasting, Issued, Disconnected
    <2> QED BY <1>1, <2>1, <2>6, <2>7, <2>10, <2>11, OnlyAccounts
  <1> QED BY <1>3, <1>4

-----------------------------------------------------------------------------
LEMMA InitOK == Init => OInv
  <1> SUFFICES ASSUME Init PROVE OInv
    OBVIOUS
  <1>1. Idle \in EndReq /\ Idle.at = "idle" /\ "purged" \notin DOMAIN Idle /\ "got" \notin DOMAIN Idle
    BY DEF Idle, EndReq, Answers
  <1>2. /\ req \in [Clients -> Request]
        /\ \A c \in Clients : req[c] = Idle
    BY <1>1 DEF Init, Request
  <1>3. Registering = {}
    BY <1>1, <1>2 DEF Registering, At
  <1>4. IsFiniteSet(Registering) /\ Cardinality(Registering) = 0
    BY <1>3, FS_EmptySet
  <1>5. Typed
    <2>1. \A c \in Clients : req[c].ans \in {"none", "ok", "error", "refused", "panic"}
      BY <1>2, RequestAnswers DEF Answers
    <2>2. \A l \in Labels : Id(l, 1) \in Ids
      BY MaxOpsAssumption DEF Ids
    <2>3. mem \in [Pools -> SUBSET Ids]
      BY <2>2 DEF Init
    <2>4. TypeOK
      BY <2>1, <2>3, MaxOpsAssumption DEF Init, TypeOK, NoFile
    <2> QED BY <1>2, <1>4, <2>4 DEF Init, Typed
  <1>6. ASSUME NEW c \in Clients PROVE ClientOK(c)
    <2>1. req[c].at = "idle"
      BY <1>1, <1>2
    <2>2. req[c] \notin PurgedReq /\ req[c] \notin GotReq
      <3>1. /\ req[c] \in PurgedReq => "purged" \in DOMAIN req[c]
            /\ req[c] \in GotReq => "got" \in DOMAIN req[c]
        BY DEF PurgedReq, GotReq
      <3> QED BY <1>1, <1>2, <3>1
    <2>3. req[c] \notin DisconnectReq
      BY <2>1 DEF DisconnectReq
    <2> QED BY <2>1, <2>2, <2>3 DEF ClientOK, Stored, Private, InOrder, Recording, Getting,
          Purging, Disconnecting, Gone, Whole, Putting, PutPlaces, At, Uploading
  <1>7. Distinct
    BY <1>1, <1>2 DEF Distinct, Putting, PutPlaces
  <1>8. Tables
    <2>1. Known
      BY DEF Init, Known, NoFile
    <2>2. OneName /\ RowsHaveFiles /\ OneRow /\ RowsMatch /\ NullsTaken
      BY DEF Init, NoFile, OneName, RowsHaveFiles, OneRow, RowsMatch, NullsTaken
    <2>3. PurgesAsked /\ AckedKept /\ RowsPointSomewhere
      BY DEF Init, PurgesAsked, AckedKept, RowsPointSomewhere
    <2>4. CompleteHasAllRows
      BY DEF Init, NoFile, CompleteHasAllRows
    <2> QED BY <2>1, <2>2, <2>3, <2>4 DEF Tables
  <1> QED BY <1>5, <1>6, <1>7, <1>8 DEF OInv

LEMMA StutterOK ==
  ASSUME OInv, UNCHANGED vars
  PROVE  OInv'
  <1>1. /\ UNCHANGED <<accounts, regs, files, rows, mem, remote, gens, req, started, crashed>>
        /\ UNCHANGED <<acked, removing, purging>>
    BY DEF vars, manifestVars, historyVars
  <1>2. Registering' = Registering
    BY <1>1 DEF Registering, At
  <1>3. Typed'
    BY <1>1, <1>2 DEF OInv, Typed, TypeOK
  <1>4. ASSUME NEW c \in Clients PROVE ClientOK(c)'
    <2> USE <1>1 DEF At, Putting, PutPlaces, Mem, Uploading
    <2>0. ClientOK(c) /\ Disconnected' = Disconnected /\ Issued' = Issued
      BY SameAccounts DEF OInv
    <2>1. Stored(c)' /\ Private(c)' /\ InOrder(c)'
      BY <2>0 DEF ClientOK, Stored, Private, InOrder
    <2>2. Recording(c)' /\ Getting(c)' /\ Purging(c)'
      BY <2>0 DEF ClientOK, Recording, Getting, Purging
    <2>3. Disconnecting(c)' /\ Gone(c)' /\ Whole(c)'
      BY <2>0 DEF ClientOK, Disconnecting, Gone, Whole
    <2> QED BY <2>1, <2>2, <2>3 DEF ClientOK
  <1>5. Distinct'
    BY <1>1 DEF OInv, Distinct, Putting
  <1>6. Tables'
    <2>1. gens \in Nat /\ gens <= gens'
      BY <1>1, MaxOpsAssumption DEF OInv, Typed, TypeOK
    <2>2. gens' \in Nat /\ Lasting /\ removing \subseteq removing'
      BY <1>1, <2>1, SameAccounts
    <2> QED BY <1>1, <2>1, <2>2, TablesKept DEF OInv
  <1> QED BY <1>3, <1>4, <1>5, <1>6 DEF OInv

LEMMA NextOK ==
  ASSUME OInv, [Next]_vars
  PROVE  OInv'
  <1>1. ASSUME NEW c \in Clients, Begin(c) PROVE OInv'
    BY <1>1, StartPutKeeps, StartGetKeeps, SoftRemoveKeeps, StartPurgeKeeps, StartConnectKeeps,
       StartDisconnectKeeps, StartStatusKeeps, LookupFailsKeeps DEF Begin
  <1>2. ASSUME NEW c \in Clients, Step(c) PROVE OInv'
    <2>1. CASE Put(c)
      BY <2>1, PutChunkKeeps, PutChunkFailsKeeps, PutReadFailsKeeps, PutPanicsKeeps,
         PutCleanupKeeps, PutCreateKeeps, PutAddChunkKeeps, FailureKeeps, PutCompleteKeeps
         DEF Put, StepFails
    <2>2. CASE Get(c)
      BY <2>2, GetListKeeps, GetChunkKeeps, FailureKeeps DEF Get, StepFails
    <2>3. CASE Purge(c)
      BY <2>3, PurgeListKeeps, PurgeChunkKeeps, PurgeFolderKeeps, FailureKeeps,
         PurgeDeleteKeeps DEF Purge, StepFails
    <2>4. CASE Disconnect(c)
      BY <2>4, CountChunksKeeps, DeregisterKeeps, ForgetKeeps, FailureKeeps
         DEF Disconnect, StepFails
    <2>5. CASE Connect(c)
      BY <2>5, RegisterKeeps, RememberKeeps, FailureKeeps DEF Connect, StepFails
    <2>6. CASE StatusRow(c)
      BY <2>6, StatusRowKeeps
    <2> QED BY <1>2, <2>1, <2>2, <2>3, <2>4, <2>5, <2>6 DEF Step
  <1> QED BY <1>1, <1>2, StutterOK DEF Next, Rest

(***************************************************************************)
(* The invariant holds in every reachable state, for any number of         *)
(* concurrent requests.                                                    *)
(***************************************************************************)
THEOREM PoolInvariant == Spec => []OInv
  BY InitOK, NextOK, PTL DEF Spec

(* Types, and bounds of every counter.                                     *)
THEOREM PoolTypeOK == Spec => []TypeOK
  <1>1. OInv => TypeOK
    BY DEF OInv, Typed
  <1> QED BY <1>1, PoolInvariant, PTL

(***************************************************************************)
(* A file the manifest calls complete has a row for each chunk, although   *)
(* SetVirtualFileStatus and the removals and purges of the name run        *)
(* without a transaction around them.                                      *)
(***************************************************************************)
THEOREM PoolCompleteHasAllRows == Spec => []CompleteHasAllRows
  <1>1. OInv => CompleteHasAllRows
    BY DEF OInv, Tables
  <1> QED BY <1>1, PoolInvariant, PTL

(***************************************************************************)
(* No cleanup, no disconnect and no purge of another file deletes an       *)
(* object that a row still refers to.                                      *)
(***************************************************************************)
THEOREM PoolRowsPointSomewhere == Spec => []RowsPointSomewhere
  <1>1. OInv => RowsPointSomewhere
    BY DEF OInv, Tables
  <1> QED BY <1>1, PoolInvariant, PTL

(* A request with the chunks or the generation it ended with has ended.    *)
LEMMA EndShapes ==
  ASSUME NEW q \in Request
  PROVE  /\ "purged" \in DOMAIN q => q \in PurgedReq
         /\ "got" \in DOMAIN q /\ q.ans = "ok" => q \in GotReq
  <1>1. /\ q \in EndReq => DOMAIN q = {"at", "ans"}
        /\ q \in GotReq => DOMAIN q = {"at", "ans", "got"}
        /\ q \in PurgedReq => DOMAIN q = {"at", "ans", "purged", "skipped"}
        /\ q \in PutReq => DOMAIN q = {"at", "name", "gen", "cand", "idx", "up", "ans"}
        /\ q \in ListReq => DOMAIN q = {"at", "name", "gen", "ans"}
    BY DEF EndReq, GotReq, PurgedReq, PutReq, ListReq
  <1>2. /\ q \in GetReq => DOMAIN q = {"at", "name", "gen", "list", "got", "ans"} /\ q.ans = "none"
        /\ q \in PurgeReq => DOMAIN q = {"at", "name", "gen", "list", "folders", "skipped", "ans"}
        /\ q \in DisconnectReq => DOMAIN q = {"at", "label", "id", "force", "ans"}
        /\ q \in RegisterReq => DOMAIN q = {"at", "label", "ans"}
        /\ q \in RememberReq => DOMAIN q = {"at", "id", "ans"}
        /\ q \in StatusReq => DOMAIN q = {"at", "ids", "ans"}
    BY DEF GetReq, PurgeReq, DisconnectReq, RegisterReq, RememberReq, StatusReq
  <1> QED BY <1>1, <1>2 DEF Request

(***************************************************************************)
(* A purge that has seen all rows and reached all accounts leaves nothing  *)
(* of its file on Drive, whatever runs beside it and after it.             *)
(***************************************************************************)
THEOREM PoolPurgedIsGone == Spec => []PurgedIsGone
  <1>1. ASSUME OInv PROVE PurgedIsGone
    <2> SUFFICES ASSUME NEW c \in Clients, "purged" \in DOMAIN req[c], ~req[c].skipped
                 PROVE  \A o \in remote : o.gen # req[c].purged
      BY DEF PurgedIsGone
    <2>1. req[c] \in Request /\ Gone(c)
      BY <1>1 DEF OInv, Typed, ClientOK
    <2>2. req[c] \in PurgedReq
      BY <2>1, EndShapes
    <2> QED BY <2>1, <2>2 DEF Gone
  <1> QED BY <1>1, PoolInvariant, PTL

(***************************************************************************)
(* A download that succeeds is one upload and all of it: as many chunks as *)
(* the file has, of one generation, are all indexes once.                  *)
(***************************************************************************)
THEOREM PoolGetIsOneUpload == Spec => []GetIsOneUpload
  <1>1. ASSUME OInv PROVE GetIsOneUpload
    <2> SUFFICES ASSUME NEW c \in Clients, "got" \in DOMAIN req[c], req[c].ans = "ok"
                 PROVE  \E g \in 1..MaxOps : /\ req[c].got = {o \in req[c].got : o.gen = g}
                                             /\ {o.idx : o \in req[c].got} = 1..NumChunks
      BY DEF GetIsOneUpload
    <2>1. req[c] \in Request /\ Whole(c)
      BY <1>1 DEF OInv, Typed, ClientOK
    <2>2. req[c] \in GotReq
      BY <2>1, EndShapes
    <2>3. \A o \in req[c].got : o.idx \in 1..NumChunks
      BY <2>2 DEF GotReq, Object
    <2>4. PICK g \in 1..MaxOps : /\ \A o \in req[c].got : o.gen = g
                                /\ \A i \in 1..NumChunks : \E o \in req[c].got : o.idx = i
      BY <2>1, <2>2 DEF Whole
    <2>5. req[c].got = {o \in req[c].got : o.gen = g}
      BY <2>4
    <2>6. {o.idx : o \in req[c].got} = 1..NumChunks
      BY <2>3, <2>4
    <2> QED BY <2>5, <2>6
  <1> QED BY <1>1, PoolInvariant, PTL

(***************************************************************************)
(* An upload answered with success stays whole until its name is removed:  *)
(* every chunk is on Drive and has a row that says where, and a row that   *)
(* no longer does has lost an account that was disconnected.  A disconnect *)
(* without force may be the one: see UnforcedDisconnectIsSafe.             *)
(***************************************************************************)
THEOREM PoolAckedPutSurvives == Spec => []AckedPutSurvives
  <1>1. ASSUME OInv PROVE AckedPutSurvives
    <2> SUFFICES ASSUME NEW f \in acked, f.name \notin removing
                 PROVE  /\ files[f.name] = [gen |-> f.gen, status |-> "complete"]
                        /\ \A i \in 1..NumChunks :
                             \E o \in remote : /\ o.gen = f.gen /\ o.idx = i
                                               /\ o \in rows \/ o.acc \in Disconnected
      BY DEF AckedPutSurvives
    <2>1. f.name \in Names /\ files[f.name] = [gen |-> f.gen, status |-> "complete"]
      BY <1>1 DEF OInv, Tables, AckedKept
    <2>2. files[f.name].gen = f.gen /\ files[f.name].status = "complete"
      BY <2>1
    <2>3. f.gen \notin purging
      BY <1>1, <2>1, <2>2 DEF OInv, Tables, PurgesAsked
    <2>4. ASSUME NEW i \in 1..NumChunks
          PROVE  \E o \in remote : /\ o.gen = f.gen /\ o.idx = i
                                   /\ o \in rows \/ o.acc \in Disconnected
      <3>1. {r.idx : r \in RowsOf(f.gen)} = 1..NumChunks
        BY <1>1, <2>1, <2>2 DEF OInv, Tables, CompleteHasAllRows
      <3>2. PICK r \in RowsOf(f.gen) : r.idx = i
        BY <3>1
      <3>3. r \in rows /\ r.gen = f.gen
        BY DEF RowsOf
      <3>4. PICK o \in remote : o.gen = r.gen /\ o.idx = r.idx /\ r.acc \in {o.acc, Null}
        BY <1>1, <2>3, <3>3 DEF OInv, Tables, RowsPointSomewhere
      <3>5. CASE r.acc = Null
        BY <1>1, <3>2, <3>3, <3>4, <3>5 DEF OInv, Tables, NullsTaken
      <3>6. CASE r.acc = o.acc
        <4>1. r \in Object /\ o \in Object
          BY <1>1, <3>3 DEF OInv, Typed, TypeOK
        <4>2. r = o
          BY <3>4, <3>6, <4>1, SameObject
        <4> QED BY <3>2, <3>3, <3>4, <4>2
      <3> QED BY <3>4, <3>5, <3>6
    <2> QED BY <2>1, <2>4
  <1> QED BY <1>1, PoolInvariant, PTL

(* A step moves one request, unless it is the panic of a process.          *)
LEMMA OneMoves ==
  ASSUME NEW d \in Clients, Begin(d) \/ Step(d)
  PROVE  PutPanics(d) \/ \E q : Go(d, q)
  <1>1. CASE Begin(d)
    BY <1>1 DEF Begin, StartPut, StartGet, SoftRemove, StartPurge, StartConnect,
       StartDisconnect, StartStatus, LookupFails, Answer
  <1>2. CASE Put(d)
    BY <1>2 DEF Put, PutChunk, PutChunkFails, PutReadFails, PutCleanup, PutCreate, PutAddChunk,
       PutAddChunkFails, PutComplete, PutCompleteFails, Fails, Answer
  <1>3. CASE Get(d)
    BY <1>3 DEF Get, GetList, GetListFails, GetChunk, Fails, Answer
  <1>4. CASE Purge(d)
    BY <1>4 DEF Purge, PurgeList, PurgeListFails, PurgeChunk, PurgeFolder, PurgeFails,
       PurgeDelete, PurgeDeleteFails, Fails, Answer
  <1>5. CASE Disconnect(d)
    BY <1>5 DEF Disconnect, CountChunks, CountChunksFails, Deregister, DeregisterFails, Forget,
       Fails, Answer
  <1>6. CASE Connect(d) \/ StatusRow(d)
    BY <1>6 DEF Connect, Register, RegisterFails, Remember, StatusRow, Fails, Answer
  <1> QED BY <1>1, <1>2, <1>3, <1>4, <1>5, <1>6 DEF Step

(***************************************************************************)
(* Where Drive deletes what it is asked to, a purge that has listed its    *)
(* chunks ends with success, whoever deleted them first; it fails only     *)
(* when the DELETE is refused after all it could reach is deleted, and     *)
(* panics only with an account that was disconnected.                      *)
(***************************************************************************)
THEOREM PoolPurgeGoesThrough == Spec => PurgeGoesThrough
  <1> DEFINE Ends(c) ==
               \/ req'[c].ans = "ok"
               \/ /\ req'[c].ans = "error"
                  /\ \/ "delete" \in Faults
                     \/ req[c].skipped
                     \/ \A o \in remote : o.gen # req[c].gen
               \/ req'[c].ans = "panic" /\ Relied(c) \cap Disconnected # {}
             Through == \A c \in Clients : At(c, "purge") /\ req'[c].at = "idle" => Ends(c)
  <1>1. ASSUME OInv, Next PROVE Through
    <2> SUFFICES ASSUME NEW c \in Clients, At(c, "purge"), req'[c].at = "idle"
                 PROVE  Ends(c)
      OBVIOUS
    <2>0. req \in [Clients -> Request] /\ ClientOK(c)
      BY <1>1 DEF OInv, Typed
    <2>1. PICK d \in Clients : Begin(d) \/ Step(d)
      <3>1. ~Rest
        BY DEF Rest, At
      <3> QED BY <1>1, <3>1 DEF Next
    <2>2. CASE PutPanics(d)
      <3>1. \/ req'[c] = req[c]
            \/ req'[c] = [at |-> "idle", ans |-> "panic"] /\ Home[d] = Home[c]
        BY <2>2 DEF PutPanics
      <3>2. req'[c].ans = "panic" /\ Home[d] = Home[c]
        BY <3>1 DEF At
      <3>3. PICK a \in req[d].cand : a \notin Mem(d)
        BY <2>2 DEF PutPanics
      <3>4. Uploading(d) /\ Stored(d) /\ Putting(d)
        BY <1>1, <2>2 DEF OInv, ClientOK, PutPanics, Putting, PutPlaces, At, Uploading
      <3>5. a \in Disconnected
        BY <3>3, <3>4 DEF Stored
      <3>6. a \in Relied(c)
        BY <3>2, <3>3, <3>4 DEF Relied
      <3> QED BY <3>2, <3>5, <3>6
    <2>3. CASE ~PutPanics(d) /\ d # c
      <3>1. PICK q : Go(d, q)
        BY <2>1, <2>3, OneMoves
      <3>2. req'[c] = req[c]
        BY <2>0, <2>3, <3>1 DEF Go
      <3> QED BY <3>2 DEF At
    <2>4. CASE ~PutPanics(d) /\ d = c
      <3>1. \/ PurgeChunk(c) \/ PurgeFolder(c) \/ PurgeFails(c)
            \/ PurgeDelete(c) \/ PurgeDeleteFails(c)
        <4>1. ~Begin(c)
          BY DEF Begin, StartPut, StartGet, SoftRemove, StartPurge, StartConnect,
             StartDisconnect, StartStatus, LookupFails, Start, At
        <4>2. ~Put(c)
          BY DEF Put, PutChunk, PutChunkFails, PutReadFails, PutPanics, PutCleanup, PutCreate,
             PutAddChunk, PutAddChunkFails, PutComplete, PutCompleteFails, Uploading, At
        <4>3. ~Get(c) /\ ~Disconnect(c) /\ ~Connect(c) /\ ~StatusRow(c)
          BY DEF Get, GetList, GetListFails, GetChunk, Disconnect, CountChunks,
             CountChunksFails, Deregister, DeregisterFails, Forget, Connect, Register,
             RegisterFails, Remember, StatusRow, At
        <4>4. ~PurgeList(c) /\ ~PurgeListFails(c)
          BY DEF PurgeList, PurgeListFails, At
        <4> QED BY <2>1, <2>4, <4>1, <4>2, <4>3, <4>4 DEF Step, Purge
      <3>2. req[c] \in PurgeReq
        BY <2>0, Shapes
      <3>3. CASE PurgeChunk(c)
        <4> DEFINE r == First(req[c].list)
        <4>1. \/ req'[c] = [req[c] EXCEPT !.list = @ \ {r}, !.folders = @ \cup {r.acc}]
              \/ req'[c] = [req[c] EXCEPT !.list = @ \ {r}, !.skipped = TRUE]
          BY <2>0, <3>3 DEF PurgeChunk, Go
        <4> HIDE DEF r
        <4>2. [req[c] EXCEPT !.list = @ \ {r}, !.folders = @ \cup {r.acc}].at = "purge"
          BY <3>2, Zenon DEF PurgeReq
        <4>3. [req[c] EXCEPT !.list = @ \ {r}, !.skipped = TRUE].at = "purge"
          BY <3>2, Zenon DEF PurgeReq
        <4>4. req'[c].at = "purge"
          BY <4>1, <4>2, <4>3, Zenon
        <4> QED BY <4>4
      <3>4. CASE PurgeFolder(c)
        <4>1. PICK a \in req[c].folders :
                IF a \in Mem(c) THEN Go(c, [req[c] EXCEPT !.folders = @ \ {a}])
                                ELSE Answer(c, "panic")
          BY <3>4 DEF PurgeFolder
        <4>2. CASE a \in Mem(c)
          <5>1. req'[c] = [req[c] EXCEPT !.folders = @ \ {a}]
            BY <2>0, <4>1, <4>2 DEF Go
          <5> QED BY <3>2, <5>1 DEF PurgeReq
        <4>3. CASE a \notin Mem(c)
          <5>1. req'[c] = [at |-> "idle", ans |-> "panic"]
            BY <2>0, <4>1, <4>3 DEF Go, Answer
          <5>2. a \in Disconnected /\ a \in Relied(c)
            BY <2>0, <4>3 DEF ClientOK, Purging, Relied
          <5> QED BY <5>1, <5>2
        <4> QED BY <4>2, <4>3
      <3>5. CASE PurgeDelete(c)
        BY <2>0, <3>5 DEF PurgeDelete, Go
      <3>6. CASE PurgeFails(c)
        <4>1. req'[c] = [at |-> "idle", ans |-> "error"] /\ "delete" \in Faults
          BY <2>0, <3>6 DEF PurgeFails, Answer, Go
        <4> QED BY <4>1
      <3>7. CASE PurgeDeleteFails(c)
        <4>1. req'[c] = [at |-> "idle", ans |-> "error"] /\ req[c].list = {}
          BY <2>0, <3>7 DEF PurgeDeleteFails, Fails, Answer, Go
        <4>2. ~req[c].skipped => \A o \in remote : o.gen # req[c].gen
          BY <2>0, <4>1 DEF ClientOK, Purging
        <4>3. req'[c].ans = "error"
          BY <4>1
        <4> QED BY <4>2, <4>3, Zenon
      <3> QED BY <3>1, <3>3, <3>4, <3>5, <3>6, <3>7
    <2> QED BY <2>2, <2>3, <2>4
  <1>2. OInv /\ [Next]_vars => [Through]_vars
    BY <1>1
  <1> HIDE DEF Through
  <1>3. Spec => [][Through]_vars
    BY <1>2, PoolInvariant, PTL DEF Spec
  <1> QED BY <1>3 DEF PurgeGoesThrough, Through
=============================================================================
