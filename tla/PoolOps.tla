------------------------------ MODULE PoolOps ------------------------------
(***************************************************************************)
(* Concurrent requests of one user against the manifest (Postgres), the    *)
(* Drive accounts and the in-memory account maps of the processes that     *)
(* have a Pool open for that user (drivepool/pool.go, drivepool/manifest). *)
(*                                                                         *)
(* A step is one database statement, one call to Drive, or one access to   *)
(* p.accounts: the code holds no transaction and no lock between them.     *)
(* The goroutines inside one PutStream or GetStream are the business of    *)
(* Upload and Download; here a request handles its chunks one by one.      *)
(***************************************************************************)
EXTENDS Integers, FiniteSets

CONSTANTS
  Clients,    \* requests that may be under way at the same time
  Pools,      \* processes with a Pool of their own: the portal, CLI commands
  Home,       \* the Pool each client runs in
  Names,      \* virtual file names
  Labels,     \* account labels
  NumChunks,  \* chunks per file
  Ops,        \* which operations are called, see AllOps
  Faults,     \* which calls may fail, see AllFaults
  MaxOps      \* bound: number of requests

AllOps == {"put", "get", "soft", "purge", "disconnect", "force", "connect", "status"}

(* upload: the body ends early, no account has room, EnsureFolder or       *)
(* Upload fails; delete: Store.Delete fails; db: a statement fails and     *)
(* leaves the tables as they are.                                          *)
AllFaults == {"upload", "delete", "db"}

ASSUME HomeAssumption == Home \in [Clients -> Pools]
ASSUME NumChunksAssumption == NumChunks \in Nat \ {0}
ASSUME OpsAssumption == Ops \subseteq AllOps /\ Faults \subseteq AllFaults
ASSUME MaxOpsAssumption == MaxOps \in Nat

VARIABLES
  accounts,   \* accounts table: which registration of a label is current, 0 if none
  regs,       \* how often each label has been registered
  mem,        \* mem[p]: the keys of p.accounts in process p
  files,      \* virtual_files table: for each name its generation (0 if none) and status
  rows,       \* chunks table
  remote,     \* chunk objects on Drive
  gens,       \* PutStream calls so far; the generation is the file's id and key
  req,        \* the request each client is running
  started,    \* requests so far
  crashed,    \* processes that died of a panic in a goroutine
  acked,      \* history: files whose Put was answered with success
  removing,   \* history: names some Remove was called for
  purging     \* history: generations some purge has looked up

manifestVars == <<accounts, regs, files, rows>>
historyVars == <<acked, removing, purging>>
vars == <<manifestVars, mem, remote, gens, req, started, crashed, historyVars>>

-----------------------------------------------------------------------------
(* An account id: the n-th registration of a label has an id of its own.   *)
Id(l, n) == <<l, n>>
Null == <<>>          \* account_id after ON DELETE SET NULL

Registered == {Id(l, accounts[l]) : l \in {k \in Labels : accounts[k] # 0}}

Ids == {Id(l, n) : l \in Labels, n \in 1..(MaxOps + 1)}

(* Accounts that were registered once and no longer are.                   *)
Disconnected == {a \in Ids : a[2] <= regs[a[1]] /\ a[2] # accounts[a[1]]}

NoFile == [gen |-> 0, status |-> "none"]

Idle == [at |-> "idle", ans |-> "none"]

RowsOf(g) == {r \in rows : r.gen = g}

(* ListChunks orders by idx: the next row of a list.                       *)
First(list) == CHOOSE r \in list : \A s \in list : r.idx <= s.idx

Init ==
  /\ accounts = [l \in Labels |-> 1]
  /\ regs = [l \in Labels |-> 1]
  /\ mem = [p \in Pools |-> {Id(l, 1) : l \in Labels}]
  /\ files = [n \in Names |-> NoFile]
  /\ rows = {}
  /\ remote = {}
  /\ gens = 0
  /\ req = [c \in Clients |-> Idle]
  /\ started = 0
  /\ crashed = {}
  /\ acked = {}
  /\ removing = {}
  /\ purging = {}

Mem(c) == mem[Home[c]]

(* The request of c goes on as r.                                          *)
Go(c, r) == req' = [req EXCEPT ![c] = r]

Answer(c, a) == Go(c, [at |-> "idle", ans |-> a])

(* A request is accepted by a living process.                              *)
Start(c, op) ==
  /\ op \in Ops
  /\ req[c].at = "idle"
  /\ Home[c] \notin crashed
  /\ started < MaxOps
  /\ started' = started + 1

At(c, place) == req[c].at = place

(* A statement fails, and its error is returned as it is.                  *)
Fails(c) ==
  /\ "db" \in Faults
  /\ Answer(c, "error")
  /\ UNCHANGED <<manifestVars, mem, remote, gens, started, crashed, historyVars>>

-----------------------------------------------------------------------------
(* PutStream.                                                              *)

(* The candidates are collected from p.accounts.                           *)
StartPut(c, n) ==
  /\ Start(c, "put")
  /\ gens' = gens + 1
  /\ IF Mem(c) = {}
       THEN Answer(c, "error")
       ELSE Go(c, [at |-> "upload", name |-> n, gen |-> gens + 1, cand |-> Mem(c),
                   idx |-> 0, up |-> {}, ans |-> "none"])
  /\ UNCHANGED <<manifestVars, mem, remote, crashed, historyVars>>

(* In the loop over the chunks, before and after the first failed upload.  *)
Uploading(c) == At(c, "upload") \/ At(c, "failing")

(* Where a loop that is at place goes on, i chunks having been started.    *)
AfterChunk(place, i) ==
  IF i < NumChunks THEN place ELSE IF place = "upload" THEN "create" ELSE "cleanup"

(* The tracker names an account of the candidates, which is looked up in   *)
(* p.accounts again; the account of a single chunk is not.                 *)
Targets(c) == IF NumChunks = 1 THEN req[c].cand ELSE req[c].cand \cap Mem(c)

(* Mutant of PutChunk: the loop runs once too often.                       *)
PutChunkKeepsGoing(c) ==
  /\ Uploading(c)
  /\ \E a \in Targets(c) :
       LET obj == [gen |-> req[c].gen, idx |-> req[c].idx + 1, acc |-> a]
       IN  /\ remote' = remote \cup {obj}
           /\ Go(c, [req[c] EXCEPT !.up = @ \cup {obj}, !.idx = @ + 1,
                                   !.at = AfterChunk(@, req[c].idx)])
  /\ UNCHANGED <<manifestVars, mem, gens, started, crashed, historyVars>>

(* One chunk is stored.                                                    *)
PutChunk(c) ==
  /\ Uploading(c)
  /\ \E a \in Targets(c) :
       LET obj == [gen |-> req[c].gen, idx |-> req[c].idx + 1, acc |-> a]
       IN  /\ remote' = remote \cup {obj}
           /\ Go(c, [req[c] EXCEPT !.up = @ \cup {obj}, !.idx = @ + 1,
                                   !.at = AfterChunk(@, req[c].idx + 1)])
  /\ UNCHANGED <<manifestVars, mem, gens, started, crashed, historyVars>>

(* A worker fails: firstErr is set and the loop goes on.                   *)
PutChunkFails(c) ==
  /\ Uploading(c)
  /\ "upload" \in Faults
  /\ Targets(c) # {}
  /\ Go(c, [req[c] EXCEPT !.idx = @ + 1, !.at = AfterChunk("failing", req[c].idx + 1)])
  /\ UNCHANGED <<manifestVars, mem, remote, gens, started, crashed, historyVars>>

(* The read or the reservation fails: readErr is set and the loop ends.    *)
PutReadFails(c) ==
  /\ Uploading(c)
  /\ "upload" \in Faults
  /\ Go(c, [req[c] EXCEPT !.at = "cleanup"])
  /\ UNCHANGED <<manifestVars, mem, remote, gens, started, crashed, historyVars>>

(* The account left p.accounts meanwhile: the worker gets a nil *Account   *)
(* and dereferences it.  A panic in a goroutine ends the process and every *)
(* request it was serving.                                                 *)
PutPanics(c) ==
  /\ Uploading(c)
  /\ req[c].cand \ Mem(c) # {}
  /\ NumChunks > 1
  /\ crashed' = crashed \cup {Home[c]}
  /\ req' = [d \in Clients |->
               IF Home[d] = Home[c] THEN [at |-> "idle", ans |-> "panic"] ELSE req[d]]
  /\ UNCHANGED <<manifestVars, mem, remote, gens, started, historyVars>>

(* cleanupChunks: skips accounts that are no longer in p.accounts; a       *)
(* Delete that fails is logged and the loop goes on.                       *)
PutCleanup(c) ==
  /\ At(c, "cleanup")
  /\ IF req[c].up = {}
       THEN Answer(c, "error") /\ UNCHANGED remote
       ELSE LET obj == First(req[c].up)
            IN  /\ \/ remote' = IF obj.acc \in Mem(c) THEN remote \ {obj} ELSE remote
                   \/ "delete" \in Faults /\ UNCHANGED remote
                /\ Go(c, [req[c] EXCEPT !.up = @ \ {obj}])
  /\ UNCHANGED <<manifestVars, mem, gens, started, crashed, historyVars>>

(* Mutant of PutCreate: an upsert takes the name over.                     *)
PutCreateUpsert(c) ==
  /\ At(c, "create")
  /\ LET n == req[c].name
     IN  files' = [files EXCEPT ![n] = [gen |-> req[c].gen, status |-> "incomplete"]]
  /\ Go(c, [req[c] EXCEPT !.at = "record"])
  /\ UNCHANGED <<accounts, regs, rows, mem, remote, gens, started, crashed, historyVars>>

(* CreateVirtualFile: UNIQUE (user_id, name).                              *)
PutCreate(c) ==
  /\ At(c, "create")
  /\ LET n == req[c].name
     IN  \/ /\ files[n].gen = 0
            /\ files' = [files EXCEPT ![n] = [gen |-> req[c].gen, status |-> "incomplete"]]
            /\ Go(c, [req[c] EXCEPT !.at = "record"])
         \/ /\ files[n].gen # 0 \/ "db" \in Faults
            /\ Go(c, [req[c] EXCEPT !.at = "cleanup"])
            /\ UNCHANGED files
  /\ UNCHANGED <<accounts, regs, rows, mem, remote, gens, started, crashed, historyVars>>

(* The foreign keys of a chunk row: its file and its account exist.        *)
KeysHold(c, obj) == files[req[c].name].gen = obj.gen /\ obj.acc \in Registered

PutAddChunk(c) ==
  /\ At(c, "record")
  /\ req[c].up # {}
  /\ LET obj == First(req[c].up)
     IN  /\ KeysHold(c, obj)
         /\ rows' = rows \cup {obj}
         /\ Go(c, [req[c] EXCEPT !.up = @ \ {obj}])
  /\ UNCHANGED <<accounts, regs, files, mem, remote, gens, started, crashed, historyVars>>

(* Mutants of PutAddChunkFails: the chunk is skipped and the loop goes on; *)
(* the uploaded chunks are cleaned up.                                     *)
PutAddChunkFailsSkips(c) ==
  /\ At(c, "record")
  /\ req[c].up # {}
  /\ "db" \in Faults \/ ~KeysHold(c, First(req[c].up))
  /\ Go(c, [req[c] EXCEPT !.up = @ \ {First(@)}])
  /\ UNCHANGED <<manifestVars, mem, remote, gens, started, crashed, historyVars>>
PutAddChunkFailsWithCleanup(c) ==
  /\ At(c, "record")
  /\ req[c].up # {}
  /\ "db" \in Faults \/ ~KeysHold(c, First(req[c].up))
  /\ remote' = {o \in remote : o.gen # req[c].gen}
  /\ Answer(c, "error")
  /\ UNCHANGED <<manifestVars, mem, gens, started, crashed, historyVars>>

(* AddChunk fails: returned as it is, without cleanup.                     *)
PutAddChunkFails(c) ==
  /\ At(c, "record")
  /\ req[c].up # {}
  /\ "db" \in Faults \/ ~KeysHold(c, First(req[c].up))
  /\ Answer(c, "error")
  /\ UNCHANGED <<manifestVars, mem, remote, gens, started, crashed, historyVars>>

(* SetVirtualFileStatus(complete): an UPDATE by id, whatever the status is *)
(* by now, and no error when the row is gone.                              *)
PutComplete(c) ==
  /\ At(c, "record")
  /\ req[c].up = {}
  /\ LET n == req[c].name
     IN  /\ files' = IF files[n].gen = req[c].gen
                       THEN [files EXCEPT ![n].status = "complete"] ELSE files
         /\ acked' = acked \cup {[name |-> n, gen |-> req[c].gen]}
  /\ Answer(c, "ok")
  /\ UNCHANGED <<accounts, regs, rows, mem, remote, gens, started, crashed, removing,
                 purging>>

PutCompleteFails(c) == At(c, "record") /\ req[c].up = {} /\ Fails(c)

Put(c) ==
  \/ PutChunk(c) \/ PutChunkFails(c) \/ PutReadFails(c) \/ PutPanics(c) \/ PutCleanup(c)
  \/ PutCreate(c) \/ PutAddChunk(c) \/ PutAddChunkFails(c)
  \/ PutComplete(c) \/ PutCompleteFails(c)

-----------------------------------------------------------------------------
(* GetStream.                                                              *)

(* GetVirtualFile: the status is not looked at.                            *)
StartGet(c, n) ==
  /\ Start(c, "get")
  /\ IF files[n].gen = 0
       THEN Answer(c, "error")
       ELSE Go(c, [at |-> "get list", name |-> n, gen |-> files[n].gen, ans |-> "none"])
  /\ UNCHANGED <<manifestVars, mem, remote, gens, crashed, historyVars>>

(* ListChunks of the file looked up.                                       *)
GetList(c) ==
  /\ At(c, "get list")
  /\ LET list == RowsOf(req[c].gen)
     IN  IF list = {}
           THEN Answer(c, "error")
           ELSE Go(c, [at |-> "get", name |-> req[c].name, gen |-> req[c].gen,
                       list |-> list, got |-> {}, ans |-> "none"])
  /\ UNCHANGED <<manifestVars, mem, remote, gens, started, crashed, historyVars>>

GetListFails(c) == At(c, "get list") /\ Fails(c)

Reachable(c, r) == r.acc \in Mem(c) /\ r \in remote

(* Mutant of GetChunk: each chunk is looked up by the file's name.         *)
GetChunkByName(c) ==
  /\ At(c, "get")
  /\ IF Cardinality(req[c].got) = NumChunks
       THEN Go(c, [at |-> "idle", ans |-> "ok", got |-> req[c].got])
       ELSE LET i == Cardinality(req[c].got) + 1
                found == {r \in RowsOf(files[req[c].name].gen) : r.idx = i /\ Reachable(c, r)}
            IN  IF found = {} THEN Answer(c, "error")
                              ELSE Go(c, [req[c] EXCEPT !.got = @ \cup found])
  /\ UNCHANGED <<manifestVars, mem, remote, gens, started, crashed, historyVars>>

(* downloadChunk of the next row, or an error; at the end the hash of all  *)
(* chunks is compared with the file's.                                     *)
GetChunk(c) ==
  /\ At(c, "get")
  /\ IF req[c].list = {}
       THEN IF Cardinality(req[c].got) = NumChunks
              THEN Go(c, [at |-> "idle", ans |-> "ok", got |-> req[c].got])
              ELSE Answer(c, "error")
       ELSE LET r == First(req[c].list)
            IN  IF Reachable(c, r)
                  THEN Go(c, [req[c] EXCEPT !.list = @ \ {r}, !.got = @ \cup {r}])
                  ELSE Answer(c, "error")
  /\ UNCHANGED <<manifestVars, mem, remote, gens, started, crashed, historyVars>>

-----------------------------------------------------------------------------
(* Remove.                                                                 *)

(* Without purge: one UPDATE by name.                                      *)
SoftRemove(c, n) ==
  /\ Start(c, "soft")
  /\ removing' = removing \cup {n}
  /\ IF files[n].gen = 0
       THEN Answer(c, "error") /\ UNCHANGED files
       ELSE Answer(c, "ok") /\ files' = [files EXCEPT ![n].status = "deleted"]
  /\ UNCHANGED <<accounts, regs, rows, mem, remote, gens, crashed, acked, purging>>

(* With purge: GetVirtualFile ...                                          *)
StartPurge(c, n) ==
  /\ Start(c, "purge")
  /\ removing' = removing \cup {n}
  /\ IF files[n].gen = 0
       THEN Answer(c, "error") /\ UNCHANGED purging
       ELSE /\ purging' = purging \cup {files[n].gen}
            /\ Go(c, [at |-> "purge list", name |-> n, gen |-> files[n].gen, ans |-> "none"])
  /\ UNCHANGED <<manifestVars, mem, remote, gens, crashed, acked>>

(* ... ListChunks (skipped notes what this purge never gets to see) ...    *)
PurgeList(c) ==
  /\ At(c, "purge list")
  /\ LET list == RowsOf(req[c].gen)
     IN  Go(c, [at |-> "purge", name |-> req[c].name, gen |-> req[c].gen, list |-> list,
                folders |-> {}, skipped |-> Cardinality(list) < NumChunks, ans |-> "none"])
  /\ UNCHANGED <<manifestVars, mem, remote, gens, started, crashed, historyVars>>

PurgeListFails(c) == At(c, "purge list") /\ Fails(c)

(* Mutant of PurgeChunk: the chunk is not deleted, its folder will be; but *)
(* the folder is remembered only for the first chunk.                      *)
PurgeChunkFirstOnly(c) ==
  /\ At(c, "purge")
  /\ req[c].list # {}
  /\ LET r == First(req[c].list)
     IN  /\ remote' = IF req[c].folders = {} THEN remote \ {r} ELSE remote
         /\ Go(c, [req[c] EXCEPT !.list = @ \ {r},
                                 !.folders = IF @ = {} THEN {r.acc} ELSE @])
  /\ UNCHANGED <<manifestVars, mem, gens, started, crashed, historyVars>>

(* Mutant of PurgeChunk: ErrNotFound is an error like any other.           *)
PurgeChunkNotFound(c) ==
  /\ At(c, "purge")
  /\ req[c].list # {}
  /\ LET r == First(req[c].list)
     IN  /\ IF r.acc \in Mem(c) /\ r \notin remote
              THEN Answer(c, "error")
              ELSE Go(c, [req[c] EXCEPT !.list = @ \ {r}, !.folders = @ \cup {r.acc}])
         /\ remote' = remote \ {r}
  /\ UNCHANGED <<manifestVars, mem, gens, started, crashed, historyVars>>

(* ... delete each chunk, skipping those whose account is gone; a chunk    *)
(* that is not found counts as deleted ...                                 *)
PurgeChunk(c) ==
  /\ At(c, "purge")
  /\ req[c].list # {}
  /\ LET r == First(req[c].list)
     IN  IF r.acc \in Mem(c)
           THEN /\ remote' = remote \ {r}
                /\ Go(c, [req[c] EXCEPT !.list = @ \ {r}, !.folders = @ \cup {r.acc}])
           ELSE /\ Go(c, [req[c] EXCEPT !.list = @ \ {r}, !.skipped = TRUE])
                /\ UNCHANGED remote
  /\ UNCHANGED <<manifestVars, mem, gens, started, crashed, historyVars>>

(* ... and each account's folder, with all it contains.  The account is    *)
(* looked up in p.accounts again, and not asked for: one that has left it  *)
(* meanwhile is a nil *Account, and the request panics ...                 *)
PurgeFolder(c) ==
  /\ At(c, "purge")
  /\ req[c].list = {}
  /\ \E a \in req[c].folders :
       IF a \in Mem(c)
         THEN /\ remote' = {o \in remote : o.gen # req[c].gen \/ o.acc # a}
              /\ Go(c, [req[c] EXCEPT !.folders = @ \ {a}])
         ELSE Answer(c, "panic") /\ UNCHANGED remote
  /\ UNCHANGED <<manifestVars, mem, gens, started, crashed, historyVars>>

(* ... stopping at the first Delete that really fails ...                  *)
PurgeFails(c) ==
  /\ At(c, "purge")
  /\ "delete" \in Faults
  /\ IF req[c].list # {} THEN First(req[c].list).acc \in Mem(c)
                         ELSE req[c].folders \cap Mem(c) # {}
  /\ Answer(c, "error")
  /\ UNCHANGED <<manifestVars, mem, remote, gens, started, crashed, historyVars>>

(* ... then DELETE by name; the chunk rows of the file go with it.         *)
PurgeDelete(c) ==
  /\ At(c, "purge")
  /\ req[c].list = {}
  /\ req[c].folders = {}
  /\ LET n == req[c].name
     IN  /\ rows' = rows \ RowsOf(files[n].gen)
         /\ files' = [files EXCEPT ![n] = NoFile]
  /\ Go(c, [at |-> "idle", ans |-> "ok", purged |-> req[c].gen, skipped |-> req[c].skipped])
  /\ UNCHANGED <<accounts, regs, mem, remote, gens, started, crashed, historyVars>>

(* The DELETE fails: the row stays, after all it points to is deleted.     *)
PurgeDeleteFails(c) ==
  At(c, "purge") /\ req[c].list = {} /\ req[c].folders = {} /\ Fails(c)

-----------------------------------------------------------------------------
(* RemoveAccount.                                                          *)

(* GetAccount by label.                                                    *)
StartDisconnect(c, l, force) ==
  /\ Start(c, IF force THEN "force" ELSE "disconnect")
  /\ IF accounts[l] = 0
       THEN Answer(c, "error")
       ELSE Go(c, [at |-> IF force THEN "deregister" ELSE "count", label |-> l,
                   id |-> Id(l, accounts[l]), force |-> force, ans |-> "none"])
  /\ UNCHANGED <<manifestVars, mem, remote, gens, crashed, historyVars>>

(* Rows of non-deleted files that name account id.                         *)
ActiveChunks(id) ==
  {r \in rows : r.acc = id /\ \E n \in Names : files[n].gen = r.gen
                                               /\ files[n].status # "deleted"}

(* CountActiveChunks; ErrAccountInUse.                                     *)
CountChunks(c) ==
  /\ At(c, "count")
  /\ IF ActiveChunks(req[c].id) # {}
       THEN Answer(c, "refused")
       ELSE Go(c, [req[c] EXCEPT !.at = "deregister"])
  /\ UNCHANGED <<manifestVars, mem, remote, gens, started, crashed, historyVars>>

CountChunksFails(c) == At(c, "count") /\ Fails(c)

(* DELETE by label; ON DELETE SET NULL on the chunks of that account.      *)
Deregister(c) ==
  /\ At(c, "deregister")
  /\ LET l == req[c].label
         id == Id(l, accounts[l])
     IN  IF accounts[l] = 0
           THEN Answer(c, "error") /\ UNCHANGED <<accounts, rows>>
           ELSE /\ accounts' = [accounts EXCEPT ![l] = 0]
                /\ rows' = {IF r.acc = id THEN [r EXCEPT !.acc = Null] ELSE r : r \in rows}
                /\ Go(c, [req[c] EXCEPT !.at = "forget"])
  /\ UNCHANGED <<regs, files, mem, remote, gens, started, crashed, historyVars>>

DeregisterFails(c) == At(c, "deregister") /\ Fails(c)

(* delete(p.accounts, row.ID).                                             *)
Forget(c) ==
  /\ At(c, "forget")
  /\ mem' = [mem EXCEPT ![Home[c]] = @ \ {req[c].id}]
  /\ Answer(c, "ok")
  /\ UNCHANGED <<manifestVars, remote, gens, started, crashed, historyVars>>

-----------------------------------------------------------------------------
(* AddAccount and CompleteConsent.                                         *)

(* checkLabelAvailable, then consent, the token and the quota.             *)
StartConnect(c, l) ==
  /\ Start(c, "connect")
  /\ IF accounts[l] # 0
       THEN Answer(c, "error")
       ELSE Go(c, [at |-> "register", label |-> l, ans |-> "none"])
  /\ UNCHANGED <<manifestVars, mem, remote, gens, crashed, historyVars>>

(* manifest.AddAccount: UNIQUE (user_id, label).                           *)
Register(c) ==
  /\ At(c, "register")
  /\ LET l == req[c].label
     IN  IF accounts[l] # 0
           THEN Answer(c, "error") /\ UNCHANGED <<accounts, regs>>
           ELSE /\ regs' = [regs EXCEPT ![l] = @ + 1]
                /\ accounts' = [accounts EXCEPT ![l] = regs[l] + 1]
                /\ Go(c, [at |-> "remember", id |-> Id(l, regs[l] + 1), ans |-> "none"])
  /\ UNCHANGED <<files, rows, mem, remote, gens, started, crashed, historyVars>>

RegisterFails(c) == At(c, "register") /\ Fails(c)

(* UpdateAccountQuota, then p.accounts[id] = a; when the update fails the  *)
(* row stays and the map does not get the account.                         *)
Remember(c) ==
  /\ At(c, "remember")
  /\ \/ /\ mem' = [mem EXCEPT ![Home[c]] = @ \cup {req[c].id}]
        /\ Answer(c, "ok")
     \/ /\ "db" \in Faults
        /\ Answer(c, "error")
        /\ UNCHANGED mem
  /\ UNCHANGED <<manifestVars, remote, gens, started, crashed, historyVars>>

-----------------------------------------------------------------------------
(* ListAccountStatus.                                                      *)

StartStatus(c) ==
  /\ Start(c, "status")
  /\ Go(c, [at |-> "status", ids |-> Registered, ans |-> "none"])
  /\ UNCHANGED <<manifestVars, mem, remote, gens, crashed, historyVars>>

(* One row: its account in p.accounts, or a nil *Account whose initErr is  *)
(* read.  The panic happens in the request's own goroutine: the portal's   *)
(* Recovery middleware answers 500, a CLI command ends.                    *)
StatusRow(c) ==
  /\ At(c, "status")
  /\ IF req[c].ids = {}
       THEN Answer(c, "ok")
       ELSE \E id \in req[c].ids :
              IF id \in Mem(c) THEN Go(c, [req[c] EXCEPT !.ids = @ \ {id}])
                               ELSE Answer(c, "panic")
  /\ UNCHANGED <<manifestVars, mem, remote, gens, started, crashed, historyVars>>

-----------------------------------------------------------------------------
(* The lookup a request begins with, or the only statement of a removal    *)
(* without purge, fails.                                                   *)
LookupFails(c) ==
  /\ \E op \in Ops \ {"put"} : Start(c, op)
  /\ "db" \in Faults
  /\ Answer(c, "error")
  /\ UNCHANGED <<manifestVars, mem, remote, gens, crashed, historyVars>>

Begin(c) ==
  \/ \E n \in Names : StartPut(c, n) \/ StartGet(c, n) \/ SoftRemove(c, n) \/ StartPurge(c, n)
  \/ \E l \in Labels : StartConnect(c, l) \/ \E f \in BOOLEAN : StartDisconnect(c, l, f)
  \/ StartStatus(c)
  \/ LookupFails(c)

Get(c) == GetList(c) \/ GetListFails(c) \/ GetChunk(c)

Purge(c) ==
  \/ PurgeList(c) \/ PurgeListFails(c) \/ PurgeChunk(c) \/ PurgeFolder(c) \/ PurgeFails(c)
  \/ PurgeDelete(c) \/ PurgeDeleteFails(c)

Disconnect(c) ==
  \/ CountChunks(c) \/ CountChunksFails(c) \/ Deregister(c) \/ DeregisterFails(c) \/ Forget(c)

Connect(c) == Register(c) \/ RegisterFails(c) \/ Remember(c)

Step(c) == Put(c) \/ Get(c) \/ Purge(c) \/ Disconnect(c) \/ Connect(c) \/ StatusRow(c)

(* No request is under way, and none need come.                            *)
Rest == (\A c \in Clients : At(c, "idle")) /\ UNCHANGED vars

Next == (\E c \in Clients : Begin(c) \/ Step(c)) \/ Rest

Spec == Init /\ [][Next]_vars

-----------------------------------------------------------------------------
Object == [gen: 1..MaxOps, idx: 1..NumChunks, acc: Ids \cup {Null}]

TypeOK ==
  /\ accounts \in [Labels -> 0..(MaxOps + 1)]
  /\ regs \in [Labels -> 0..(MaxOps + 1)]
  /\ mem \in [Pools -> SUBSET Ids]
  /\ files \in [Names -> [gen: 0..MaxOps,
                          status: {"none", "incomplete", "complete", "deleted"}]]
  /\ rows \subseteq Object
  /\ remote \subseteq Object
  /\ gens \in 0..MaxOps
  /\ started \in 0..MaxOps
  /\ crashed \subseteq Pools
  /\ \A c \in Clients : req[c].ans \in {"none", "ok", "error", "refused", "panic"}

(***************************************************************************)
(* A file the manifest calls complete has a row for each of its chunks,    *)
(* whatever removals, purges and re-uploads of the name run beside its     *)
(* upload.                                                                 *)
(***************************************************************************)
CompleteHasAllRows ==
  \A n \in Names : files[n].status = "complete" =>
    {r.idx : r \in RowsOf(files[n].gen)} = 1..NumChunks

(***************************************************************************)
(* A chunk row points to an object that is on Drive, unless somebody asked *)
(* for this very file to be purged: no cleanup, no purge of another file   *)
(* of that name, no disconnect deletes data that is still referred to.     *)
(***************************************************************************)
RowsPointSomewhere ==
  \A r \in rows : r.gen \notin purging =>
    \E o \in remote : o.gen = r.gen /\ o.idx = r.idx /\ r.acc \in {o.acc, Null}

(***************************************************************************)
(* A purge that answers with success, that found the rows of all chunks    *)
(* and none of whose accounts was out of reach, leaves no chunk of the     *)
(* file on Drive, whatever else runs beside it.                            *)
(***************************************************************************)
PurgedIsGone ==
  \A c \in Clients :
    "purged" \in DOMAIN req[c] /\ ~req[c].skipped =>
      \A o \in remote : o.gen # req[c].purged

(***************************************************************************)
(* A download that succeeds returns all chunks of one upload, never pieces *)
(* of two uploads of the same name.                                        *)
(***************************************************************************)
GetIsOneUpload ==
  \A c \in Clients : "got" \in DOMAIN req[c] /\ req[c].ans = "ok" =>
    \E g \in 1..MaxOps : req[c].got = {o \in req[c].got : o.gen = g}
                          /\ {o.idx : o \in req[c].got} = 1..NumChunks

(***************************************************************************)
(* An upload that was answered with success is kept: as long as nobody     *)
(* asks for its name to be removed the file is complete, every chunk is on *)
(* Drive, and its row still says where, unless that account was            *)
(* disconnected.                                                           *)
(***************************************************************************)
AckedPutSurvives ==
  \A f \in acked : f.name \notin removing =>
    /\ files[f.name] = [gen |-> f.gen, status |-> "complete"]
    /\ \A i \in 1..NumChunks :
         \E o \in remote : o.gen = f.gen /\ o.idx = i /\ (o \in rows \/ o.acc \in Disconnected)

(* Accounts the process of c was going to use without asking again.        *)
Relied(c) ==
  req[c].folders \cup
    UNION {req[d].cand : d \in {e \in Clients : Home[e] = Home[c] /\ Uploading(e)}}

(***************************************************************************)
(* As long as Drive deletes what it is asked to, a purge that has listed   *)
(* the chunks goes through: chunks and folders that somebody else deleted  *)
(* first, such as another purge of the same file, do not block it.  It     *)
(* fails only when nothing of what it could reach is left on Drive and the *)
(* DELETE is refused, and panics only when an account its process relied   *)
(* on was disconnected, with or without force.                             *)
(***************************************************************************)
PurgeGoesThrough ==
  [][\A c \in Clients : At(c, "purge") /\ req'[c].at = "idle" =>
       \/ req'[c].ans = "ok"
       \/ /\ req'[c].ans = "error"
          /\ \/ "delete" \in Faults
             \/ req[c].skipped
             \/ \A o \in remote : o.gen # req[c].gen
       \/ req'[c].ans = "panic" /\ Relied(c) \cap Disconnected # {}]_vars

(***************************************************************************)
(* DeleteVirtualFile: the caller "already confirmed the file exists via    *)
(* GetVirtualFile", so a purge removes the row of the file it looked up,   *)
(* not that of another file.                                               *)
(***************************************************************************)
PurgeRemovesWhatItFound ==
  [][\A c \in Clients : PurgeDelete(c) =>
       files[req[c].name].gen \in {0, req[c].gen}]_vars

(***************************************************************************)
(* RemoveAccount: "If it still holds chunks for any non-deleted file,      *)
(* removal is refused (ErrAccountInUse) unless force is set".              *)
(***************************************************************************)
UnforcedDisconnectIsSafe ==
  [][\A c \in Clients : Deregister(c) /\ ~req[c].force =>
       ActiveChunks(Id(req[c].label, accounts[req[c].label])) = {}]_vars

(***************************************************************************)
(* An account that is not in p.accounts is reported ("account not          *)
(* initialized", "account is unavailable"): it does not crash the request, *)
(* let alone the process.                                                  *)
(***************************************************************************)
NeverPanics == \A c \in Clients : req[c].ans # "panic"
=============================================================================
