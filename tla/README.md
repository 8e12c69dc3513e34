# Rhino in TLA+

A verification project for the rhino-framework repository: TLA+ models of the
Drive pool (chunked upload and download over several Google Drive accounts, and
the manifest that ties the chunks together), of the web portal and the CLI that
share it, and of the peer-to-peer file server; TLC runs on small instances; and
TLAPS proofs for every instance. `PROJECT.json` is the machine-readable index:
components, runs, mutants, the map from definitions to source lines, findings,
hazards, theorems.

## 1. Inventory of the system

| component | state | operations | interacts with |
|---|---|---|---|
| placement (`drivepool/placement.go`) | `t.available`, `t.unlimited` | `pickAccount`, `newPlacementTracker`, `reserve` | asks each account's quota once per call |
| `PutStream` (`drivepool/pool.go`) | reader, workers, semaphore, folder mutex, `results`, `firstErr` | read loop, `uploadChunk`, `cleanupChunks`, recording | placement, gdrive, manifest |
| `GetStream` (`drivepool/pool.go`) | one channel per chunk, semaphore, running hash | launch loop, `downloadChunk`, drain loop | gdrive, manifest |
| pool operations (`drivepool/pool.go`) | `p.accounts`, an unguarded map per process | Put, Get, Remove, AddAccount / CompleteConsent, RemoveAccount, ListAccountStatus, List, Open | manifest, gdrive; several requests share one cached Pool, the CLI has its own |
| manifest (`drivepool/manifest`, `db/migrations`) | tables accounts, virtual_files, chunks | one statement per method, no transaction over two of them | Postgres |
| gdrive client | folders and files on each Drive | Quota, EnsureFolder, Upload, Download, Delete | Google Drive (external) |
| pool cache (`backend/poolcache.go`) | map user -> Pool, with idle times | get, evict | pool operations |
| OAuth connect, sessions (`backend/handlers_oauth.go`, `handlers_auth.go`, `middleware.go`, `authdb`) | pending states, users, cookies | connect, callback, register, login, logout | pool operations |
| HTTP handlers, server, config, CLI | ticker of `evictLoop` | one handler or command per pool operation; start, stop | all of the above |
| P2P file server (`server.go`) | peers, local store | Store, Get, message loop | transport, store |
| P2P transport (`p2p/`) | connections, one wait group per peer | accept, dial, read loop, stream hand-over | file server |
| local store, codec (`storage/`) | files by hashed path; none | write, read, delete, clear; AES-CTR and DEFLATE streams | file server, PutStream |
| frontend (`frontend/src/stores`) | lists of files and accounts | refresh, upload, delete | HTTP handlers |

What is hard in it:

- **Concurrency inside a call.** `PutStream` runs a reader and up to
  `maxParallelUploads` workers that share a semaphore, a mutex around folder
  creation, a result slice and an error; `GetStream` launches all downloads
  before it receives the first.
- **Concurrency between calls.** There is no transaction and no lock over two
  statements: purge looks a file up, deletes objects, and deletes *by name*;
  RemoveAccount counts, then deletes; ListAccountStatus lists rows and looks
  them up in a map that other requests change.
- **Failure.** Every Drive and database call may fail, take effect and report an
  error, or be cut short by a cancelled context; the process may die between
  two statements.
- **State that outlives a request.** A cached Pool is opened once and then only
  told of what goes through it; it is evicted whoever uses it, while CLI commands
  change the same rows through Pools of their own. An OAuth callback comes back
  minutes later, twice, or never, and possibly to a restarted portal.
- **Framing by timing.** A peer connection carries messages and streams with no
  lengths; the read loop, a wait group, two sleeps and the order of reads decide
  who reads which bytes. Peers join and leave in between.
- **Arithmetic at the edges.** Empty files, exact multiples of the chunk size,
  budgets that reach zero or go below.

The hazards, each at its line, are listed in `PROJECT.json`.

What makes each component correct: placement balances, never overdraws an
account by more than a chunk, and cuts the file into exactly its bytes; an
upload records a file only when every chunk is stored, leaves nothing dangling,
and returns; a download hands out a prefix of the file and says "ok" only for
the whole; the pool operations keep acknowledged uploads, never mix two uploads,
and delete what they say they delete; the portal keeps tenants apart, honours an
OAuth state once, and has Pools that know their accounts; a file server's peers
hold exactly what was stored, and a Get returns it.

## 2. Modules

| module | models | state | steps |
|---|---|---|---|
| `Placement` | `placement.go`, the read loop's arithmetic | `available`, `unlimited` = the tracker; `remaining`, `placed` = the loop | plan (one account, tracker, failure), place a piece, refuse, end |
| `Upload` | one `PutStream` | `pc` = the reader, `worker[i]` = the goroutine of chunk i; `folderLock`, `folders` = `folderResolver`; `results`, `firstErr`, `readErr`; `vf`, `rows` = the manifest; `remote`, `driveFolders` = Drive | one per Drive or database call, or access to shared state |
| `Download` | one `GetStream` | `getter[i]`, `ready[i]` = goroutine and channel of row i; `next` = the drain loop; `sent`, `hashed` | the same |
| `PoolOps` | requests of one user against manifest, Drive and `p.accounts` | the three tables, `mem[p]` = `p.accounts` of process p, `req[c]` = the request client c runs | one per statement, Drive call or map access |
| `Delivery` | what `GetStream` promises the client | `out`, `result` | deliver the next piece, succeed, fail |
| `Portal` | `backend/` and `cmd/rhino`, with the accounts table and `drivepool.Open` | `users`, `accounts` = the tables; `session` = cookies; `cache`, `idle` = `poolCache`; `pools` = Pool objects with their account maps; `pending` = `oauthPending`; `req[r]` = where a request or command is; `clock`, `evictor` = the ticker and `evictLoop` | one per statement, critical section of `cache.mu` or `oauthMu`, or map access; time; restart |
| `FileServer` | `server.go`, `p2p/`, `storage/` | `peers`, `rpcs` = `FileServer.peers`, `rpcch`; `in[e]` = bytes under way to an end of a connection; `loop[e]` = its read loop; `local`, `replica` = the stores; `app[i]` = the call of Store or Get | one per read, write or wait |
| `PlacementProofs`, `UploadProofs`, `DownloadProofs`, `PoolOpsProofs`, `PortalProofs`, `FileServerProofs` | proofs | | |
| `MCPlacement`, `MCUpload`, `MCDownload`, `MCPoolOps`, `MCPortal`, `MCFileServer` | bounded instances | | |

`Upload` instantiates `Placement` (`P == INSTANCE Placement`): each placement
step of the reader *is* an action of `Placement`, and `PlacementSpec == P!Spec`
says that the whole of `PutStream` implements it. `Download` instantiates
`Delivery` with `out <- sent, result <- ret`: `DeliverySpec` says that goroutines,
channels, missing rows and failures never show at the client's end other than as
an error. `PoolOps` is the coarser view:
a request handles its chunks one after the other, because what its goroutines do
to each other is the subject of `Upload` and `Download`; what requests do to each
other is its own. `Portal` is the layer above: which user's Pool a request gets,
and which accounts that Pool knows; a request that works with files just holds
the Pool there.

Abstractions:

- A chunk is its index. Compression, encryption and hashes are not told apart
  from the content, except that a hash is modelled by what it is taken over
  (`ContentHash`, `hashed` in `Download`) and an MD5 mismatch is a fault.
- In `Placement`, quotas and sizes are numbers of bytes; `MaxInt64` is a
  constant no smaller than any limit. Sums stay far below 2^63 in the code.
- Which account `pickAccount` or `reserve` takes among equals is nondeterministic
  (map order, unstable sort).
- `Faults` says which failures may happen. `lost` is a call that takes effect and
  reports an error. A cancelled context makes every later Drive or database call
  fail, possibly after taking effect. Reads from the request body may go on.
- In `PoolOps`, a file's generation stands for its row id, its key and the name
  of its Drive folders, all of them fresh for every `PutStream`; an account id is
  a label and the number of its registration. A foreign key that does not hold
  makes AddChunk fail; ON DELETE CASCADE and SET NULL are part of the deleting
  step. The quota is not modelled there: any candidate may be chosen. Every
  statement may fail, and then changes nothing; where the code returns the error
  as it is, that is a step of its own (`Fails`). After a failed chunk the loop goes
  on with the next ones (`"failing"`), as in the code; when the read or the
  reservation fails it ends. The Deletes of a cleanup may fail one by one.
- In `Portal`, a user's id is the name, a row of `accounts` is told apart by the
  number of its registration, a Pool by the number of its object, reused once
  nobody refers to it (`Collect`). Time is a counter; one round of `evictLoop`
  takes less than its unit. A password is known to its owner; that of a CLI identity, a
  random value thrown away, to nobody. Requests that fail before they change
  anything are no steps.
- In `FileServer`, what one write puts on a connection is a unit (marker,
  message, size, IV, ciphertext), TCP keeps units in order, and a broken connection
  delivers a prefix. Every node has one file. `CopyDecrypt` yields the content
  only for the ciphertext that belongs to the IV in front of it. A read loop that
  is blocked in Read has the connection's read lock, so a handler reads only while
  the loop is busy with a stream; the moments when that is not so are the faults
  `first` and `add`, and a Read that returns more than the message is `overrun`.
  The empty RPCs of a read loop that spins are ignored by `FileServer.loop` and not
  queued in the model.
- `acked`, `removing`, `purging` (`PoolOps`), `excused` (`Upload`,
  `Portal`), `asked`, `used` (`Portal`), `told` and `got` (`FileServer`) are
  history variables: no guard reads them. `last` and `happened` (`FileServer`) are
  history too, except that the content of a stream is that of the last Store, and
  that `happened` bounds the faults and ends a run's calls once framing is lost.

The models of calls and requests have a step that stutters at the end (`Stopped`,
`Finished`, `Rest`), and `Portal` never stops, so TLC's deadlock check finds every
state in which somebody is stuck. `FileServer` is checked without it: it
may come to rest, and a Get that waits for a peer without the file, or a peer
that waits for a stream that never comes, really does stop there; what must not
hang is `GetReturns`.

## 3. Runs

| run | expected | what it shows |
|---|---|---|
| `placement` | pass | three accounts, six kinds of quota, files of 0 to 9 bytes, chunks of 2: `Balanced`, `OvercommitBounded`, `BudgetExact`, `RefusedOnlyWhenFull`, `SplitIsWhole` |
| `upload` | pass | two accounts, two slots, files of 0, 1 and 4 chunks, all ten faults at once: `CompleteMeansWhole`, `RowsPointSomewhere`, `FailureLeavesNoRecord`, `OrphansExcused`, `OneFolderPerAccount`, `BuffersBounded`, `NeverStuck`, `QuietAfterReturn`, `Terminates`, and the refinement `PlacementSpec` |
| `upload_record` | violation of `NoOrphans` | a failed AddChunk returns without cleanup: chunks without a row stay on Drive |
| `download` | pass | five chunks, three slots, 0 to 5 rows found, all faults: `OkMeansWhole`, `FaultlessSucceeds`, `NoGetterOutlives`, `Terminates`, and the refinement `DeliverySpec` (the client receives a prefix) |
| `pool` | pass | two portal requests and a CLI command, three operations of any kind, all faults: `CompleteHasAllRows`, `RowsPointSomewhere` |
| `pool_files` | pass | five operations, two at a time, disconnects with and without force among them, statements that fail: `PurgedIsGone`, `GetIsOneUpload`, `AckedPutSurvives`, `PurgeGoesThrough` |
| `pool_purge_race` | violation of `PurgeRemovesWhatItFound` | a purge overtaken by another purge and a new upload deletes the new file's rows |
| `pool_disconnect_race` | violation of `UnforcedDisconnectIsSafe` | a chunk recorded between the count and the DELETE loses its account without force |
| `pool_panic` | violation of `NeverPanics` | a worker dereferences an account that was disconnected after the tracker was built |
| `portal` | pass | two users, a browser, two requests and a CLI command, two registrations, eviction, sweep and restart at any time: `TenantIsolation`, `OneShot`, `Swept`, `CliNeverLogsIn`, `KnownUnlessForeign` |
| `fileserver` | pass | a caller and two peers that join at any time, three calls, one fault of any of six kinds: `ReplicaExact`, `GetIsLastStored`, `GetReturns` |
| `fileserver_hang` | violation of `AnyPeerIsEnough` | without any fault a Get waits forever for a peer that does not have the file, although another has answered |

Each property of a passing run has a mutant: a definition replaced by what a
plausible bug would make of it (the operators commented "Mutant of ..." before
the definition), under which TLC finds the property violated.

**Bounds.** Chunk size 2 in `placement` gives pieces of both lengths; sizes 0 to
9 cover zero, multiples and both neighbours of a multiple; the quotas include a
full account, one with less than a chunk and two that tie. In `upload`, four
chunks on two slots make the reader wait and let a worker start after another
has failed; with at most two bytes on each account reserve fails half-way; an
account takes several chunks, so the folder mutex is contended. In `download`, five
chunks on three slots mean that the last downloads are launched only after
earlier ones have ended. In `pool`, three operations (`MaxOps`) suffice for every
pair to interleave while a third has changed the state before, in two processes;
`pool_files` trades the second process for sequences of five, enough for put,
purge, put, with a get or a purge of the first file still under way, and for put, soft
delete, disconnect, reconnect, purge; uploads fail there at the create statement only. Two chunks
per file let an operation be overtaken between chunks. One name suffices: files of
different names share only accounts.

In `portal`, all times are 1, so an entry or a state can be young, just expired
and swept; two names and one label let two tenants use the same label; two
requests and a command suffice for an eviction, a second Pool and a CLI change
under a running request. One OAuth flow (`MaxStates`) may be replayed, expire or
race the CLI for its label; two were checked with one registration (1.03 million
states) and with one request (0.94 million), with the same result. In
`fileserver`, three calls are what store, delete and get need, with a store or a
get still in the peers' queues; two peers are what it takes for one of them to have
the file and another not, or to be behind a broken connection. Five calls
without faults pass too.

**Symmetry** is over interchangeable requests (and, in `portal`, users, in the `pool` runs
labels), in runs that check only safety.

**Fairness** (`FairSpec` in `Upload` and `Download`). Weak fairness of the reader
(or caller) and of the workers as a group: the Go scheduler runs runnable
goroutines, and a released mutex or channel slot is passed on. Of the external
services it assumes that every Drive or database call returns, with a result or an
error; the code sets no timeouts of its own, so a service that never answers
blocks the call until its context is cancelled. Weak fairness of the group
suffices as a worker takes at most five steps. Nothing is assumed of Cancel, Crash
or of success: no fault is ever required to stop. In `FileServer`, weak fairness of
each node's call and message loop and of each read loop: goroutines run when they
can, and what TCP has taken is delivered unless the connection breaks. New calls,
joining peers and faults are not fair. `Portal` states no fairness, and no
liveness: that expired states and idle Pools go away is `Swept`, a bound on
their age.

### What the models say about the code beyond the runs

These are in the models, each an outcome of the named action, and are kept out
of the list of runs as they need one step or one cause only:

- `Reservable`: a chunk is placed on an account whose budget is smaller than the
  chunk, even 0, although PutStream is said to place it "on whichever account
  has room" (pool.go:408). `OvercommitBounded` bounds the damage.
- `UploadStoredButFails`: a chunk whose MD5 differs is stored and nobody deletes
  it (pool.go:579). `CleanupChunk`: after a cancellation the cleanup runs under
  the cancelled context and deletes nothing (pool.go:607). Both are the chunks
  `OrphansExcused` excuses.
- `PutComplete`: the status is updated by id whatever it is, so a soft delete
  during an upload is undone (manifest.go:185).
- `PurgeDeleteFails`: when the last statement of a purge fails, the file keeps its
  rows and has nothing on Drive any more (pool.go:856); a second purge goes through
  (`PurgeGoesThrough`).
- `PurgeChunk`: a purge skips accounts it cannot reach, forgets the rows, and
  reports success (pool.go:832). `PurgedIsGone` is therefore about purges that
  skipped nothing.
- `StatusRow`: ListAccountStatus reads a field of a nil account when the account
  is not in the map (pool.go:321); `Remember` shows one way there. `PurgeFolder`:
  so does a purge whose account is disconnected before its folders are deleted
  (pool.go:851). Force is not needed for that: once the file is soft-deleted its
  chunks no longer keep the account. `PurgeGoesThrough` says that there is no other way.
- `KnownUnlessForeign` has exceptions, and each of them happens: an account added
  by the CLI is unknown to the cached Pool until it is evicted or the portal
  restarts (poolcache.go:42); so is one whose callback got its Pool just
  before the eviction (poolcache.go:64), or whose quota could not be recorded
  (pool.go:262). ListAccountStatus then reads a field of a nil account.
- `Drop` and `Forget`: RemoveAccount deletes the row that has the label now and
  forgets the id it looked up before; if the label was reconnected in between,
  the Pool keeps an account that has no row (pool.go:291).
- `DecodePayload` with `overrun`: two Stores in a row, or a peer slow to read, and
  the Read of a message takes the stream's first bytes with it (encoding.go:35);
  5 ms of sleep are all that keeps them apart.
- `ReadsMarker` and `ClosesEarly` (`first`, `add`): a handler that reads before the read
  loop is back in Read takes the stream's marker for content, and one that is done
  before the loop's wg.Add(1) brings the wait group below zero (tcp_transport.go:150).
  The node is gone; nothing is claimed of what follows.
- `Dial` with `join`: a peer that connects between the STORE message and its stream is
  sent the stream without the message, and its read loop waits for a handler that never
  comes (server.go:150). `ReplicaExact` is about behaviours without it, `Lagging`
  (section 4) is what the proofs say of such a peer.
- `HandleMessageStoreFile`: when the connection ends inside a stream, what arrived is
  kept as the replica (server.go:259); when it was reset, the handler returns before
  CloseStream and the read loop is left waiting for good (server.go:260).
- `StreamFails`: peers never leave `s.peers`, so after one disconnect a Store stops at
  the dead peer and may leave others with part of the stream they wait for
  (server.go:157); broadcast fails there as well, and the node may neither store
  nor fetch from then on.
- `GetFails`: a Get that fails leaves an empty local file, which later Gets serve
  from disk as the file (store.go:112). `GetFrom` after a drop: a file cut
  short is returned as a success. `GetIsLastStored` is therefore about behaviours
  without broken connections.
- `Panic`: a connection that breaks between STORE and its stream makes the handler
  call CloseStream without an Add, and the counter of the wait group goes below
  zero (server.go:266).
- `DecodeFails`: a read loop whose peer is gone spins (encoding.go:22) and puts an empty
  RPC into rpcch each time round, which has to be taken out before the messages of
  other peers; the model has the spinning, not the RPCs.
- Two callers on one connection, each storing and getting a file of its own, mix
  their streams: nothing says whether an incoming stream is an answer or a
  replica (server.go:111). With `Callers = Nodes = {"a", "b"}`, three calls and no
  fault TLC finds `ReplicaExact` and `GetIsLastStored` violated: a Get that runs while
  the other end stores reads that Store's stream as its answer, and the handler of
  the STORE keeps the bytes that come next. `fileserver` has one caller, and so have
  the theorems about it.
- `StartGet`: GetVirtualFile does not look at the status, so incomplete and
  soft-deleted files can be downloaded; the content hash is what protects the
  reader (`OkMeansWhole`).

## 4. Proofs

For every set of accounts, every quota, size, chunk size and number of parallel
uploads or downloads, every set of faults, any users, browsers, requests,
commands, processes, labels and times, and any nodes; the assumptions are the named
ASSUMEs of the component modules (a positive chunk size, number of chunks and
number of slots, sizes that are not negative, well-formed quotas, limits that fit
64 bits; finitely many names, requests and nodes; requests that are not commands;
every client has a process; the bounds on operations and faults are numbers). TLC
evaluates them in every run. Where a theorem has a hypothesis of its own, it is
stated with it and named below.

**`PlacementProofs`.** `PlacementInv` is inductive. `Balanced` and
`OvercommitBounded` survive a reservation because it takes from a largest budget
and only from one that is not negative; what they need besides is that the
tracker is made before anything is placed (`Untouched`) and what the tracker's
domains are (`TrackerShape`). Theorems: `PlacementTypeOK`, `SpreadIsBalanced`,
`OvercommitIsBounded`, `RefusalMeansOverdrawn`.

The other properties speak of bytes placed, which is `Total` of a sequence, a
recursive function. What is needed of it is what `Append` does to it
(`TotalAppend`). Induction is not available to the provers; in its place stands
that a nonempty set of naturals has a smallest member (`SmallestIn`): a first
index at which two candidates for the partial sums differ has a predecessor at
which they agree, so partial sums are unique (`SumsUnique`), and a first length
without any is likewise impossible (`SumsExist`).

- `BudgetIsExact`: `BudgetExact` is inductive with `PlacementInv`, as `PlaceAddsBytes`
  says that a reservation moves `len` bytes from the budget to the account.
  `RefusalOnlyWhenFull` follows: the budgets are negative when reserve refuses.
- `SplitMakesWhole`: the invariant `Cut` says that every piece so far is a full chunk, or
  the last one, and that pieces and `remaining` make up the size. That the loop
  ends with nothing left needs the rounding of `numChunks` (`NumChunksBounds`: one
  chunk less would be too few).
- `PlacementDecides`: pickAccount finds an account whenever one is healthy, and reserve
  finds one or refuses: there is a largest budget (`LargestOf`), as none exceeds 64
  bits (`BudgetsFit`).

**`UploadProofs`.**

1. `UploadImplementsPlacement`: every step is a step of `Placement` or leaves it
   alone, so the theorems about `Placement` hold inside `PutStream`
   (`PlacementSpecHere`).
2. `UploadTypeOK`: inductive with `Aligned` (every placed chunk has a worker,
   except the one in the reader's hands), without which a worker's index need
   not be that of a chunk.
3. `UploadInvariant`: `UploadInv` adds the facts the properties rest on.
   `LockHeld` and `FolderAbsent` are mutual exclusion in EnsureFolder: whoever is
   between listing and creating holds the mutex, and the folder is still missing.
   `Quiet`: past wg.Wait no worker runs. `HandedOver`: what counts as uploaded is
   on Drive, what ended left a result or an error, what is on Drive is accounted
   for. `Recording`: nothing is recorded before all workers succeeded, then rows
   and chunks still to record make up the results.
4. From it: `CompleteFilesAreStored`, `RowsAlwaysPointSomewhere`,
   `FailuresLeaveNoRecord`, `CleanupLeavesOnlyExcused`, `FoldersAreUnique`, and the
   action property `NothingAfterReturn`.
5. `BuffersAreBounded`: `Bounded` counts the workers that are not done. A start adds
   one to a set with room for it, an end takes one out, and every other step of a
   worker leaves the set as it is; the reader is at most one chunk ahead of the
   workers.
6. `CompleteFilesAreWhole`: a complete row means that the loop over the pieces ended
   (`CompleteIsPlaced`), so `SplitMakesWhole` gives the bytes and
   `CompleteFilesAreStored` that all of them are on Drive.
7. `UploadNeverStuck`: the folder mutex belongs to a worker that is listing or
   creating the folder and so does not wait for it (`LockOwned`). Where the reader
   waits for a slot or in wg.Wait, a worker runs; either that one or the owner of
   the mutex can go on.
8. `UploadAdvances`: what is left to do, as five sets (stages, pieces, chunks to
   visit, worker steps, the cancellation), shrinks with every step. That a new
   worker takes steps off the list, not adds to it, needs that the chunks placed
   and started are chunks of the file (`WithinFile`). `UploadStepsBounded`: the sum of
   their cardinalities, `StepsLeft`, is never above `6 + 8n` for n chunks and drops
   with every step, so no behaviour of the call is longer than that.

**`DownloadProofs`.** `DInv` is inductive. `Drained`: the drain loop has received
`next - 1` pieces; these are what the client has unless a write failed, then it has
fewer; what was written was hashed. `ErrorsKept`: a getter that failed, or closed
its channel, has left `firstErr`, so that the drain loop ends early only with an
error to return. `Answered`: there is an answer exactly on return, and what it says
is true. From it: `DownloadTypeOK`, `DownloadSentIsPrefix`, `DownloadOkMeansWhole`,
`DownloadFaultlessSucceeds`, `DownloadNoGetterOutlives`, and
`DownloadImplementsDelivery`: a `Write` is a `Deliver`, the step that returns is
`Succeed` or `Fail`, and every other step stutters. `DownloadNeverStuck` needs that a
channel is empty until its goroutine is done, and full or closed from then until the
caller has received from it (`ChannelsFilled`), and that all are launched when the
drain loop starts (`AllLaunched`): so the channel the caller waits at has a running
goroutine, and no running goroutine waits. `DownloadAdvances` and `DownloadStepsBounded` are as for the
upload, with a bound of `4 + 4n`.

`NeverStuck` and `StepsBounded` are why `Terminates` holds for every instance:
there are at most so many steps, and until the call has returned, the reader, the
caller or one of the goroutines has one to take, which weak fairness makes it take.
This last step is about `ENABLED` and fairness, and is not proved.

**`PoolOpsProofs`.** `OInv` is inductive, for any number of clients, processes and
names. It says what a request knows at each of its places (`ClientOK`), that two
uploads under way never have the same generation (`Distinct`), and how the tables
stand to each other and to Drive (`Tables`).

- An upload: what it has stored is its own and still there unless its file is being
  purged (`Stored`); until the file is created nobody else has heard of it
  (`Private`), which is why its cleanup harms no row; all chunks are stored before
  the first row (`InOrder`), and rows and what is left to record make up the file
  (`Recording`). From these `CompleteHasAllRows`.
- A purge that skipped nothing has each object that is left still on its list
  (`Purging`), and nothing is left at its end (`Gone`). That nothing appears
  afterwards needs `Private`: chunks are stored only before anybody can know the file.
- A download has one row for each index, all of one generation (`Getting`, from
  `OneRow`), and a successful one has them all (`Whole`).
- The tables: generations and names are one to one, a row has a file, a row and an
  object of the same chunk agree on the account unless it was disconnected
  (`RowsMatch`, `NullsTaken`).
- A disconnect is forever (`Lasting`), as an id is given out once; and an account leaves
  the map only after its row was deleted (`Disconnecting`). So what a request took from
  the map is still there or was disconnected (in `Stored` and `Purging`).

Theorems: `PoolInvariant`, `PoolTypeOK`, `PoolCompleteHasAllRows`,
`PoolRowsPointSomewhere`, `PoolPurgedIsGone`, `PoolGetIsOneUpload`, `PoolAckedPutSurvives`
and the action property `PoolPurgeGoesThrough`, all without hypotheses and for every
set of operations and faults. The last two say themselves what a disconnect may do:
the row of a chunk may lose its account, forced or not (run `pool_disconnect_race`),
and a purge or an upload that relied on the account may panic.

**`PortalProofs`.** `PInv` is inductive. `TenantIsolation` needs what a request
carries at each place (`Carries`: its user, a label that this user asked for, an
account of this user), that Pools somebody holds are not reused, which is the
definition of a fresh one, and that a pending state was asked for. `OneShot`
needs that a state that is pending has not been used, that no two are the same, and
that states not handed out yet have not been used either (`PendingUnused`). `Swept`
needs how ages and the ticker move together (`Young`: what is pending or cached is
past its limit by no more than the clock). `KnownUnlessForeign` needs that a row
that was dropped never comes back (`RowsFresh`), or a `Forget` could remove what is
registered, and that a command's Pool is not one of the cache (`CliPoolsApart`), or
a command killed before `Remember` would leave a gap nothing excuses. Theorems:
`PortalTypeOK`, `PortalTenantIsolation`, `PortalOneShot`, `PortalSwept`,
`PortalCliNeverLogsIn`, `PortalKnownUnlessForeign`.

**`FileServerProofs`.** Four invariants, each resting on the ones before.

1. `Types`: what may be under way, queued, and stored. A handler takes a part of what
   is under way, so it needs that what is left of a sequence of units is one.
2. `Connected`: both ends know of a connection, an end without one carries nothing
   (`Mutual`, `Unused`), read loops run while it works (`Running`), and nobody panics
   and no connection is down unless a fault of that kind happened (`Blameless`).
   `Strangers`: before two nodes are connected, neither has told the other anything.
3. `Protocol`, as long as nothing has put a connection out of step: only callers call,
   and each peer whose connection works is in step (`InStep`) or lags (`Lagging`). In
   step means that the read loop, the queue and the bytes under way are one position
   in the sequence of messages and streams that the caller has written: the units
   follow each other as Store and broadcast write them (`Chain`), a queued STORE is
   the last of its queue and the next bytes are its stream (`Position`, `InOrder`),
   and the newest content under way, or else the replica, is that of the last Store
   the peer was told of (`Current`). A peer lags when it joined between a STORE and its
   stream: its read loop waits for good inside a stream no handler reads.
4. `Gets`, while only joins and Stops happen: of a Get's question under way, its message
   in the queue and the answer under way there is at most one for each peer, only
   while the caller still waits for that peer, and the answer is what was stored
   last (`Round`); the caller's local file and what Get returned are nothing or the
   last Store (`AllKept`).

Theorems: `FileServerTypes`, `FileServerTypeOK`, `FileServerConnected` and
`FileServerStrangers` for any callers; `FileServerProtocol`, `FileServerReplicaExact`,
`FileServerGets` and `FileServerGetIsLastStored` under `OneCaller`, at most one node that
calls Store and Get. With two the properties are false, even without faults (section
3). Any number of peers, of calls and of faults is covered.

**Only model-checked.** `Terminates` and `GetReturns`: liveness under fairness is out
of the prover's reach. Every other invariant, action property and refinement of a
passing run is stated by a theorem; `Advances`, `StepsBounded`, and `SentIsPrefix` and `NeverStuck`
of the download, are theorems only.

## 5. Not modelled

- The Go memory model: `p.accounts` and `s.peers` are read by concurrent
  goroutines without the lock their writers take, or without any; the runtime may
  abort on that. `PoolOps`, `Portal` and `FileServer` model the logical races only.
- Memory use of `GetStream`: nothing is drained before the last download has been
  launched, so nearly the whole file may be held. No document states a bound.
- Two keys of one node in the local store: `Store.Delete` removes the first segment
  of a key's path with everything under it, other keys with the same segment
  included (store.go:103). `FileServer` has one key per node. `Store.Clear` removes
  the root.
- Reads that return less than was asked for: `CopyDecrypt` reads the IV with a
  single Read (crypto.go:63), and a message longer than 1028 bytes, or one TCP
  delivers in two parts, is cut (encoding.go:34). Units of `FileServer` arrive whole.
- Two nodes that list each other: `bootstrapNetwork` dials every address of its list
  (server.go:272), so both would dial and the pair have two connections. The
  assumption `OneWayAssumption` of `FileServer` leaves that out, as does the repository's
  example, where a node lists only nodes started before it (README.md:229).
- Overlapping calls of one node: nothing in `server.go` serializes Store and Get, and
  their reads and writes on one connection would mix. `Begin` starts a call when the one
  before is over.
- The order in which Get waits for its peers: `GetFrom` takes any that can be read, the
  code picks one and blocks on it (server.go:107). The two differ when one peer never answers
  and another is cut off; `GetReturns` is about neither.
- A statement that takes effect and reports an error, in `PoolOps` (in `Upload` it is the
  fault `lost`).
- DEFLATE, the encryption of tokens, and disk errors. A connection that is reset while
  Get reads from it is taken as one that ends.
- The loopback listener of `RunConsentFlow`: in `Portal` consent succeeds or fails.
- List, ListWithAccounts, health, /me: they read only.
- Routing, JSON, static assets, the rest of the configuration, opening the
  database and migrations (configuration of a library), CLI flags and printing,
  the frontend's views, `main.go` (a demonstration of the transport that closes
  every peer), build tools.

## 6. Plan

1. (done) `Placement`, `Upload`, `Download`, `PoolOps`; proofs of the first two.
2. (done) `Portal`: pool cache, OAuth round trip, sessions, CLI; `PortalProofs`.
3. (done) `FileServer`: file server, transport, store and codec in one module, as
   what is hard in them is what they do to each other on a connection.
4. (done) `Delivery` and `DownloadProofs`.
5. (done) `PoolOpsProofs`, `FileServerProofs`, and `BuffersBounded` by cardinality of the
   running workers.
6. (done) Sums of bytes by a smallest counterexample in place of induction
   (`BudgetIsExact`, `SplitMakesWhole`, `CompleteFilesAreWhole`); freedom from deadlock and
   progress of uploads and downloads (`UploadNeverStuck`, `UploadAdvances`,
   `DownloadNeverStuck`, `DownloadAdvances`).
7. Left: `FileServer` with two keys per node and partial reads.
