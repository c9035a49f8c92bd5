# TLA+ specifications of the CESS DCDN components

The repository holds the programs of a content delivery network on top of the
CESS storage network: *cache nodes* that keep fragments of stored files and web
resources near their users, *clients* that upload files and fetch segments, and
a *contract* that registers nodes and takes payments. This directory models the
parts that keep state and run concurrently, checks them with TLC on small
instances and proves the most important facts for every instance with TLAPS.

All paths below are relative to the repository root.

## The system

| Part | State | Operations | Module |
|---|---|---|---|
| Cache actor, cache service (`cd2n-node/actors/cache_actor.go`) | download queue, cache, cached files, records of fragment and request counts in LevelDB | `CacheService`, `QueryCacheResource`, `RunDownloadServer`, `Receive`, cache callbacks, `RestoreCacheFiles` | `CacheActor` |
| Resource actor (`cd2n-node/actors/resource_actor.go`) | none between calls | `DownloadStoragedFiles`, `SharedSegmentFromNeighborCacher` | `StoragedFiles` |
| | answer map, channel of peers | `QuerySegmentFromNeighborCacher` | `NeighborQuery` |
| Credit ledger (`cd2n-lib/credit/credit.go`) | a record per account in LevelDB | `AddCreditPoint`, `IsLimited`, `CheckCredit`, `PaymentCreditBill` | `Credit` |
| Wire protocol (`cd2n-lib/lib.go`) | a stream, its buffers | `SendRequestToCacher`, `DownloadFileFromCache`, `ReadData`, `WriteData` | `StreamData` |
| Contract client (`cd2n-lib/protocol`) | subscriptions, the term of the reward server | `CreateCacheOrder`, `RegisterNode`, `ClaimWorkReward`, `ClaimWorkRewardServer`, `ExitNetwork`, `CreateCreditOrder`, `CheckCreditOrder` | `CacheOrders` |
| Client uploads (`cd2n-client/client/files.go`) | a bounded channel of tasks, groups, temporary files | `PreprocessFileAndPutIntoUploadQueue`, `UploadServer` | `UploadQueue`, `UploadPromise` |
| Client downloads (same file, `cd2n-lib/lib.go`) | two counters and a set under a lock, per call | `DownloadSegment`, `QuerySegmentFromCachers`, `DownloadSegmentFromCachers`, `DownloadSegmentFromStorage` | `SegmentDownload` |
| Client files and boxes (same files) | the files of a directory: box, segments, fragments, result, chunks | `CreateAFileBox`, `UploadDirAsBoxFile`, `UploadDirToGateway`, `UploadFileToGateway`, `DownloadFile`, `DownloadFileFromStorage`, `DownloadFileInBox`, `DownloadFileInBoxFromGateway`, `RecoveryFileViaSegments` | `FileBox`, `ClientFiles` |
| Discovery (`cd2n-lib/p2p/discovery.go`, `cd2n-client/client/client.go`, `resource_actor.go`) | two channels, the tables of peers, a shared error | `RunDiscovery` of node and client, `StartDiscoveryFromDHT`, `StartDiscoveryFromMDNS`, `Subscribe` | `Discovery` |
| ink! contract client (`cd2n-lib/protocol/ink`) | the connection, a lock, the account's nonce on chain | `SubmitExtrinsic`, `GetStorageFromChain`, `GetSyncStatus`, `IsChainClientOk` | `InkClient` |

How they interact. A stream handler of the cache service runs on its own
goroutine. It checks the account in the credit ledger, answers from the cache
and otherwise queues the resource. Download threads walk through the queue and
send each entry to the resource actor's mailbox. The resource actor asks its
neighbours (`NeighborQuery`), shares what they have or reads from storage nodes
(`StoragedFiles`) and sends a response to the cache actor, which takes the
entry off the queue and moves the files into the cache; the cache's callbacks
update the records. The client asks cachers over the wire protocol, charges and
credits its own ledger, and falls back on storage nodes. The ledger checks
orders with the contract client. Node and client find each other through
discovery, which fills the tables from which peers are chosen; when it fails in
the node, the node stops.

`CacheActor` sees the resource actor as a mailbox that is answered with an
error or with a set of fragments; `StoragedFiles` is the inside of that answer
and takes from `NeighborQuery` an error or at most `AvgCachedSegmentNum` peers.
`Credit` sees the contract client as an environment that grants a value or
refuses; `CacheOrders` is the inside of that. `StreamData` is one exchange of
the requests that `CacheActor` and `SegmentDownload` treat as a step.
`ClientFiles` uses `FileBox` for what a box holds, `UploadQueue`'s upload as one
step with a later callback, and `SegmentDownload`'s query as a step that a hit
blocks.

### What is hard here

* The ledger, the answer map, the download counters and the cache records are
  read and written by many goroutines, the ledger and the records without any
  lock, and errors of LevelDB go unnoticed.
* Bounded channels are read by goroutines that return early or that write to
  the same channel: the feeder of the neighbour query and the upload server can
  block for ever.
* The queue entry a download thread holds is older than the queue, and is
  stored again after the cache actor may have deleted it.
* Records persist over a restart, the queue and the cache do not, and every
  file is put back under a key computed from its path and size, one by one,
  while requests are already served.
* A transaction's log can come before the subscription that waits for it, or
  be another caller's.
* A stream has no framing: a short read is taken for the end.
* Calls of the client that work in one directory use the same file names and
  remove each other's files; the end of an upload removes the directory of its
  fragments with whatever else is in it.
* Producers of discovered peers send on channels whose reader leaves on
  cancellation, and share a variable for their errors.
* The ink! client replaces its connection under running calls, and recovers
  from the panics that the missing one causes as if the call had succeeded.

`PROJECT.json` lists the hazards line by line with the properties about them.

## Modules

Each component's module declares its constants with a named assumption, its
variables with a comment, one action per step that other goroutines can
interleave with, and its properties at the end. A definition whose comment
begins with "Mutant" is the definition that follows it with a plausible bug. It
is used by no specification: replacing the definition by it makes the property
named in `PROJECT.json` fail.

**NeighborQuery** (`resource_actor.go` 278-354). The feeder sends the providers
and the iterator's peers into a channel of `ThreadNum` places; workers ask peers
and return as soon as the map has `AvgCachedSegmentNum` entries. The channel is
two counters into the sequence of peers. Peers that may be fed twice are fed
twice, as in the code.

**StoragedFiles** (`resource_actor.go` 54-58, 106-126,
193-276, 356-403). One call: the shuffled
list of segments, the budget `CacheNum` with the slot kept for the requested
segment, the neighbours' answer, sharing, and the reading of `DataShards`
fragments from storage nodes, each of which can fail. Contents are fragments
`<<s, k>>`; the key under which a file is handed over is kept apart from what
the file is. A neighbour may list any fragments, also those of other segments:
the code looks at no name in its answer, and its own storage branch files the
fragments of every segment under the requested one. The budget is therefore one
of segments for which files are fetched (`FetchedFor`), not of contents.

**Credit** (`credit.go`). Every operation is a read step and a write step. A read
that fails gives the zero record, which the operation changes and writes back; a
write that fails is ignored. The ghosts `charged` and `credited` add up what
completed calls booked, and `disturbed` has the accounts on which two operations
were in progress together or LevelDB failed. Counters have the modulus of
`uint64` and wrap. `Level` converts the quotient with `int()` before the
remainder, so that it can be 0 or -1, and at the largest counter the division by
`ReceivedResource + 1` panics, which ends the process (`Panic`). `Legacy` accounts
have a stored record that does not decode, the only case in which
`GetCreditRecord` reports true.

**StreamData** (`lib.go` 84-106, 251-276, 321-355, `cache_actor.go` 303-428). A request
and its answer as lengths: the wire, the 4096 byte buffer of `bufio`, chunks of
1024, and reads of every size the network may deliver.

**CacheActor** (`cache_actor.go`, `resource_actor.go` 128-191, `cmd.go` 299-317). The node, from start to
crash and restart. A key is the sequence of its path's components because the
code's keys differ in exactly that: with or without the trailing slash that
`filepath.Split` keeps, and in the order in which `RestoreCacheFiles` joins them.
The callbacks that count the items of a directory are a read and a write of the
record, each of which can fail: one add callback at a time, on the goroutine of the
walk or of the cache actor, and a delete callback per dropped item (`adding`,
`dropping`). The ghost `disturbed` has the directories on which an add and a delete
callback overlapped or an addition was not counted, since the start. The walk of
`RestoreCacheFiles` takes one file per step while handlers and expiry run, and can
fail, which ends the node; a request that needs the queue before it exists panics.
That the cache library drops an item together with its file and calls back on a
goroutine of its own is assumed.

**UploadQueue** (`files.go` 488-644). A task moves from the call to the channel
to a server and back. The `Group` slice is shared by all copies of a task, so
groups belong to the call. The chain reports groups and activates files. `DirOf`
says in which directory the fragments of a file are, and `ClearTmpFile` empties
that directory: in the run all files share it, as every call hands the same
`c.tmpDir` to `FullProcessing`.

**UploadPromise**. What the callers of the queue may rely on, with no queue,
server, pass or retry in it: a call is refused or accepted, a file is kept, the
callback of an accepted call comes once and only for a kept file, and comes
unless the service has halted or has lost the file, which happens only at the
callback of another call. `UploadQueue` instantiates it with a refinement
mapping: the phase of a call is read off its position, a file is kept when the
chain has all its groups, lost when a call needs its fragments and they are gone,
the service has halted when it is cancelled or when every server waits to put a
task into the full channel. Its liveness is stated
as a leads-to, which maps directly.

**SegmentDownload** (`files.go` 116-139, 359-477, `lib.go` 134-180). The query
threads, the goroutines that share `dl`, `dld` and `cachedFragments`, and the
fallback. The channel `osQueue` is never made, so that a hit blocks its thread
for ever; `DownloadSegmentFromCachers`, which is exported, is therefore checked
from every argument instead of from the query's result.

**CacheOrders** (`cache_evm_proto.go`, `evm_client.go` 173-192, `cmd.go`
233-341). A call sends, subscribes and waits; a log has a kind and an account,
and an id that no callback looks at. The node registers at start, claims term
by term and checks orders. Mining, reverting and the next term are the
contract's, and free. A check of an order remembers the contract's term when it
began (a ghost), because the order may be too old when the check ends.

**FileBox** (`files.go` 228-255, 645-716). Operators only. A directory is a
sequence of file sizes, a box a sequence of bytes and of plates with names and
offsets. `BoxLoop` is what the loop of `CreateAFileBox` holds after each
entry; a box file that an earlier attempt left there is one of the entries, and
has been truncated when its turn comes. `Cut` is the slice that `DownloadFileInBox` takes,
`Retrievable` names the files for which that slice is the file.

**ClientFiles** (`files.go` 27-62, 102-114, 195-357, `lib.go` 169-249, 279-313).
Boxing and uploading with retries, then any calls concurrently in one
directory. A segment's file is absent, torn (being written, or written by two),
whole, or mixed (a write that failed met one that goes on); fragments are sets;
the result is what stands at the place of each segment. Equal segments have one
hash and so one file, and `DownloadSegmentFromStorage`, which goes through all of
them, counts the same fragment once for each (`Passes`): a segment restored from
fewer different fragments than `DataShards` is torn. A write of a segment can fail
after it has created the file, and the error of a write to the result is dropped.
The ghost `clean` has the calls that no other call overlapped and that met neither
of the two failures that go unnoticed, a dropped error and a fragment counted
twice.

**Discovery** (`client.go` 167-225, `resource_actor.go` 65-104, `discovery.go`,
`cmd.go` 318-332). `prog` chooses the program. The channels, the goroutine that
reads them, the DHT loop, the mDNS callbacks with a goroutine each, and
`Subscribe`. The variable `err` that they share is written step by step; the
ghosts `own` and `raced` keep what the awaited call returned and whether `err`
was written between that and the last read of it: `RunDiscovery` tests `err`, and
`errors.Wrap` reads it again. The consumer's test of `err` after `Connect` is a step
of its own too. Whether the selector keeps a peer is
free. A failing `Join` or topic subscription, which panics, is left out.

**InkClient** (`ink/transaction.go` 28-130, `ink/client.go` 95-180,
`ink/chainstate.go` 53-98, and the callbacks of `ink/cache_proto.go` and
`ink/cache_token.go`). Two goroutines call `SubmitExtrinsic`, under the lock, or
read without it. An RPC over a connection can fail at any time. The pool holds
the account's transactions by nonce and mines the next one. `Awaits` and `Emits`
tabulate which event each method waits for and which one belongs to it. Errors in
the arguments, before anything is sent, are left out.

## Runs

Bounds are the constants of the `.cfg` files. `tlc -workers 2 -config X.cfg M`
repeats a run; all take less than two minutes on two cores.

| Run | Instance | Shows |
|---|---|---|
| `neighbor_query` | 2 peers, up to 4 providers in every order and with repetitions followed by the iterator's 2, a map of 1 entry, 2 workers | The map never exceeds its size. The feeder blocks for ever only when it has more than `AvgCachedSegmentNum + 2 ThreadNum` peers; otherwise the call returns. |
| `storaged_files` | files of up to 3 segments with repetitions, 3 fragments of which 2 are needed, 2 neighbours that list any fragments of any segment | Files are fetched for at most `CacheNum` segments. The requested segment is always examined, wherever the shuffle puts it. A CID is announced only for a segment that was handed over. |
| `credit` | 2 handlers, every operation of node and client, a record that does not decode, failing reads and writes, counters that wrap, crashes between read and write | Races and failures lose updates and never invent them; an account that neither touched is exact. |
| `credit_limit` | one handler | A violation, see below. |
| `stream_data` | requests and files around 1, 2 and more chunks, every split of the data | Success means complete, and a complete file is refused only if its length is a whole number of chunks. A request that is not a whole number of chunks is answered, however it is split. |
| `cache_actor` | one segment of 2 fragments, or two resources that share a base name, one ordinary and one either of a fragment's size or empty; a handler, a thread; with site resources a stop and a restart | The record undercounts the cache only where callbacks overlapped or an addition was not counted. A resource on disk is servable as soon as the walk after a restart has come to it; a queued resource is cached in the end. |
| `upload_queue` | two calls for different files or the same one, one temporary directory, one server, 2 groups, 2 storage nodes, a channel with one place | A task is in exactly one place; groups are on different nodes; fragments that are needed go only at the end of the upload of another file; the queue implements `UploadPromise`, so the callback means stored and comes unless the server has blocked on its own full channel or the fragments went that way. |
| `segment_download` | 2 cachers with every assignment of 3 fragments, 2 needed | No file has two writers, the goroutines return if every cacher lists `DataShards` fragments, and the call ends unless a cacher has a hit. |
| `cache_orders` | the node and one other program, 2 transactions, 3 terms, 1 term of grace | A call that succeeds has its own transaction mined or took another's log of that kind and account; the node is past registration only if registered; only orders paid to the node and accepted when the check began are credited; the reward server's count reaches a term that rests, after any restart, and stops there. |
| `client_files` | 5 directories (one plate, padded, exactly full, a file longer than a plate, a file of equal segments), one of them also encrypted, 2 attempts at boxing, 2 calls, 3 fragments of which 2 are needed; calls and fragments are symmetric | A file that was got back whole is right if its call was clean: alone, without a dropped error or a fragment counted twice. The retrievable files of a box come back right to clean calls, which do not panic. What is left in the directories is explained by calls that failed, blocked or read a box, and by `UploadDirToGateway`. |
| `discovery` | 2 peers, channels with one place, a table of one cacher, node and client | The client's table is bounded. `RunDiscovery` returns its own call's result unless the shared variable is written between that call's return and its last read. No send waits for ever before cancellation. After it the client's call returns, unless it is sending on a full channel that has lost its reader. |
| `ink_client` | 2 goroutines, 4 nonces, a chain that goes away and comes back | At most two transactions are pending. A call says success with nothing done, or crashes, only after a failed reconnection or when another call overlapped it. A submission that says success is in a block under a nonce of its own. Every call returns, if every RPC does. |

### Why the bounds are enough

The code's parameters occur only in comparisons, so each bound is chosen one
step beyond the comparison that matters: more peers than the channel, map and
pool absorb, one more task than the channel has places, more fragments than are
needed, one term more than the grace. Two concurrent actors suffice for the
races because each race is between one stale read and one write. The channel of
`upload_queue` has one place because what matters is that the server meets a
full one. Bounds that exist only in the model are named (`Max...`) in the
constants; they stop counters, and `SiteEventuallyCached` says where one would
show. `Chunk` and `BufSize` keep the code's ratio approximately (3 and 6 for
1024 and 4096): only multiples and remainders matter. The directories of
`client_files` are one for each way in which a plate can end. `cache_actor`
explores segments and site resources in separate behaviours (`Workloads`): they
share no key, and the actors treat each message by itself. Stops are explored with
site resources; what a restart does to the counts of fragments is proved. In
`credit` the modulus is 6: an account's counters wrap, and quotients reach the half
of the range that `int()` makes negative.

Deadlock is not checked where the program may stop: a query or a transfer that
has returned, a cancelled upload server or discovery, a program that has
panicked, and the hangs which the properties above delimit.

### Fairness

Weak fairness on the steps of goroutines: the Go scheduler runs them, and
mutexes and channels are not held for ever. Strong fairness on outcomes of the
environment that recur only if a remote party is sometimes well: a query of the
chain, a transfer to a storage node, a fetch of a resource and the move of a
file. Liveness properties that need it say in effect "retries are made until
one succeeds". A crash, a stop and a cancellation are never fair, and no fetch of a segment has
to succeed. In `CacheOrders` only
goroutines, deadlines and the ticker are fair: the chain may mine nothing, and
terms may go on for ever, in which case nothing is said of the server's count. In `InkClient`
likewise, with a mutex that starves nobody (Go's does not). In `Discovery` the
cases of a `select` and the waiting senders are strongly fair, because Go chooses
at random among ready cases and serves the senders of a channel in order;
nothing has to be found. `ClientFiles` has no liveness and no fairness.

## Violations

One run states what a document of the repository says and finds it violated by
the code; its finding in `PROJECT.json` quotes the line.

* `credit_limit`: `GetCreditRecord`'s flag is true only for a record that does
  not decode, and `CheckCredit` takes it for "exists". Accounts over the limit
  are admitted as new ones.

Observations made while translating:

* `WriteData` stops at a short read only, so a file of a multiple of 1024 bytes,
  as every fragment is, is received whole and then reported as an error
  (`lib.go` 343); `OkIsComplete` delimits the case.
* The count of cached fragments is kept under the directory with its trailing
  slash and looked up without it, so a cached segment is a miss
  (`cache_actor.go` 114, 226).
* Concurrent charges are lost (`credit.go` 57-99), and so is a whole account when
  one read of its record fails and the zero record is written back (73-80); the
  proofs bound the effect.
* The add and the delete callback can overwrite each other's count
  (`cache_actor.go` 115-128, 135-142); without `disturbed`, `NeverUndercounted`
  fails.
* `calcLimit` subtracts unsigned counters; payments add fragments to counters of
  bytes (`credit.go` 104, 148, 174).
* The neighbour query asks up to `NeighborNum` peers where its comment speaks of
  a third (`resource_actor.go` 284-287).
* Fragments of other segments that a neighbour shares are filed under the
  requested segment (`resource_actor.go` 241, 259).
* An error reply of a cacher is stored as the file (`lib.go` 88).
* A file whose transfer failed is charged (`cache_actor.go` 413-424).
* Web resources with the same last path component share a key
  (`cache_actor.go` 70, 207, 371); restored fragments get a key whose components
  are in another order (191).
* A failed fragment download is counted and its path returned
  (`files.go` 461-470); `osQueue` is never made, so that a hit blocks (406);
  goroutines can spin with the lock free and nothing to do (438).
* Fragment paths without three components are skipped without an error
  (`files.go` 611-613); a failed or duplicate order leaves its temporary files.
* `ClearTmpFile` removes the directory of a task's fragments (`files.go` 744-746),
  which is that of other tasks if `FullProcessing` makes no directory per file: their
  uploads then fail for ever, and the task goes round the channel.
* `CreateAFileBox` drops the last plate and panics if none was closed
  (`files.go` 711-714); a retry packs the box file of the first attempt, with the
  size it had before the padding was written (675-702).
* Plates have `FragmentSize` bytes and are looked up as segments of
  `SegmentSize`, so that only files of the first plate come back; a last file
  without padding behind it comes back with what follows it, and an encrypted
  segment is not decrypted (`files.go` 212-217, 249-253).
* `UploadDirAsBoxFile` refuses a box after its file was queued (212); the callback
  removes the box file of a later attempt (206).
* Overlapping downloads into one directory truncate and remove each other's
  files and can report success over a wrong file (`files.go` 33, 45); so can a lone
  call whose write fails (`lib.go` 296-301), or one that reads a fragment of a
  repeated segment twice (144-167). Without `clean`, `FileIsWhole` fails.
* `UploadDirToGateway` never removes its directory of chunks (`files.go` 285-303).
* A failed `UploadFileToGateway` leaves its directory, on which every later call
  for the path fails (261).
* The senders of discovered peers do not watch the context (`discovery.go` 32, 53,
  115), the node's DHT loop has one that never ends (`resource_actor.go` 94), and
  the goroutines race on `err` (`client.go` 190, 209, 212, 220-222).
* After one failed reconnection the ink! client's `api` stays nil for ever, the
  health check of nil counts as healthy, calls report success with nothing done
  and `GetSyncStatus` panics (`ink/client.go` 143, 175).
* All retries of a submission use the same nonce (`ink/transaction.go` 90);
  `Staking` waits for the events of minting, `CacheOrderPayment` for those of
  staking, `GetOwnerOf` for nothing; it and `TransferFrom` call withdraw
  (`ink/cache_proto.go` 62, 76, `ink/cache_token.go` 53, 63-65).
* The reward server counts terms from 1 after every restart, one per tick, so that
  it claims for past terms again, and a claim that is refused is not repeated
  (`cache_evm_proto.go` 232-254).
* `CheckCreditOrder` refuses valid signatures and returns no error for an order
  of another node; `ClaimOrder` ignores its order; `ExitNetwork` waits for a
  claim; `CreateCreditOrder` compares an encoded with a decoded peer ID and
  always fails (`cache_evm_proto.go` 314, 325, 182, 277, 301).

## Proofs

`tlapm M.tla` checks a module; every leaf is checked by the SMT solver, Zenon or
the temporal prover. Nothing is assumed but the constants' named assumptions
(types, finiteness where a cardinality occurs, and that "none" values are not
real ones). Every proof has the same shape: lemmas say what each action does,
field by field, or sort the actions into a few kinds; one lemma per conjunct of
the inductive invariant shows that each kind preserves it; the theorems follow
from the invariant. An invariant that a run checks is seldom inductive; what each
one needed is said below. There is no data induction but in `ClientFilesProofs`. The inductive invariants of the larger modules were
checked with TLC on the runs' instances before they were proved.

**NeighborQueryProofs**: `TypeCorrect`, `MapBounded`, `StuckNeedsOverfeeding`, for
any peers and strategy. `StuckOnlyWhenOverfed` is not inductive: it speaks of a
stuck state only. `IInv` adds the balance that explains it, `Consumed` (every
place of the map, every worker that asks and every worker that has quit stands
for a peer of its own that was received), `QuitWhenFull` (a worker quits only
with a full map) and `ClosedAfterAll` (the channel is closed after the last
peer, and a worker's loop ends only after that).

**StoragedFilesProofs**: `TypeCorrect`, `BudgetRespected`, `SlotReserved`,
`RequestedReached`, `AnnouncedHeld`, for any file, strategy and neighbours. `IInv`
adds that the counter `num` is at least the number of segments fetched
(`FetchCounted`) and within the budget (`WithinBudget`), that what the neighbours
give is filed under the segment in hand, whatever it is (`SharedFor`), and what the
flag that the loop tests means (`DoneMeans`).

**UploadQueueProofs**: `OneTaskOnePlace`, `DifferentPeers`, `KeepsFragments`, for any
calls, files, servers, storage nodes and channel size; and `PromiseSafety`, the
safety half of the refinement `KeepsPromise`. `IInv` adds
  - `OnePlace`, `TaskInOnePlace` without counting: positions of the channel and
    servers that hold a task are pairwise different and cover the accepted calls;
  - `FreePeers`: a peer that the pass may still choose has no group of the task,
    which is what `savedPeers` and the iterator are for;
  - `ChainKnown` and `CountIsSound`: what the client believes of the chain is true,
    and `sucCount` reaches `GroupNum` only if every group was seen on chain (this
    is why a callback means that the file is stored);
  - `StoredForCall`: groups are stored only for calls that were accepted.

`KeepsFragments` holds for every assignment of directories: a call clears the
directory only when the chain has its whole file, so that nobody needs that file's
fragments, and any other file that loses its own shares the directory.

For the refinement, the initial states map to an initial state of
`UploadPromise`, and each action to `Refuse`, `Accept`, `Keep`, `CallBack`, `Halt`,
`Regain` or a stuttering step. The mapped phase of a call, the kept and the lost
files and the halt are
shown to change as the abstract step says, for all calls at once. That a blocked
service stays blocked follows from the state: every server waits to put a task
back into the full channel, and nobody takes from it. `UploadPromise!Safety` is
`Init /\ [][Next]_vars`; its liveness conjunct is checked by TLC.

**CacheActorProofs**: `CountsSuffice`, `SitesServable`, for any finite file, set of
URLs and number of restarts. `CountInv` is what makes the count inductive: on an
undisturbed directory the record stands for the cached items and for the dropped
ones whose callback is not through, but for the addition in progress; so does
every count that a delete callback has read, and the count an add callback has
read is still the record's. The work is in the keys: a count is compared with the
cardinality of the items of a directory, so that the lemmas say how a step changes
the set of items under a record's key and what restoring under another order of
components does to it. The constant `None` must not be a URL or a key.

**CacheOrdersProofs**: `SuccessExplained`, `NodeIsRegistered`, `CreditIsPaid`, for any callers, nodes, terms and transactions. `IInv` adds that
what a subscription delivers was mined (`FeedIsMined`), that a call's transaction
is what it was asked to send (`OwnIsJob`), that the starting program waits for a
registration of its own account (`NodeRegisters`), that a record goes only with an
exit (`RecordsStay`; together they make a mistaken registration harmless), that no
id is used twice (`IdsUnique`, so that the term of a paid order never changes), and
that an order which passed the first query was paid to this node in the term that
was read, and one that passed the second was accepted when the check began
(`CheckedWasPaid`).

**InkClientProofs**: `LockExact`, `AtMostTwoPending`, `SilenceHasCause`,
`SuccessIsInBlock`, for any number of goroutines and nonces. `IInv` adds that the
lock is held by exactly the submission that is under way, on every error path and
after every recovered panic (`LockIsHeld`, stated as `LockExact`); that pending
nonces are the chain's next or the one after, because a nonce that was read is
never ahead (`NoncesNear`); that the transaction of an accepted submission is
pending or mined and nobody else's (`SentOnce`); and that the connection is missing
only while a call reconnects or after that has failed (`NilExplained`, with
`LoneRunsAlone` for the ghost `lone`). The `CASE` expressions of `InkClient` whose
guards overlapped became `IF`s in the order of the code's tests: with overlapping
guards the value is one of several, which TLC resolves by order and a proof may
not.

**DownloadProofs** extends four modules that have nothing in common but a download:
`SegmentDownload`, `StreamData`, `Discovery` and `Credit`. Their names are kept apart
for that (`SegmentSpec`, `StreamSpec`, `DiscoverySpec`, and `Spec` of `Credit`).
  - `OneWriter`: for any cachers, lists and failures. `OneWriterPerFile` needs that a
    fragment being downloaded is in the shared set (`FetchedIsTaken`); a failing
    goroutine then frees only its own.
  - `DownloadsCounted`: `dld` is tested before a download and raised after it, so it can
    pass `DataShards`, by at most the number of cachers less one; and the call returns
    only with `DataShards` counted, if any cacher had the segment. The bound needs the
    downloads in flight added to `dld` (`FlightBounded`), and that the cachers do not
    change after the call has begun (`CountsOnlyCalled`). Failed downloads are counted,
    so this is no statement about what is on disk.
  - `DownloadComplete`: for every chunk size and reply. What is saved and what is left
    make up the reply, saved bytes are whole chunks until the last read
    (`SavedAndLeft`), and the reply no longer changes when the client has left
    `io.Copy` (`ReplyIsFixed`).
  - `TableBounded`: for any peers and channels. The room that was tested before the
    connection and the dial is still there at the insertion (`RoomKept`), since one
    goroutine does all three.
  - `ResultIsOwn`: the awaited call returns once (`AwaitedOnce`), and `err` holds its
    result from then to the last read unless another goroutine writes it (`ResultHeld`).
  - `CreditTypeCorrect`, `RacesOnlyLose`, `ExactIfSerial`: for any handlers, accounts and
    modulus, with crashes, panics and failing reads and writes. A record written back
    is as old as its read, so `CreditIInv` adds `CopiesBehind` (the copy a handler holds
    never exceeds the ghosts), `SoleCopy` (on an undisturbed account the one copy held
    is the record) and `AmountsFit` (what a call adds is less than the modulus). The
    lemmas on remainders carry exactness through the wrap-around, and that a level
    is between -1 and 3 follows from the sign of Go's remainder.

**ClientFilesProofs**: `CreateAFileBoxIsRight`, `ClientFilesTypeCorrect`,
`FileIsWholeHolds`, `BoxedFileIsRightHolds`, `LeftoversExplainedHolds`, for any
directories, with and without encryption, any sizes of plates, segments and their
overhead, any number of attempts, and any finite number of concurrent calls.

The first part is about the algorithm. `LoopInv` is the invariant of the loop of
`CreateAFileBox`: while the first plate is open, no byte of it is padding and each
file stands between its offset and the next one (`FirstOpen`); once it is closed,
that holds for each file that another file or padding follows (`FirstClosed`), and
whatever is appended later leaves it. The last byte of the first plate tells
whether it was padded, because the model's bytes carry the name of their file; that
is what `Retrievable` rests on. Induction over the entries is by a least counterexample: a
nonempty set of natural numbers has a least element (`LeastNatural`, from `WFMin` of
the library). The same argument gives that the recursive function `BoxLoop` exists.
The nameless file that `CreateAFileBox` adds to the last plate, which can be the
first one, and the search of `DownloadFileInBox` for a plate complete
`CreateAFileBoxIsRight`.

The second part is about the calls. `IInv` is `TypeInv` with
  - `BoxOK`, in `TypeInv`: the stored box was made of the directory by `CreateAFileBox`
    and is longer than a plate, so that a first segment exists, and a box stored
    through the gateway has left its chunks;
  - `DiskInv`, `FragInv`, `ChunkInv`: each file in the directory has an owner, a running
    call that will remove it or an ended one that the property allows to leave it
    (`DownloadFile`, which failed at a segment, owns that segment's file only). A
    call of `DownloadFileFromStorage` owns everything while it runs, since it removes all;
    a failed call owns fragments of the segment it failed at only, from which the
    bound on the number of segments follows by a surjection;
  - `LoneInv`: a call in the ghost `clean` runs alone, so nobody else writes its files;
  - `MadeInv`: a clean call restores a segment from `DataShards` different fragments, and
    while it writes the file is its own;
  - `WholeInv`: the segments already passed are whole on disk, or one is being written
    again because the current segment has the same hash, as long as every path was
    collected; a call that missed one has fewer paths than segments and does not
    succeed;
  - `NamesInv`, `ReadInv`: a call for a boxed file keeps the number of its file's plate,
    and reads a whole segment.

`FileIsWhole` says nothing of a call that runs, `LeftoversExplained` nothing while one
runs: neither is inductive. The constants' assumptions it needs are that directories
are sequences of sizes and box files and that the calls are finitely many
(`FilesAssumption`).

Every invariant that a passing run checks is proved. Only model-checked: all
liveness (the provers do not handle fairness), with it the liveness half of
`KeepsPromise`.

## Plan

Done: the modules above, in this order: neighbour query, ledger, downloads of
the resource actor, wire protocol, cache node, uploads, segment downloads,
contract client, boxes and files, discovery, ink! client, and the promise of the
upload queue; proofs of every invariant that a run checks.

Next:

* Composition: a specification of the cache service as its user sees it (a
   resource is absent, queued or served), and `CacheActor` shown to implement
   it; `CacheOrders` as an implementation of `Credit`'s order environment.

## Not modelled

The selector of peers, libp2p, LevelDB, the actor framework, the cache library,
the storage SDK and the contract are external: they appear as choices of the
environment, with what the code relies on. Generated bindings, the
set-up of libp2p, configuration, logging and account tools are I/O; buckets and
territories are single calls of the SDK.
`PaymentCacheOrder` ranges over a channel that is never made and its body does
not run. Contents and hashes are names; a fragment on disk is assumed to have
`FragmentSize` bytes. A channel of size zero in `SetConfig` is left out.
