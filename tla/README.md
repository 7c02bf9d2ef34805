# manta-indexer in TLA+

A specification of the Manta indexer (`src/`): TLA+ modules translated from the Rust
source, TLC configurations that check them on small instances, and TLAPS proofs of
the main results for every size of the ledger, of the answers, of the cache and of its keys.

Everything is in this directory. `tlc -config X.cfg M` checks one configuration,
`tlapm SyncProofs.tla` (and `PullProofs`, `LedgerCacheProofs`, `LruKeysProofs`, `ServiceProofs`,
`PoolProofs`, `RelayerProofs`, `LedgerTypesProofs`) checks the proofs. `PROJECT.json`
lists the runs, the source lines behind every definition (`map`), the mutants, the
findings, the hazards and the theorems.

## 1. The system

The indexer sits between Dapps and a full node. It copies the node's shielded ledger
(receivers: UTXOs in 256 shards of a Merkle forest; senders: nullifiers in one list)
into SQLite and serves `mantaPay_pull_ledger_diff` from there, and relays a set of
other JSON-RPC methods and subscriptions to the node.

| component | state | operations | interacts with |
|---|---|---|---|
| syncing job (`indexer/sync.rs`) | checkpoint, response and open transaction of a round; `INIT_SYNCING_FINISHED` | a round: read the checkpoint, then request / write / commit / refresh the cache / advance until the node has no more; sleep; retry at once after an error | node over one `WsClient`; tables; cache; shutdown flag |
| database (`db.rs`, `migrations/`) | tables `shards` (no unique key), `nullifier` (key `idx`), `senders_receivers_total` (one row) | inserts in the job's transaction; counts; existence checks and batched reads | job, requests |
| ledger cache (`indexer/cache.rs`) | one LRU map behind an async mutex, with keys packed into a `u64`; an unused second one of 32 maps with a lock each | batched get, batched put | job, requests |
| pull_ledger_diff (`indexer/mod.rs`, `indexer/pull.rs`) | locals of a request | shards one after the other, then senders, then the total: look into the cache, query the misses, write back, ask whether there is more | tables, cache, client |
| service (`service.rs`, `main.rs`, `utils.rs`) | the two flags, the senders of the shutdown channel, the server's module, `RPC_METHODS` | configure, connect, merge and list the methods, spawn the job, wait for the first round, serve, stop, wait for the job | job, signals, node |
| relayed subscriptions (`relayer/sub_client_pool.rs`) | map of clients, job channel, worker thread, relaying tasks, gauge | subscribe (blocking), connect, relay, end | Dapps, node |
| relayed methods (`relayer/relay_server.rs`) | one shared client `dmc` | forward a call, return the answer, an error or a timeout | Dapps, node |
| monitoring (`monitoring.rs`) | gauges of connections and calls, counter of results | `on_connect`, `on_call`, `on_result`, `on_disconnect` | the server |
| loader, benches (`bin/`, `benches/`) | - | one round without cache; pulls | tables |

What is hard here:

* **Concurrency.** A request is not a transaction. It awaits before every look at the
  cache and at the tables, and the job commits and other requests change the cache in
  between. Subscription calls block threads of the runtime on a worker thread, and with
  them the calls of everybody else. A Dapp may go while its calls are under way.
* **Failure.** Any query or request may fail in the middle of a round; the process may
  crash or be told to stop. A relayed call may time out although the node has executed it.
  (A loss of power is outside the model, see section 5.)
* **Positions that are counted, not stored.** Table `shards` has no unique key and the
  checkpoint is a count of rows: one row too many or one hole shifts everything after it.
* **Flags and channels** that tell main when to serve and when it may exit.

What makes each part correct: the tables are an exact prefix of the ledger and grow by
whole transactions; the cache never says anything that the tables do not; a client gets
every item once and is told the truth about whether there is more; the service starts
after a complete round and exits after the job; blocked calls return; the node executes
a relayed call at most once; the gauges say what is going on.

## 2. The modules

```
LedgerTypes ---- LedgerMirror <--implements-- Sync --implements--> SyncJob
   (shards,         ^  (abstract store)      (job, tables,            ^  (abstract job)
   checkpoints,     |                         cache, node)            |
   keys)          / \                                              Service
              Pull   LedgerCache -- LruKeys                  (main, start_service)
   (requests, client) (LRU maps)   (packed keys)

SubClientPool (relayed subscriptions)   Relayer (server, relayed methods, monitoring)

XProofs (theorems of X; PoolProofs: of SubClientPool)     MC* (instances for TLC)
```

`LedgerMirror` and `SyncJob` are the seams of the composition. `Sync` is shown to
implement both; `Pull` and `Service` are built on them instead of on `Sync`, so that
what a request may observe, and what main may observe, is a few actions and not the
whole job. `LedgerCache` implements `LedgerMirror` too: what `Pull` takes for granted of the
cache is shown of the maps as they are built. `Relayer` rests on `SubClientPool` in one
place: a subscription call returns, which is `CallsReturn` there.

### LedgerTypes
`Shard`, `Checkpoint`, `receiver_key`, `sender_key`. Data is abstracted to positions: an
item is named by its index on chain, which is sound because only finalized state is
read. The items' encodings are left out; the packing of keys is in `LruKeys`.

### LedgerMirror (abstract)
`rows[s]`, `nulls`, `hasTotal`, `cached`. Steps: `MirrorCommit` (grow by a transaction),
`MirrorCachePut` (any change of the cache within what the tables hold), `MirrorRestart`
(cache lost, tables kept).

### Sync
| code | model |
|---|---|
| tables | `db` (committed), `tx` (as the transaction sees them); a shard is a *sequence* of rows because `INSERT OR REPLACE` without a key appends; `nullifier` is a function because it has a key |
| `get_latest_check_point`, `get_len_of_nullifier` | counts |
| `sync_shards_from_full_node` | `ReadCheckpoint`, `Request`, `WriteShards`, `WriteNullifiers`, `WriteTotal`, `Commit`, `CacheReceivers`, `CacheSenders`, then `Continue` or `FinishRound` |
| `start_sync_ledger_job` | `Wake`, `FailRound`, `AfterRound` |
| `synchronize_ledger` | `Answer`: the node sends any amount up to the limit and the truth about what is left. `max_count` is passed as (receivers, senders) and taken as (senders, receivers), and the parameters are swapped once more in the request, each time under a `min`: both limits end up as the smaller one (`PullLimit`) |
| `put_batch_lru` | any `Capacity` of the entries may remain: the recency order depends on every reader |
| failures | `SyncError` at every `?`, `Crash` of the process (the tables stay as last committed), `Disconnect` (the client is never replaced), `Shutdown` |

One step stands for the code between two points at which somebody else can observe or
interrupt; the inserts of one group are one step because nobody sees an open
transaction and a failure rolls all of it back.

### SyncJob (abstract)
`job` is `"round"`, `"sleep"` or `"ended"`; `RoundOk` sets the flag, `RoundErr` does not,
`NextRound` looks at the shutdown flag.

### Pull
A request is `Ask`, then for every shard `HasShard`/`SkipShard`, `ReadCache`,
`QueryShard`, `WriteBackReceivers`, `FinishShard`, then the same for the senders, then
`Respond` or `NoTotal`. `HasShardFails`, `HasMoreFails` and `HasNullifierFails` are the errors
that the code takes for "no", `RequestFails` the others. `SyncCommit`, `OthersFill`,
`OthersEvict` and `Restart` are steps of `LedgerMirror` and can happen
anywhere. The client counts what it gets, as `pull_ledger_diff_from_sqlite` does with
`calculate_next_checkpoint`, or (`FollowCursor`) uses the `next_checkpoint` of the dense
answer. Rows come back from SQLite in the order of the index that serves the query.

### LruKeys, LedgerCache
A key is a number of three fields, each cut to its width as the masks do (`Packed`; a shift
is a product, a mask a remainder). `maps[d]` is the sequence of the entries of a map, the
latest used first: `AtFront` and `Room` are what `lru` does on `get` and `put`, eviction
included. `shard_num` is 1 for `LEDGER_LRU`, where a batch holds the only lock, and more for
`LEDGER_LRU2`, where a batch visits the maps of its keys in any order (the code iterates
over a `HashMap`) with a lock per map. A step is one key of a batch, of the job (`JobPuts`) or of
a reader (`Get`, `WriteBack`), and `Visit` says when it may be taken: the lock is kept until the
last key of the map, and let go before the next map. A reader is the middle of `pull_receivers_for_shard` or `pull_senders`:
get, query the misses, write back. The job may only begin with a new transaction when the
batches of the last one are done; `Restart` may come at any point.

### Service
`main` is where main and start_service are; `senders` holds `"main"` until start_service
returns and `"job"` while the job runs. `module` holds the groups of methods merged so far,
`RPC_METHODS` the list that the method of that name returns, an `OnceStatic` that can be set
once and not read before. `ConnectRelay` is one step from the connection to the registration
of `rpc_methods`: after the connection there is no await, and nobody else sees the module or
the list before the server starts. `StartFails` is every `?` of start_service; it ends the
process and aborts the job. `StopServer` is `handler.stop()`, `ServerStopped` the end of its await,
and `StopFails` its `?`, where main returns without waiting for the job.

### SubClientPool
`call[c]` is what the subscription call of Dapp connection `c` blocks on, `queue` and
`running` are the worker, `reply[c]` the one-element channel, `clients` the map, `link[c]` the
connection to the node, `spawned[c]` and `relays[c]` the relaying tasks. Calls and tasks need
one of `WorkerThreads` threads. A sink that cannot be accepted makes `subscribe` return before
it has changed anything, so there is no action for it. Two facts of the libraries are taken from how the code
uses them: the calls of one Dapp connection do not overlap, and `try_send` on a fresh
clone of a `futures` sender always has a slot (so the limit of 64 is never met).

### Relayer
The server as Dapps see it. All relayed methods have one shape, `dmc.request(..).await?`, so a
call is only told apart by how it is served (`Method`). `inbox` are the requests that the node
may yet execute, `answers` what is on its way back, `runs` (history) how often the node
executed a call. A request times out after 3 seconds whatever the node does (`RelayTimesOut`);
the client may be lost and is never replaced (`DmcLost`). The four callbacks of
`IndexerMiddleware` are operators of the same names, used where the server calls them.
Taken from how the code uses jsonrpsee: one task per connection drives its calls, a
subscription call blocks that task and its thread, calls of a Dapp that is gone are driven
to their end and hold their place among `max_connections` until then.

## 3. The runs

All bounds are constants of the configurations: `MaxCount` items per shard and senders,
`MaxFaults` failures per behaviour, `MaxSubs` calls per Dapp connection,
`MaxCalls` calls of all Dapps.

| run | instance | shows |
|---|---|---|
| `sync_tables` | 1 shard, 2 items, 3 faults | `MirrorExact`, `CursorsAgree`, `TotalMatches`, `TypeOK` |
| `sync_readers` | 2 shards, 1 item each, 2 faults, cache of 2, fair | `CacheCoherent`, `InitMeansSynced`, `ImplementsMirror`, `ImplementsJob`, `CatchUp`, `InitCompletes`, `ShutdownStops` |
| `pull_shards` | 2 shards, 2 items each, answers of 1 or 2 receivers | `WithinLimits`, `MoreIsTrue`, `NoMoreIsTrue`, `ExactlyOnce` |
| `pull_faults` | 2 shards, 1 item each, amounts 0, 1, too many, 1 fault, fair | `ExactlyOnce`, `KeepsMirror`, `Delivered`, `TypeOK` |
| `cache` | 1 shard, 2 items, 1 and 2 maps for 2 entries in all, 2 readers that want 2 items each, keys of 2 x 4 | `ServedRight`, `ImplementsMirror`, `TypeOK` |
| `service` | good and bad frequency, node with and without the method | `ServesSynced`, `MethodsListed`, `GracefulExit`, `StopsOnSignal`, `ComesUp`, `TypeOK` |
| `pool` | 2 Dapp connections that can block both threads, 3 calls each | `NoLostJob`, `OneConnection`, `CallsReturn`, `GaugeDrains`, `DeadLinkEnds`, `TypeOK` |
| `relay` | 2 Dapp connections, 1 thread, room for 1 or 2 connections, 3 calls | `AtMostOnce`, `EveryCallEnds`, `TypeOK` (with the gauges) |

Why the bounds are enough to be interesting: two items and a limit of two make a round
take one or several requests and let a fault hit between them; two shards are needed for
everything that carries over from shard to shard (`remain`, the break, the order of the
cache batches); two or three faults allow a failure during the recovery from others; a cache of
two with three or four keys evicts, and two maps of one entry each evict within one batch;
keys of 2 x 4 are the smallest into which what the readers ask for fits, so that every
value of a field is used; as many Dapp connections as threads let the calls
block the whole runtime, and a third call of a connection can meet a client that was
kept, never made, or lost. In `relay` one thread is enough for one subscription to stop
everybody, and three calls allow a relayed, a local and a subscription call at once. The job's safety properties do not rest on the bounds at all:
they are proved.

**Fairness.** `Sync`, `Pull` and `Service` assume weak fairness of the program's own steps
(the runtime keeps polling a task that is ready; a request or a connection attempt ends,
if only by its timeout of 3 seconds), never of failures, signals or the node's growth. `Pull`
also assumes that the client asks again, and strongly that it asks for something: with
amounts of 0 alone it would get nothing. `SubClientPool` assumes it of the worker, of each
thread that got its answer and of each relaying task. `Relayer` assumes it of the end of
each call (an answer, or the timeout), nothing of the node; that a call is not kept by ever
new subscriptions of others rests on `MaxCalls`. That a round ends although the
node grows rests on the bound of the ledger; a node that grows faster than it is read
would keep a round, and a shutdown, going.

Deadlock is checked except in `service`, `pool` and `relay`, where the process exits or all Dapps
are gone.

### Findings

Four configurations check what a comment or a test says and fail:

| run | property | what happens |
|---|---|---|
| `pull_more` | `NoMoreReceivers` | an answer filled exactly by one shard ends the loop (`pull.rs:86`); `more_receivers` is false although later shards have more |
| `pull_cursor` | `CursorLosesNothing` | the next sender index is `sender_index + amount` (`pull.rs:204`) even if fewer were found: senders committed between the query (`pull.rs:184`) and `has_nullifier` (`pull.rs:203`) make the answer say that there is more, without them and with an index after them, and a client that follows it skips them |
| `pull_order` | `InOrder` | cached receivers are pushed before those from the database (`pull.rs:121`), so a partly cached range is out of order |
| `service_method` | `JobHasMethod` | the `bool` of `is_the_rpc_methods_existed` is dropped (`service.rs:113`) |

`NoMoreIsTrue`, `ExactlyOnce` and `ServesSynced` are what remains true beside them: an answer
that is not full tells the truth, a client that counts loses nothing (whatever order the
items come in), and the server runs unsynced only on its way down.

Smaller disagreements, without a run: `sync.rs:198` says that `should_continue == true` means
done (it is the opposite); `db.rs:60` says "Enable WAL mode" above a second
`synchronous = OFF`; `sync.rs:93` promises a round every 2 seconds, but one that fails is
followed by the next at once; `relay_server.rs:64` says that each subscription has its own
connection, but those of a Dapp connection share one; `sync.rs:208` says that the first
synchronization is finished before the service begins, but a signal during it leaves the
wait (`service.rs:123`) and the server runs until main sees the flag (`ServesSynced` has
that exception); `relayer/mod.rs:24` wants fewer connections to the node than from Dapps,
but nothing removes a client from `clients` (`sub_client_pool.rs:89`); `max_log_length` and
`batch_requests_supported` are read from the configuration (`relayer/mod.rs:52`) and never
handed to the server (`service.rs:136`); `sync.rs:194` logs as big endian the total that
everybody else takes as little endian.

## 4. The proofs

`SyncProofs` (for every `ForestWidth`, `Count`, limit, `Capacity` and `MaxFaults`, from
`ForestWidthAssumption`, `CountAssumption` and `SyncAssumption`):

* `TypeCorrect`, `TablesExact`, `CursorsCorrect`, `CacheCorrect`, `InitCorrect`, `TotalCorrect`:
  the properties of `sync_tables` and `sync_readers` as `Spec => []P`;
* `MirrorRefinement`: `Sync` implements `LedgerMirror`;
* `JobRefinement`: `Sync` implements `SyncJob`.

None of the properties is inductive. `Commit` makes the open transaction the tables, so what
`tx` holds has to be known at every step; that depends on where the response starts,
which is the checkpoint, which is a count of the tables. The inductive invariant `IInv` has
one part for each link:

* `StoreInv`: the committed tables are exactly the items before some checkpoint (`TablesAt`),
  which is not after the ledger;
* `PhaseInv`: step by step, the checkpoint is where the tables stand, the response is what
  follows it in the ledger, and the transaction stands at the checkpoint, halfway (receivers
  written), or at the end of the response;
* `CacheInv`: every entry is the item of its key and before where the tables stand;
* `FlagInv`: the flag means that the tables are past `chain0`.

The lemmas below it say what the operators do: `InsertShardExact` (appending the run that
follows the first n rows gives the first n + m), `InsertNullifiersExact`, `PutBatch`
(what is left after an eviction comes from the old cache or the batch), `TablesPos` (counting
exact tables gives back their checkpoint), `SumMonotone`. One lemma per action shows that
it keeps `IInv`. `TotalInv` adds what `TotalMatches` needs: the stored total was the size of the
ledger at the time of the last commit.

`ServiceProofs` (for every set of frequencies): `TypeCorrect`, `ServesSyncedCorrect`,
`GracefulExitCorrect`, from `TypeOK` (senders are held by exactly those at work) and
`Progress` (how far main is says which flags are set and whether the job may run);
`MethodsListedCorrect` from `Listing` (how far main is says what is merged and listed).

`LruKeysProofs` (for every width of the fields, the code's 12 and 48 bits included):
`KeysDistinct`, two items whose shards and indices fit their fields have different keys. This
is what lets `LedgerTypes` keep the fields of a key apart. It rests on `DigitsUnique` (q * n + r
with r below n determines q and r), used once per field.

`LedgerTypesProofs`: what `SumOverShards` does when a shard changes (`SumExcept`), grows
(`SumMonotone`) or is empty (`SumZero`). The sum is the size of a set of positions, so that no
induction over the shards is needed. Used by `SyncProofs` and `PullProofs`.

`PullProofs` (for every forest, every ledger, all limits, amounts and numbers of failures, from
`PullAssumption` and those of `LedgerTypes`): `TypeCorrect`, `LimitsCorrect`, `MoreCorrect`,
`NoMoreCorrect`, `ExactlyOnceCorrect` (for a client that counts: with the cursor it is false, see
the findings) and `KeepsMirrorCorrect`, the refinement of `LedgerMirror`. What an answer promises is
about its last step; the invariant says where it stands before:

* `TablesInv`: while a request is served the tables only grow;
* `ReceiversInv`: in every shard but the one between its two reads, what is pushed is the stretch
  of indices from the checkpoint on; between the reads it is a part of what is wanted and the
  tables have. That the query then fills all holes is what `TODO if some hole exists` (`pull.rs:151`)
  worries about; it rests on the tables being a prefix;
* `CountInv`: pushed and `remain` add up to the limit. This needs the sum lemmas;
* `CompleteInv`: which shards are known to be read to their end. A shard that gave fewer items
  than `remain` is, and the loop only goes on after such a shard, unless an error was swallowed;
* `MoreInv`, `FoundInv`, `SendersInv`, `ClientInv`: that the flag is only set on the way out of the
  loop, that what is written back was found in the tables, the same for the senders, and what the
  client has.

`LedgerCacheProofs` (for every number of maps, capacity, width of the fields, number of readers and
length of the tables that fits the fields): `TypeCorrect`, `ServedCorrect`, `MirrorCorrect`. The
invariant is that every entry, in a map, in a batch that the job has yet to put, and in what a
request found, is that of an item of the tables under the key of that item (`MapsOK`, `JobOK`,
`ReaderOK`). `KeysDistinct` then gives `EntryUnique`: an entry with the key that a reader looks for
is the one it looks for, whoever put it there. `FrontOK` shows of one map that whatever place the
entry at the front takes, its own, a new one or that of the last, no key is there twice and there is
room. No part of the invariant speaks of the locks: what they protect is the order of use alone.

`PoolProofs` (for every number of Dapp connections, threads and calls): `TypeCorrect` (the gauge
is the number of relaying tasks), `NoLostJobCorrect`, `OneConnectionCorrect`. `OneConnection` is not
inductive: a job "connect" for a Dapp that has a client would make a second connection. `ClientsInv`
excludes it (a call only waits for "connect" while the map has no client, and a connection was made
if there is a client or the answer "ok" is waiting), and `NoLostJob` says that no other job of that
Dapp is under way. The gauge is counted as the size of the set of tasks, one by one.

`RelayerProofs` (for every number of Dapps, threads, connections and calls): `AtMostOnceCorrect` and
`TypeCorrect`. For the first the invariant adds to `AtMostOnce` what is under way: a request in
`inbox` is of a relayed call that was not executed yet, an answer in `answers` of one that was. The
second says that the gauges are true: each is the size of a set of connections or calls, and one
lemma per kind of step follows that size (`ReceiveStep`, `ReturnCounts`, `ConnStep`).

Only model-checked, and why: all liveness (`CatchUp`, `InitCompletes`, `ShutdownStops`, `Delivered`,
`StopsOnSignal`, `ComesUp`, `CallsReturn`, `GaugeDrains`, `DeadLinkEnds`, `EveryCallEnds`), because
`~>` under fairness is outside the prover used here. That a map with its order of use behaves as
`lru` does is how `AtFront` and `Room` are written, not something proved.

## 5. Not modelled

* Encodings (SCALE, base64, JSON) and with them most of `types.rs`; the hash that assigns a UTXO
  to its shard (the response is taken as grouped by shard). Integer widths, except those of the
  cache keys: indices beyond 2^48 are out of reach of the ledger, and a client is taken to send
  only checkpoints that it was led to.
* Functions without a caller in the program: `get_one_shard`, `get_batched_shards`,
  `append_nullifier` (it would number from 1, the job numbers from 0), `get_one_nullifier`,
  `get_batched_nullifier`; `get_receiver`, `get_sender`, `put_receiver`, `put_sender`, `lru_size`;
  `is_full_node`, `is_full_node_started`, `build_tokio_runtime`.
* The loader and the benches; `get_check_point_from_node` and `pull_ledger_diff_from_local_node`,
  which walk the node as `pull_ledger_diff_from_sqlite` walks the tables (`TakeAnswer` in `Pull`).
* Of the monitoring, the histogram of response times and the logs. Of the server's limits, all but
  `max_connections`: sizes of bodies, subscriptions per connection, pings. What relayed calls ask
  and answer, and the items of subscriptions.
* Time: sleeps and timeouts only end; the 24 hours of a connection attempt are "eventually".
* A loss of power. The database runs with `synchronous = OFF` (`db.rs:56`; the second such line,
  `db.rs:61`, is commented "Enable WAL mode"), for which SQLite promises nothing: commits may be
  undone and the file may be corrupt. A `PRAGMA` also only reaches the connection of the pool
  that executes it, so that the level may differ from connection to connection. All results
  about crashes are about the end of the process, after which the operating system still has
  what was committed.
* Sums of what a client sends: `receiver_index + amount` and `sender_index + amount` are `u64` sums
  (`pull.rs:109`) that only a client that makes up its checkpoint could bring to overflow.
* A bound on the clients that `sub_client_pool.rs:89` keeps: the code has none.
* A node that rolls back or lies: only finalized state is read.

## 6. Plan

Done so far: the store and the job, requests, the cache as built, the service, subscriptions,
relayed methods and monitoring, all with proofs of their safety properties. Every invariant that a
passing run checks is stated by a theorem too. What is left:

1. The tables of `Pull` are those of `LedgerMirror`; a module that composes `Pull` with `Sync` itself
   would show the seam end to end.
2. More of the database: the pool of connections and its timeouts.
