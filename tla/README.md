# pyaleph-rs in TLA+

pyaleph-rs is a node of the Aleph network. It collects signed messages (POST,
AGGREGATE, STORE, PROGRAM, INSTANCE, FORGET) from its HTTP API, from the P2P
network and from chain data, verifies and applies each of them once, and serves
the result from PostgreSQL. This directory specifies how it does that: the
modules follow the Rust source statement by statement where SQL statements of
concurrent tasks can interleave, TLC checks them on small instances, and TLAPS
proves the central invariants of the pipeline, of security aggregates, VMs, posts,
file pins and stored files, that the pipeline implements the life of a message (`MessageLifecycle`)
and that chain sync keeps its promise (`SyncPromise`), for instances of any size.

## 1. Inventory

| Part (source) | State it keeps | Operations | What makes it hard |
|---|---|---|---|
| Start-up, schema, `main.rs`, `db/migrations.rs`, `db/pg_database.rs` | the tables, columns, indexes and the trigger | migrate, spawn tasks, serve, API-only mode | several processes over one database; a failure half-way |
| HTTP ingress and status, `web/handlers.rs` | inserts into `pending_messages`; an answer | parse, verify, insert, publish; look a message up in several tables | answers success although the insert failed; the message moves between two reads |
| HTTP lists, `web/handlers.rs`, `db/accessors.rs` | page, cursor, total | pages by offset or cursor, COUNT or a shortcut for it | rows change between requests and between two statements of one |
| P2P consumer, `jobs/p2p_consumer.rs` | dedup cache, inserts into `pending_messages` | consume, insert, acknowledge, reconnect | redelivery, loss between cache and insert |
| WebSocket, `web/websocket.rs`, `network/rabbitmq.rs` | filter and flag of a client, broadcast channel | connect, history, subscribe, unsubscribe, forward | two tasks of one client, a history read beside a live stream |
| Chain sync, `jobs/chain_sync.rs`, `chains/*` | cursors in `chain_sync_state`; writes `messages`, `pending_messages` | poll, fetch batches, filter, insert, queue, resolve contents in the background | crash between two tables, late contents, failed fetches behind the cursor |
| Content fetch, `services/content_fetch.rs` | writes `messages`, `pending_messages` | read rows without content, ask peers, store, queue | answers about rows that have moved on, peers that lie |
| Peers, `services/peers.rs` | `peers`, the ring, `api_servers` | discover, tidy | two jobs rewrite what both read |
| Message processor, `jobs/message_processor.rs` | batch in memory; `messages`, `rejected_messages` | select, filter, run handlers concurrently, collect, retry | stale snapshot, partial writes, 30 s timeout, crash |
| Handlers, `handlers/*.rs` | `posts`, `aggregates`, `aggregate_elements`, `files`, `file_pins`, `file_tags_v2`, `programs`, `instances`, `vm_versions`, `account_costs`, `forgotten_messages` | validate, permissions, balance, process | no transactions; FORGET undoes what others write |
| Permissions, `permissions.rs` | the owner's aggregate "security" | is a delegate allowed | filters that combine; lists that change between check and write |
| Backfill, `jobs/backfill.rs` | derived tables, columns, `message_counts`, its trigger, a running flag | derive rows for messages that lack them | runs beside the processor, fails half-way |
| Garbage collector, cleanup, `jobs/garbage_collector.rs`, `jobs/cleanup.rs` | deletes pins, files, old rows | periodic cycles | check, then act, beside STORE and FORGET |
| File store, `services/storage.rs`; warm cache, `storage/tiered.rs`; ring, `services/sharding.rs` | files, an index, the ring | store, get, delete, put, evict, owners of a content | no locks around files, no atomic write, capacity under concurrency |
| Prices, `services/cost.rs` | price list, discounts, GPU tiers | estimate, quote, replace the list | three locks of one quote, two endpoints that compute one price |
| Balances and costs, `handlers/vm_common.rs`, `jobs/balance_tracker.rs` | `balances`, `account_costs` | check, record, update | check-then-act in one batch |
| Transaction packer, `chains/tx_packer.rs`; cron jobs | pending pack | pack and publish messages | not started by `main.rs` |
| Metrics, Redis, RabbitMQ, IPFS, chain connectors | counters, connections | external services | their failures are actions of their users |

How they interact: the three ingress paths and content fetch all write
`pending_messages`; the processor is the one consumer and runs one batch at a
time, with up to 100 handlers of a batch concurrently. Chain sync and content
fetch also write `messages`, which handlers, `/status` and the filter of chain
sync read. The API reads derived tables, and writes one of them: it rebuilds
aggregates that are marked dirty. The garbage collector and the backfill run on
their own timers against the same tables. `main.rs` starts all of these except
`JobManager`, the balance tracker and the packer; of the chain loops it starts
one, by configuration.

For each part, correct means: nothing received disappears (pipeline); nothing
takes effect without the signature or the chain behind it (pipeline); what a
FORGET removed is gone and only its owner can remove it (FORGET); a row derived
from several messages shows all of them in order (aggregates, amends, tags); a
file that is in use is pinned and one that is not is collected (pins, GC);
capacity, balances and retry counters keep their bounds (cache, VM, pipeline);
every cursor only passes what was stored (chain sync); who writes for another
had the right to (permissions); a client is told and given what the tables held
(status, lists, WebSocket); a start makes up for what the last one left
(migrations, backfill).

## 2. Modules

### `MessageProcessor.tla`

The pipeline. One variable per table column that decides something:
`pending`, `retries`, `due`, `trusted`, `fetched` are rows and columns of
`pending_messages`; `messages` and `unfetched` are rows of `messages` and those
without content; `rejected` and `forgotten` are the two outcome tables;
`derived` stands for the row a handler writes. `phase`, `task`, `snap*` and
`toDelete` are the processor's memory, `target`, `left` and `typed` the locals
of a running FORGET, `chainQ`, `resolving` and `fetching` the work in the hands
of chain sync and content fetch. `received` and `anchored` are history, for
properties only, and `faults` counts.

An action is one SQL statement or one decision between two of them:

| Code | Actions |
|---|---|
| ingress | `insert_pending_message`, `post_message`, `batch_insert_messages`, `batch_insert_unfiltered`, `queue_messages_for_processing` |
| content services | `get_unfetched_messages`, `content_fetch`, `resolve_and_update_content` and their failures |
| `process_batch` phases 1, 2 | `process_batch` (select, blacklist, duplicates, forgotten, all from one read) |
| phase 3 | `parse_fails`, `defer_pending`, `reject_message`, `process_single_message`, `handler_process`, `store_processed_message` |
| `ForgetHandler` | `forget_validate`, then per hash `mark_forgotten`, `cascade_forget`, `delete_message` |
| phase 4 | `collect_processed`, `collect_deferred`, `move_to_rejected`, `update_retry`, `result_not_written`, `batch_delete_pending`, `batch_delete_fails` |
| failures | `handler_db_error` (becomes a rejection), `task_error` (the timeout, becomes a retry), `crash` |

Two failures keep what was already written: `PartialWrites` leaves the handler's
row, or any prefix of the statements of a cascade (`PartialErase`).

A FORGET of a program or an instance deletes the rows of its amendments
(`VmUpdatesOf`, `delete_vm_updates`), instances first, and touches nothing else of
them: they are not marked, their `messages` rows stay, and one whose handler has
run and which is not recorded yet, or whose redelivered row is about to be dropped
as a duplicate, vanishes from every table. `Orphaned` names these amendments;
`NoMessageLost` and `RecordedIsApplied` except them and nothing more.

Abstractions. Each message writes one derived row; each STORE of the module
names a file of its own, and the garbage collector is not part of the module.
The reasons for a rejection that depend on content, permissions, balance or VM
dependencies are one nondeterministic choice (`reject_message`). A FORGET takes
its hashes in any order. Wall-clock delays are `due` and `elapse`.

### `MessageLifecycle.tla`

The abstract life of a message: absent, waiting, effective, leaving, forgotten,
and the batch (`hand`) it is in. `MessageProcessor` implements it: `Stage` reads
the stage off the tables (marked or not, its handler's row there or not, a row
elsewhere), `Hand` is the messages with a task. Whatever fails half-way or comes
again, a message takes effect only in a batch that took it up, loses its effect
only to an authorized FORGET of the same batch, vanishes only if its sender is
blacklisted, and is taken up by no batch that began after it was forgotten. One
kind of message has a way back, because the code has it: what updates a forgotten
VM (`Updates`) is undone by that VM's FORGET, waits again or is absent, and may take
effect once more (`MayUndo`).

### `Aggregate.tla`

One (address, key) pair: the row of `aggregates` (`exists`, `content`, `time`,
`dirty`) and its `elements`. A task is a handler, a FORGET or an API request;
`at` says which statement is next, `seen` and `snapshot` hold what it has read.
The JSON content is a function from fields to the element whose value is shown;
`deep_merge` and `MergeOf` are what the code's merge and rebuild compute. With
`Security = TRUE` handlers start as `process_batch` starts security aggregates:
one at a time and never beside a FORGET. Not modelled: a task cancelled between
two statements, the elements the backfill itself inserts.

### `FilePins.tla`

Files and their pins: `files`, `file_pins` (`kind` and `by` hold the columns
`pin_type` and `message_hash` of the row of a file and an owner, `old` and
`lapsed` compare its `created_at` and `delete_by` with the clock), the tags,
cost rows, `messages` and `forgotten_messages` as far as they concern STOREs.
`at` and `fg` are the next statement of the STORE handler and of
`process_store_forget`, `gc`, `todo` and `victim` the collector's place in its
cycle. `forget_file` is a FORGET that names the hash of a file: `get_message`
finds no STORE of that hash and the row goes at once. Unpinning at the IPFS node
follows every DELETE and has no effect on the tables. The FORGET takes the tag and
the owner of the grace period from its own `content.address` (`Forgetter`), which need
not be the STORE's. Hashes of files and of messages are disjoint. Steps 4 and 5 of a
cycle concern other tables. A STORE that chain sync puts into `messages` before it has
a row of `files` is outside the module.

### `ChainSync.tla`, `SyncPromise.tla`

One chain and the loop that follows it. `pc` is the next step of a cycle,
`from`, `range`, `last` the scan's position, its `block_range` and what it will
save; `got`, `pulled`, `todo`, `chunk` are the events, files and messages in the
hands of the cycle; `messages`, `bare` (rows without content), `pending` and
`confirmed` (`chain_txs`) are tables, `known` and `saved` the row of
`chain_sync_state`. `missed`, `queued` and `unconfirmed` are history.

| Code | Actions |
|---|---|
| `RpcSyncClient::fetch_sync_events` | `rpc_begin`, `get_logs_in_range`, `get_logs_fails`, `scan_ends` |
| `sync_chain_from_indexer_optimized`, its pages | `indexer_begin`, `fetch_sync_events` |
| both, one batch of events | `fetch_ipfs`, `filter_new_messages`, `batch_insert_messages`, `queue_messages_for_processing`, `inserted_all` |
| `rpc_sync_cycle`, its end | `record_confirmations`, `update_last_rpc_block` |
| the indexer loop, its end | `update_last_sync_timestamp` |
| others | `new_block`, `gossip`, `process`, `resolve_content`, `cycle_fails` (an error or a restart) |

`SyncPromise` is the abstract specification: the saved position only grows, and
only over events that are settled (stored, void, or of a file that could not be
had). `ChainSync` implements it with the identity as refinement mapping.
Abstractions: a position is a block or a timestamp; retries, the local node and
the gateway are one attempt to fetch; what a FORGET deletes is left to
`MessageProcessor`; the balances of other chains and `sync_chain` are left out.

### `Vm.tla`

VMs, their amendments and FORGETs. `vms` is the rows of `programs` and
`instances`, `current` the column `current_version` of `vm_versions` (whose
`last_updated` is that version's time), `charged` the rows of `account_costs`,
`at` the next statement of a task. `oldCurrent` and `oldCharged` are what the
batch began with, `erased` what a FORGET finished: history, for properties.

| Code | Actions |
|---|---|
| `process_batch` | `process_batch` (a batch begins when all tasks of the one before are over), `task_fails` |
| `validate_amendment`, `validate_balance` | `validate`, `amend`, `check_balance`, `refuse` |
| `process` of both handlers | `store_row`, `upsert_vm_version`, `store_account_costs`, `store_processed_message` |
| `ForgetHandler` of a VM | `forget_validate`, `mark_forgotten`, `delete_vm_updates`, `delete_costs`, `delete_row`, `delete_version`, `delete_message` |

Abstractions: a VM has two rows of costs, the first and the rest; balances do
not change (their one writer, the balance tracker, is not started by `main.rs`);
every FORGET is its VM's owner's; what depends on files, resources or permissions
is `refuse`; messages come by gossip (chain sync writes `messages` itself, see
`MessageProcessor`). A FORGET of the current amendment leaves `current` at a row
that is gone, and the VM is never amended again.

### `Permissions.tla`, `Posts.tla`

`Permissions` is one check of `permissions.rs`: `Covers` is one entry of the
owner's list against the envelope of a message, filter by filter,
`check_delegated_authorization` the list, `check_sender_authorization` its use
for posts and amends. `Posts` has the rows of `posts`, their `latest_amend`
(`latest`), the list now in force (`grants` are the grants applied), the tasks of a batch by their next statement, FORGET's
cascade over amends and the backfill, which derives rows without any check. What
chain sync delivers (`Trusted`) is checked by no handler either, updates of "security"
included (`NeedsGrant`, `handlers/mod.rs:430`): a list that comes by the chain is merged
whoever signed it, and counts as given. `messages` has the posts and amends only, as no
handler of the module reads others.

### `Listing.tla`

One client and one list of the API. `List` records in what the lists of
`handlers.rs` differ (order, whether keys move, how the total is made, what page
0 and "no limit" mean); rows are inserted, deleted and moved between requests
and between the statements of one. `Offset` wraps as `u32` does.

### `Pricing.tla`

Prices, discounts and tiers as operators (`calculate_*`, `get_volume_discount`,
`find_gpu_tier*`), and two clients: one asks what a message would cost, one what
it costs. A quote reads storage, compute unit and discount under three locks,
between which a pricing aggregate may replace the list; one without discounts keeps
those there are.

### `WarmCache.tla`, `FileStore.tla`, `ContentRing.tla`

`WarmCache`: `index` is the map behind the lock, `disk` what a reader of each
file would get, `put` and `get` the tasks; a write is two steps (open and
truncate, fill), eviction happens under the lock, files are written without it; a
removal whose error the code ignores leaves its file (`leaked`).
`FileStore`: the same view of `StorageService`, whose calls lock nothing, with a
cache directory. Any call may end at any step, by a restart, an I/O error or a dropped
request (`store_crash`, `io_fails`), and leaves what was written so far: a begun file
that later stores take for whole, a begun cache file that is given unverified, a cached
copy whose removal failed. These are on record in `cut`, and `FilesAreSound` excepts
them. `ContentRing`: `RingOf` and
`get_responsible_nodes` over a small ring; places stand for hashes.

### `Peers.tla`, `ContentFetch.tla`

`Peers`: the table, the aggregate of nodes (`listed`), the ring, `api_servers`,
and the place of the discovery and the tidy job in their passes.
`ContentFetch`: a round of `run`, which copies the servers, asks responsible
nodes, servers and IPFS for each item, verifies what can be verified and counts
failures; what it does to `messages` and `pending_messages` is in
`MessageProcessor`.

### `P2pConsumer.tla`, `WebSocket.tla`

`P2pConsumer`: the queue at the broker, one delivery at a time looked up in
`dedup_cache`, inserted and acknowledged; a cut at any await leaves the cache as
it is and has the broker deliver again. `WebSocket`: the relay from the queue to
the broadcast channel, and one connection with its two tasks, which share
`filter` and `subscribed`, each behind its own lock.

### `Backfill.tla`

The rows of a few messages, the queue, `message_counts` and its trigger; `at` is
the step of `run_startup_backfill`, `cursor` its `last_time`. A walked type
advances by a batch per step and a cursor query, a swept one by one statement;
a JSON error aborts a type. Beside it messages are inserted, processed and
forgotten, statements fail and the process restarts. A walk of the columns also ends
when a FORGET deletes a row of the batch during the UPDATE (`denorm_batch_short`): the
statement counts what it updated, and a batch that is not full is taken for the last.

### `MessageStatus.tla`, `Startup.tla`

`MessageStatus`: one PROGRAM, the tables that have a row of it (`held`), the
statements left of the processor's and FORGET's work on it, the FORGET of the VM that
it may amend (`forget_original`: its row of `programs` goes, and it is neither
forgotten nor removed from `messages`), and one client whose request reads table after
table. `Startup`: the statements of `run_migrations`,
grouped by kind (`CREATE TABLE`, `ADD COLUMN`, indexes, `DROP` and `CREATE
TRIGGER`), each process's place in `main`, and the tasks it has spawned. A `CREATE
... IF NOT EXISTS` is a check and a write that two processes can interleave.

### `MC*.tla`, `*.cfg`

`MCMessageProcessor`, `MCAggregate`, `MCFilePins`, `MCChainSync` and `MCVm` name the messages of the runs and give
each its kind, sender, content; a cfg picks a scenario and the bounds.
In `gossip` and `chain` the messages that arrive in a behaviour are of one cast
(`Casts`): `OneCast` is their `ACTION_CONSTRAINT`, a bound on which messages meet and
nothing else. In `security`, `OneIntruder` keeps the stranger's amend and the
delegate's update of the authorizations, both of which are refused and leave nothing,
out of one batch. No other run has a constraint.
`MCTables`, `MCStorage`, `MCNetwork`, `MCServices` and `MCIngress`
put components that share no state in the model beside one of these: their
variable `part` says which component moves in a behaviour, the others are at
rest. They are placed so to have one run for several small components, not to
compose them.

## 3. What the runs check

Passing:

| Run | Instance | Shows |
|---|---|---|
| `gossip` | one of: a post, its amend, its FORGET; a post, its FORGET by the owner and by another address; an instance, its amendment, the instance's FORGET; a chain-synced STORE and its FORGET; an unparsable row. 1 fault | `NoMessageLost`, `RecordedIsApplied`, `ForgetIsAuthorized`, `FollowsLifecycle` |
| `chain` (`MCIngress`) | chain-synced remote post and its FORGET, beside a badly signed aggregate that comes by gossip and by chain, or an unsigned but chain-synced FORGET; no faults | `TypeOK`, `UnsignedOnlyFromChain` |
| | `P2pConsumer`: four copies of two messages, one garbled, a cache of 2; 2 cuts | `AckedWasInserted` |
| | `WebSocket`: two messages, a client with 2 requests, channel of 2; 1 loss | `ClientIsServed` |
| | `Backfill`: three messages that chain sync left, one not JSON, batches of 1; 1 crash, 1 error | `BackfillRecovers` |
| `late` | chain-synced STORE with late content, its FORGET; 2 faults; fairness | `RetriesBelowMax`, `ForgottenStaysErased`, `PendingIsResolved` |
| `serial` (`MCServices`) | two security aggregates of one address, a post, its FORGET; no faults; fairness | `ForgetCompletes` |
| | `ContentFetch`: a storage and an ipfs item, two servers that come, go and lie, 2 rounds; 1 loss; fairness | `FetchedIsKept`, `FetchEnds` |
| | `MessageStatus`: one message, one client, five requests | `AnswersAreExplained` |
| | `Startup`: two processes, any schema an earlier start left; 1 mishap | `SomebodyGetsThrough`, `SchemaIsWhole` |
| `security` (`MCTables`) | three updates of a security aggregate, one FORGET of two of them, one API reader, one backfill | `MergedOrDirty`, `RowIffElements`, `TimeNeverRegresses` |
| | `Posts`: a post, an amend by a delegate and one by a stranger, three updates of the authorizations, one of them a delegate's that chain sync delivers, a FORGET; 1 fault | `WritersHadTheRight`, `ForgottenThreadIsGone` |
| | `Listing`: three rows, two keys, page sizes around the cap (ascending: pages of one); 1 change; every list | `ListIsExact` |
| | `Pricing`: every VM of a few sizes, two price lists; 2 updates | `QuotesAgree` |
| `pins` | two STOREs of one file by one owner, their FORGETs, the second of which carries another address, an anonymous upload, the collector with `LIMIT 1`; 1 fault; fairness | `FileIsAccounted`, `FileOutlivesStore`, `GraceEnds` |
| `sync` (`MCNetwork`) | five events at four positions, one file published twice, one foreign emitter, one garbled text, both loops with limits of 1 and 2; 1 fault; fairness | `PassedIsConfirmed`, `KeepsPromise`, `EventsAreSettled` |
| | `Peers`: two nodes that join, move and leave; 2 moves, 1 miss; fairness | `PeersSettle` |
| `vms` (`MCStorage`) | a VM, an older and a newer, locking amendment, another VM paid by credit, FORGETs of the first three; 1 fault | `RecordedVmIsCharged`, `NewestVersionWins`, `LockedStaysLocked`, `FitsBeside`, `ForgottenVmIsGone` |
| | `WarmCache`: two puts, one get, three blobs, two bytes; 1 trouble | `WarmCacheIsSound` |
| | `FileStore`: one file, three callers; 1 restart, I/O error or dropped request | `FilesAreSound` |
| | `ContentRing`: four nodes, a ring of eight | `OwnershipIsSound` |

Where a property is a conjunction of named parts (`ClientIsServed`,
`BackfillRecovers`, `ListIsExact`, ...), each part is stated, with the code it is
about, above it in its module, and has a mutant of its own in PROJECT.json.

Violated, each by a behaviour of the code that a document or comment rules out
(PROJECT.json quotes the line):

| Run | Property | What happens |
|---|---|---|
| `applied` | `AppliedIsRecorded` | a timeout or crash after the handler's rows: the next batch calls the message a duplicate and it never reaches `messages` |
| `repin` | `MultiplePinTypes` | a STORE of a file in its owner's grace period is refused |
| `parallel` | `MergedOrDirty` | two concurrent updates of a key other than "security": one is lost |
| `dense` | `EventsAreSettled` | a range of the smallest size has more logs than the node returns: it is asked for again for ever |

Bounds. `MaxRetries = 2` instead of 10 makes the last attempt
reachable with the faults a run has; nothing else depends on the value. `MaxFaults` bounds DB
errors, failed fetches, timeouts and crashes together: the two of `late` are
enough for a fault and a fault of its retry. Batches are not bounded: redelivery goes on for
ever in the liveness runs. Two to five messages are enough for each scenario
because the interactions are between a message, what refers to it and its
FORGETs, the authorized one and those that are not. `DirtyThreshold = 2`
stands for 1000, so that three elements are on both sides of it. Elements have
distinct times in the run.

`GcLimit = 1` makes the collector's `LIMIT 100` bite with two rows. `MaxDeliveries`
bounds deliveries of one STORE, each of which the code processes in full.

In `sync` every limit of the code is small enough to bite: `EventLimit = 1`
(10000 events of a scan), `PageLimit = 1` (200), `ChunkSize = 1` (500), `MaxRange
= 2` and `MinRange = 1` (100), `MaxLogs = 2`, so that two events of one block
fill a range. `Top = 4` bounds the chain.

The other components are small by themselves: a list needs three rows to have a
page that is full, one that is not and a row between them; a ring needs more
nodes than the replication factor of two, one of which leaves; a cache of two
bytes has room for two blobs of one and none beside one of two; two processes are
enough for a start-up race, and one client for what a client is told, since
clients share nothing. Lists, prices and the ring take every initial
state of their instance (every list, page size and order; every VM; every set of
nodes).

In `vms` the balance holds the VM and one unpaid amendment but not a second
amendment beside them, the older amendment must not become current and the newer
one forbids the rest; batches and redelivery are not bounded.

Fairness (`MessageProcessor!Fairness`). The processor loop ticks every 50 ms for
ever and its awaits are bounded by the 30 s timeout, so its steps are weakly
fair together; `next_attempt` passes (`elapse`); chain sync runs its second
statement right after the first. Nothing is assumed of clients, the network,
content services or faults. `defer_pending` counts as a fault: with a gateway
that never has a content the code defers for ever. In `FilePins` the collector's
steps are weakly fair together (`run` loops for ever once `main.rs` starts
it), and so are the statements of each handler. In `ChainSync` the steps of a
cycle are weakly fair together: both loops tick every 15 seconds for ever, and
every await of theirs has a timeout. In `Peers` the discovery and the tidy loop are each weakly fair; in
`ContentFetch` a round's steps are, and each item is read by a round again and
again (`SF` of `fetch_tick`: the SELECT takes items in random order). New blocks, gossip, the processor and
faults are not fair.

`CHECK_DEADLOCK FALSE` is used where the system really comes to rest: for
`Aggregate` and `FilePins`, whose tasks end.

## 4. What is proved

`MessageProcessorProofs.tla`, for any set of messages, deliveries, retry bound
and number of faults, from `ConstantsAssumption` alone:

| Theorem | Property | Argument |
|---|---|---|
| `TypeCorrect` | `TypeOK` | inductive |
| `NothingLost` | `NoMessageLost` | `LossInv`: what the batch will delete is derived, recorded, forgotten, blacklisted or orphaned (`DropIsSafe`), a processed task's message is recorded or forgotten, a FORGET erases only after it has marked |
| `RetriesBounded` | `RetriesBelowMax` | inductive: the snapshot is written back only below the limit |
| `OnlyAuthorizedForgets` | `ForgetIsAuthorized` | `ForgetTasksAuthorized`: a FORGET past validation is signed and works on its own sender's hashes; `OnlyReceived`: only received messages are processed |
| `UnsignedIsAnchored` | `UnsignedOnlyFromChain` | `TrustIsAnchored`: a trusted row with a bad signature was inserted by chain sync |
| `GossipIsApplied` | `RecordedIsApplied` | `StoredAfterApplied`: a task about to store has its row, or was forgotten, or the VM it amends was |

Each inductive step is one named step per action. The strengthening is needed
because the properties speak of tables while the danger is in memory: a list of
rows to delete, a snapshot, a target chosen before other tasks ran.

There, too, with the same assumption:

| Theorem | Property | Argument |
|---|---|---|
| `LifecycleKept` | `FollowsLifecycle` | refinement: one lemma per step of `MessageLifecycle` says by which change of the tables it is recognized (`IsApply`, `IsForget`, ...), `StepLives` finds one for each action; needs `LossInv` for the DELETE, `AuthorityInv` for a FORGET, `BatchInv` for the batch (`HandIsPending`, `TargetsAreKnown`) |
| `ForgottenIsErased` | `ForgottenStaysErased` | a message forgotten, without rows and in no batch (`Erased`) stays so: `ErasedStays` |

`AggregateProofs.tla`, for any set of elements, FORGETs and API requests, any
dirty threshold and number of backfills, from `ConstantsAssumption` and
`LatestAssumption` (of finitely many elements one is the latest):

| Theorem | Property | Assumes | Argument |
|---|---|---|---|
| `TypeCorrect` | `TypeOK` | nothing more | a rebuild writes only what it read from at least one element |
| `SecurityRowIffElements` | `RowIffElements` | the key is serialised | `RowInv`: a running handler is alone; when the row and the elements disagree a handler is at its INSERT or a FORGET at its DELETE of the row |
| `SecurityMergedOrDirty` | `MergedOrDirty` | the key is serialised, distinct times, one FORGET at a time | `MergeInv`: what each writer has read still describes the elements when it writes, statement by statement |
| `SecurityTimeAdvances` | `TimeNeverRegresses` | the key is serialised | `ClockInv`: a writer that has read the row writes no earlier time than the row has; without FORGETs a rebuild has every element the row was made of, and the latest of them has the row's time |

The three assumptions of `SecurityMergedOrDirty` are needed. Without serialisation the
run `parallel` refutes the property. Two elements of one time are merged in the
order they are processed and rebuilt in the order of their hashes. Of two
FORGETs of one aggregate that run together, one may write what it read before
the other's DELETE.

`ChainSyncProofs.tla`, for any chain, files, limits and faults, from
`ConstantsAssumption`:

| Theorem | Property | Assumes | Argument |
|---|---|---|---|
| `TypeCorrect` | `TypeOK` | nothing more | with `RangeInv`: the range is never 0 while a scan runs |
| `PromiseKept` | `KeepsPromise` | distinct timestamps | `SyncInv`: every event up to `last` is settled or in the round (`Covered`), and follows the round from file to rows (`RoundInv`) |
| `PassedHasItsLink` | `PassedIsConfirmed` | nothing more | `ConfirmInv`: each statement of a round leaves the messages of the events before it linked, or the fault that kept them out on record; a link is never deleted |

The loop over pages goes on one past the last timestamp of a page, so two events
of one timestamp on both sides of a page's end would lose the second: `Distinct`
excludes them for the theorem, and the run has one such pair, of which one is
foreign.

`VmProofs.tla`, for any VMs, amendments, FORGETs, costs and faults, from
`ConstantsAssumption`:

| Theorem | Property | Argument |
|---|---|---|
| `TypeCorrect` | `TypeOK` | inductive |
| `RecordedIsCharged` | `RecordedVmIsCharged` | `ChargeInv`: cost rows are deleted only of what is marked (`ForgetInv`) |
| `NewestWins` | `NewestVersionWins` | `VersionInv`: the property from the upsert on, before the message is recorded |
| `LockHolds` | `LockedStaysLocked` | `LockInv` with `OwnerInv`: with a locked version no task of the batch passes validation, and the original's own task is not in the batch |
| `ForgottenIsGone` | `ForgottenVmIsGone` | `RowInv`: what is recorded has its row, so no batch holds a VM and a FORGET that may delete it; `GoneInv` follows the FORGET |
| `ChargesFit` | `FitsBeside` | `KeptInv`: cost rows of what is not forgotten stay charged; what counts against a VM only shrinks during its batch, and a smaller set of rows has no greater sum (induction over finite sets) |

`FitsBeside` speaks of the rows charged while they are written as well as of a VM
that is recorded: the weaker statement, of recorded VMs, is not inductive, because
a task cut between its two cost rows leaves one of them charged.

`FilePinsProofs.tla`, for any files, owners, STOREs, deliveries, limits and faults,
from `ConstantsAssumption`:

| Theorem | Property | Argument |
|---|---|---|
| `TypeCorrect` | `TypeOK` | inductive, one lemma per task |
| `StoredOutlives` | `FileOutlivesStore` | `OutliveInv`: a FORGET marks before it starts a grace period (`MarkedFirst`), so each grace period, and each victim of the collector's step 6, is of a file some STORE of which was forgotten (`GraceIsGiven`, `VictimIsGiven`); a handler keeps its row of `files` from its first statement on (`KeptFrom`) |
| `EachIsAccounted` | `FileIsAccounted` | `PinnedInv`: a file without a row has a STORE about to pin it or a FORGET that has still to count (`Covered`); `ByOwn`: a row names only STOREs of its file and owner, so that a FORGET deletes rows of its own file alone; `KeepInv`: beside the grace period that `keep_file` will delete there is another row |

The attempt to prove `KeepInv` showed that `FileIsAccounted` was false beyond the two
STOREs of the run, and `renewed` was added to its exceptions: with three, the collector
finds a file pinned again, a FORGET unpins it and begins a new grace period in the same
row, and the collector, which names no `delete_by` in its DELETE
(`jobs/garbage_collector.rs:327`), takes that one. TLC found the same trace of 47 steps
when told to look there, and no further exception.

`StorageProofs.tla`, for any files, callers, restarts, I/O errors and dropped requests,
with and without the cache (`FileStoreAssumption`); any finite set of nodes, ring, places and replication
factor (`ContentRingAssumption`); any items, servers, rounds and losses
(`ContentFetchAssumption`); any contents, of any positive size, also larger than the
cache, and any puts and gets (`WarmCacheAssumption`):

| Theorem | Property | Argument |
|---|---|---|
| `FilesSound` | `FilesAreSound` | `FilesInv`: a file that is only begun has a writer whose file still has its name (`BegunIsOpen`), and who deletes or writes beside another call is on record (`BesideIsMixed`, `LostIsMixed`) |
| `OwnershipHolds` | `OwnershipIsSound` | the walk that starts behind a hash collects, at each of its `RingSize` places, the node there unless it has enough (`WalkIs`, `OnwardCollects`, by induction over places), so the responsible nodes are those with the nearest places (`OwnersAreNearest`); so a node that loses a content loses it to a newcomer (`LostToNewcomer`: otherwise it would have more owners before it than there are) |
| `FetchKeeps` | `FetchedIsKept` | whatever a peer or IPFS answers, a content for a storage item passes its hash (`OutcomePasses`); no step takes a stored content away |
| `CacheHolds` | `WarmCacheIsSound` | `RoomIsMade`: as long as no put is beside another, what the entries take and the put under way fit together, or its content alone is too large and the cache is empty (`EvictedIs`: evicting the oldest until enough is freed leaves room); `BegunIsWritten`: a file that is only begun has a put that still has its name; what entries take is a sum over a set (`SizeParts`), with the lemmas of `VmProofs` |

`TablesProofs.tla`, for any posts, amends, lists of authorizations, FORGETs, batches
and faults (`PostsAssumption`: envelopes are well formed, lists have distinct times);
any finite table, keys, page sizes and changes (`ListingAssumption`); any lists of
prices, discounts and tiers, and any VM (`PricingAssumption`: no price is negative, no
discount above the whole, the internet multiplier is at least 1):

| Theorem | Property | Assumes | Argument |
|---|---|---|---|
| `WritersKeepToTheirRights` | `WritersHadTheRight` | nothing more | `OwnerInv`: the original a handler found stays or is forgotten, and then only the backfill brings it back; `GrantInv`: the list in force is one that was in force; `ForeignInv`: as long as no list of the owner's or the chain's covers it, a foreign list is neither merged nor about to be |
| `ThreadsStayForgotten` | `ForgottenThreadIsGone` | nothing more | `ThreadInv`: what is still to be deleted shrinks statement by statement (`ErasingInv`); after the FORGET no amend passes validation (`FinishedInv`) |
| `ListsAreExact` | `ListIsExact` | `RowsFit`: u32 can count the rows and a page | `SweepInv`: a row that stayed and was not given yet has at least as many rows before it as the pages so far hold, so the next offset does not pass it; `OffsetInv`: no offset wraps; `CursorInv`: the cursor parts the rows given from those left; `TotalInv`: of an unchanged table, pages are as full as its rows make them and the total is their number |
| `QuotesHold` | `QuotesAgree` | nothing more | `OfOneList`: of each list there was, what was answered while it was in force are costs of it, though it is gone (an existential over lists); `UnderWay`: the same of the request being answered, lock by lock; costs grow with MiB and multiplier (`MoreCostsMore`); sorted places are ranks, a bijection by counting (`PlacesAre`), so the loop stops behind the highest threshold reached (`SortedReached`) |

`RowsFit` is needed: `(page - 1) * per_page` wraps, and a client of more rows than u32
counts would be given a page twice.

`ServicesProofs.tla`, for any processes and mishaps (`StartupAssumption`); any
messages, filters, requests, channel capacity and losses (`WebSocketAssumption`); any
copies, cache size and cuts (`P2pAssumption`); any messages, batch size, FORGETs,
crashes and errors (`BackfillAssumption`):

| Theorem | Property | Argument |
|---|---|---|
| `OneGetsThrough` | `SomebodyGetsThrough` | `OneIsFree`: while nobody is through, some process is at a statement nothing will refuse; a statement is refused only because another process has just done it and is free at its next one |
| `SchemaStaysWhole` | `SchemaIsWhole` | `PastIsMade`: what the statements before a process's place make is there; `TasksAreLate`: tasks are spawned after the last statement; `TriggerIsMissed`: without the trigger somebody is between DROP and CREATE or stopped there |
| `ClientsAreServed` | `ClientIsServed` | `Carried`, `Recalled`: a message is in the queue, the channel, under way or sent, or the loss is on record; `Locked`, `Hushed`: what is sent was matched under a filter the client has set, and after Unsubscribed only the one matched before |
| `NothingAckedIsLost` | `AckedWasInserted` | what the cache remembers was inserted or cut; removing the oldest entry keeps that of the others |
| `StartsRecover` | `BackfillRecovers` | `StepAdvances`: a step goes on in the order of steps, or its cursor grows; `RowsInv`: a message that stood when the pass began has its derived row, or its type is still to be walked and it is after the cursor, by a full batch at least once a batch is inserted, or one of the property's exceptions holds; `ColumnsInv`: the same for what later statements fill; `CountInv`: counts follow the trigger, key by key; `TriggerInv` |

Two things came to light in these proofs, and are corrected. `StandingAreRecovered`
said too much in one case: of a batch that ends between two rows of one time, the
second is skipped also when the first is deleted after the batch was read, so `cut`
holds messages, not types. And `backfill_fails` let an error of a cursor query skip
the type after it, which the code (an early return of that type only) does not.

Sums over sets, minimum and maximum of finite sets, walks of the ring and the
batches of the backfill are recursive functions or choices over data. What is
needed of them is proved by induction over numbers or finite sets in first-order
form (the least number of a set of counterexamples), once, as a lemma
(`TimesAreBounded`, `WalkIs`, `Greatest`).

Of the properties of passing runs, only model-checked: the liveness properties
(`PendingIsResolved`, `ForgetCompletes`, `GraceEnds`, `EventsAreSettled`, `FetchEnds`,
`PeersSettle`), which are out of the prover's reach, and what is said of
`MessageStatus`, which has no constants, so that TLC's run is exhaustive.
`Permissions` is operators only, used by
`Posts` and `MessageProcessor`.
`ForgetCompletes` is checked without faults: after one, a retried FORGET is
refused as a duplicate and its target stays in `messages`.

## 5. What the code does that its comments do not say

Met while modelling, in the modules as the code has it. The first four are
findings of PROJECT.json with a run each; these are the others worth knowing.

Tables nobody writes. `file_tags` is read by the by-ref endpoints
(`web/handlers.rs:4257`) and never written (STORE writes `file_tags_v2`).
`posts.amends` is never written, so `get_posts` lists amends as posts of their
own. `message_counts` is read by nobody.
The prices are never replaced by the aggregate (`update_from_aggregate` has no
caller, `services/cost.rs:190`).

Start-up. A failed migration, which includes a race of two `CREATE ... IF NOT
EXISTS`, leaves the node in API-only mode for good; in it `POST` answers 202 and
stores nothing. `run_migrations` of the configuration is not consulted.
`JobManager` and `NetworkService` are not started; `main.rs` binds a durable
queue "aleph-incoming" that has no consumer.

Backfill. A row that is not JSON aborts its whole type at every start. A message
that is still queued while its row is derived is then a duplicate for the
processor, and is never verified. Rows changed between the rebuild of the counts and the
trigger's return are not counted.

Answers. A failed query reads as "no row", or as the last page. A message can be
reported unknown for one request when it comes back to a table already read. A
message that chain sync inserted is "processed" before any handler has seen it.
The two GET endpoints disagree on a message rejected, later accepted and then
forgotten. `GET` price of a STORE looks the message's hash up in a column of
file hashes. The comment above `get_message_price` (`web/handlers.rs:3380`) says it
reads `account_costs` first; it never does, though STORE, PROGRAM and INSTANCE write
them. Offsets of page 0 wrap around `u32`.

WebSocket. Clients get gossip before it is verified (`docs/ARCHITECTURE.md:124` puts
it last). A message broadcast before a client connected and stored after its
history was read never reaches it.

Trust. A message that chain sync delivers skips the check of permissions as well as of
the signature (`handlers/mod.rs:430`), so that an update of "security" by anybody is
merged if it comes that way.

FORGET. Of a program or an instance it deletes the rows of all amendments, which stay in
`messages` and are not forgotten; an amendment applied and not yet recorded is gone
without a trace, and a price of a recorded one finds no program. A redelivery brings the
row of an amendment back only as long as the VM is there. In one batch with its post it marks the post and erases nothing if the
post is not stored yet. `latest_amend` is the amend processed last, not the
newest. A security aggregate whose content must be fetched is not serialised
(`jobs/message_processor.rs:176`).

Storage. A file cut short by a crash, an error of `write_all` or `sync_all` or a dropped
request is acknowledged by later stores of it; a cache file cut short, the error of
which is ignored, is served as it is. The
warm cache never gets back under its limit once two concurrent puts have
exceeded it, and `evict_expired` has no caller. `content_fetch` promises to
verify IPFS contents and does not; an outage of `MAX_RETRIES` rounds gives items
up for good. A failed discovery empties the ring until its next pass. A grace period
that begins between the collector's count and its DELETE goes with the expired one, and
its file stays for good.

P2P. A delivery cut between the cache and the INSERT is lost: its redelivery is a
duplicate. `AckedWasInserted` names the exception.

## 6. Not modelled

Signature and hash functions (which messages verify is a constant), the text of
queries, JSON parsing beyond "parses or not", logging, metrics, the endpoints for
metrics, statistics, balances and storage, RPC clients of chains, IPFS and Redis
clients (their failures and redelivery are actions), configuration, the
transaction packer, the balance tracker and the cron jobs (`main.rs` starts none
of them). `record_chain_confirmation_if_present` of the processor is left out. The third
chain loop (`run_with_db`) is left out.

## 7. Plan

Left, in this order.

1. `Aggregate`, extended: task cancellation, elements of one time, two FORGETs.
2. `Vm` composed with `FilePins`: what a FORGET of a STORE does to the VMs that use
   the file (`get_dependent_vms`); VMs that chain sync recorded first; the balance
   check of a paid STORE.
   STOREs that chain sync records before they have a row of `files`.
3. The order in which `TieredStorage` asks warm cache, peers and IPFS, over
   `WarmCache`, `FileStore` and `ContentRing`.
4. Lemmas about `Peers`, `MessageStatus` and `Permissions`.
