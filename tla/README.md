# A verification project for InfluxDB IOx

This directory holds TLA+ models of InfluxDB IOx, the TLC configurations that
check them and proofs checked by TLAPS. The models are written from the Rust
source; `PROJECT.json` maps every definition to the lines it models.

## The system

IOx is a time series store made of services around a catalog (Postgres), an
object store and a write buffer (Kafka).

| part | state | operations | hard behaviour |
| --- | --- | --- | --- |
| router (`router`, `sharder`) | schema and namespace caches | validate, create namespace, shard, enqueue | stale schema caches, partial success over shards |
| write buffer (`write_buffer`) | a log per sequencer; batches being aggregated | store, flush, stream, seek | reordering of aggregated results, offsets of a new stream |
| ingester (`ingester`) | partitions in memory, lifecycle stats, persist tasks | apply writes and deletes, pause, persist, mark, replay | crashes between any two steps, stale snapshots of the stats, per-table locks |
| write progress (`write_summary`, `ingester`) | min and max sequence numbers | collect over tables, decide readable or persisted | torn reads across tables, replay after restart |
| querier (`querier`) | caches of the catalog | query ingesters, reconcile with parquet files | cached catalog state older than the ingester's answer |
| compactor (`compactor`) | candidates and file groups | select, combine, replace in the catalog | files added while others are replaced |
| garbage collectors (`garbage_collector`, `compactor`) | object listing | list, check, delete | objects uploaded and not yet catalogued |
| catalog (`iox_catalog`) | tables of everything above | create or get, update, flag, delete | concurrent schema changes, transactions |
| cache system (`cache_system`) | entries, LRU and TTL indexes | get, set, remove, side load | loads racing with invalidation, pool limits |
| executor, tracker (`executor`, `tracker`) | task counts, cancellation | spawn, cancel, join | shutdown racing with spawn |

The rest (query engine, read buffer, parsers, data formats, gRPC plumbing,
observability, the embedded shell) transforms data without shared state of its
own; `PROJECT.json` lists each with the reason it is not modelled.

### How the parts interact

A router appends an operation to the log of a sequencer. An ingester's stream
handler reads the log in order and applies each operation to in-memory
partitions. The lifecycle manager persists partitions: compact, upload the
object, insert the file in the catalog, drop the batch. When a pass is done it
writes the sequencer's `min_unpersisted_sequence_number` to the catalog; a
restarted ingester seeks there and replays. Because a file can be in the catalog
while the position lags behind, the replay skips writes at or below the
partition's persisted maximum. That agreement between position, files and skip
test is the heart of the system's durability, and the core of this project.

## Modules

| module | what it is |
| --- | --- |
| `DurableIngest` | abstract promise of an ingester: a row that a file accounts for goes into no further file, and without deletes no row goes into two; the replay position moves forward over durable or given-up rows only |
| `Ingester` | the ingester's data path: stream handlers, partitions, lifecycle manager, persist tasks, catalog, crash and replay |
| `IngesterInv` | the inductive invariant `IndInv`, its conjuncts, and the invariants that rest on it |
| `MCIngester` + five cfgs | small instances of `Ingester` |
| `SumTheorems` | lemmas: sums over finite sets |
| `IngesterProofs` | lemmas for each action, the theorems, the refinement |
| `WriteProgress`, `MCWriteProgress` + seven cfgs | what GetWriteInfo answers while writes and deletes are applied, some fail, and partitions are persisted |

### Ingester

State: `log`, `next`, `remaining`, `logged`, `pausing` are the write buffer and a
stream handler (`stream_handler/handler.rs`, `NamespaceData::buffer_operation`);
`known`, `maxPersisted`, `buf`, `persisting` are `TableData`, `PartitionData` and
`DataBuffer` (`data.rs`); `first`, `bytes`, `total` the lifecycle state, and
`toPersist`, `task`, `usage`, `target` the manager's pass and its tasks
(`lifecycle.rs`); `files`, `objects`, `minUnpersisted` what survives a crash.
`gone`, `copies`, `crashes`, `failures` are history and bounds; `copies` counts, per
row, the files that were made with it.

Atomicity follows the code's locks and awaits. A write is applied one table at
a time; `log_write` and `buffer_write` are two steps, between which the table's
lock is held (`logged`, `TableFree`) but the manager runs. A pass snapshots the
stats and computes the position it will write (`MaybePersist`), removes each
entry and spawns its task (`SpawnPersist`); a task snapshots, uploads, inserts
the file, marks the partition and releases its memory in five steps; the
position is written when all tasks have ended (`UpdateMinUnpersisted`).
`CrashAndRestart` may happen between any two steps.

Data is abstracted to sequence numbers: a batch is the set of writes it holds
and the maximum it reports. What a partition has in memory and not persisting is
at most one snapshot, which a delete leaves, and after it the buffer; the
maximum of the two is the one `min_max_sequence_numbers` reports, that of the
first (`Raised`). A delete covers the writes up to `stop`.
Sequence numbers are the code's plus one, so that 0 stands for `None`. Any set
of entries may be over its age or cold threshold when a pass starts, since both
depend on time only; the size threshold and the memory rule, which picks the
largest of the other entries, are modelled as they are.

The write buffer is external: it delivers operations in order and can be read
again from any position. A failing `buffer_write` or catalog call drops the rest
of the operation, as `maybe_apply_op` does. Catalog and object store calls of
the persist path are retried for ever, so failing attempts are not steps. That
leaves out one outcome: the insert of a parquet file is a plain `INSERT`, so if it
commits and its answer is lost, the retry meets `FileExists` for ever and the
manager's pass never ends. Safety is not concerned; liveness is claimed for
catalogs that lose no answer. The update of the partition's sort key after the
insert (`data.rs:308-327`) is not modelled: no property depends on it.

### WriteProgress

`NamespaceData::progress` reads `buffering_sequence_number`, then each table
under its own lock, while the handler and persist tasks go on. The model has one
request that may be running (`reader`), the handler's steps per table, deletes,
operations that fail half way (a catalog call, or `buffer_write` after it raised
the maximum), the persist steps and restarts. A failed operation leaves what it
had buffered and drops its `ScopedSequenceNumber`; the rows it did not reach are
in `dropped`, the rows a delete removed in `erased`. A batch keeps both its own
maximum, which progress reads, and the one its file will record. How the position
advances is abstracted to what `Ingester` establishes: it moves over rows that
need no replay only.

## Runs

| run | instance | shows |
| --- | --- | --- |
| `replay` | 1 sequencer, 2 tables, 3 operations with deletes, 1 crash | recovery, no loss, no covered row twice, types, position never retreats, refinement of `DurableIngest` |
| `failures` | the same, 2 operations, 2 crashes, 1 failing operation | recovery with dropped operations, panics unreachable, no dangling file, exact memory accounting |
| `sequencers` | 2 sequencers that share a table, 3 writes each | `IndInv`, accounting, independence of positions |
| `live` | 1 sequencer, 2 writes of two sizes, 1 crash, fairness | a paused stream resumes; every row becomes durable as entries age |
| `duplicates` | as `replay` | a disagreement with the documentation, below |
| `progress` | 2 tables, 3 operations with deletes | an applied write is reported readable; an answer collected while the handler stands still is true |
| `progress_faults` | the same, 2 operations, 1 failing, 1 restart | the same of what the error did not drop |
| `progress_torn`, `progress_partial`, `progress_restart`, `progress_dropped`, `progress_forgotten` | the same | disagreements with the documentation, below |

Bounds. Three operations are the fewest with a file, a write behind it and one
that arrives during the pass, and the fewest with a write on either side of a
delete; two partitions the fewest where one is persisted and the other holds the
position back. With two sequencers, three writes each are the fewest where a
position computed from the other sequencer's entries would have to retreat. Two
crashes are the fewest where a replay is itself interrupted. `PauseSize` and
`MemThreshold` are set so that pauses and persisting for memory both happen
within those operations, and `PartSize` so that a pass may also keep an entry:
what is not due and not picked stays. In `live` the two sizes make the memory
rule choose, and `MemThreshold` is positive, so that it stops before everything
is persisted. `replay`, `failures` and `duplicates` use symmetry in the two
partitions, which are interchangeable; `live` does not.

Fairness (`live`). Handlers, tasks and the manager are tokio tasks and run when
they can (weak fairness); the manager's passes recur, with no entry needing to
be over its age or size (`MaybePersist({})`). `IngestResumes` holds under this
alone: the memory rule gets below the pause limit because `LifecycleConfig::new`
asserts `pause_ingest_size > persist_memory_threshold`. `EventuallyDurable` needs
in addition that time passes (`TimePasses`: passes that find every entry over its
age limit recur), which its statement says. Failures and crashes are not fair.

No run disables the deadlock check.

### Disagreements found

- `duplicates`: `min_max_sequence_numbers` takes the maximum of the first snapshot
  only. A delete makes a snapshot of what a partition holds; writes after it are
  above the maximum of the file they end in, so a replay from a position that
  lags behind does not skip them and they are persisted again.

The other five concern the answer of GetWriteInfo; `write_info.proto` promises
that a READABLE write is processed and readable, a PERSISTED one in parquet files
and a DURABLE one not yet processed.

- `progress_torn`: the number being buffered is read once, before the awaits on
  the tables' locks. A write that starts after it was read is not clamped, and
  counts as readable when one of its tables has it.
- `progress_partial`: `with_persisted` is not clamped. A write whose first table
  was persisted before its second is reached counts as persisted.
- `progress_restart`: during a replay, the persisted maximum of one partition
  speaks for writes to other partitions that are yet to be replayed.
- `progress_dropped`: a write that failed in its second table counts as readable
  and persisted by virtue of its first.
- `progress_forgotten`: a write that was applied and persisted behind a delete
  counts as not processed, since the file's maximum is the delete's.

`UndisturbedStatusHonest` therefore speaks of the rows that no error dropped and
no delete erased.
`AppliedIsReadable` is stated from the point where the process started to read:
writes before it are unknown to a restarted ingester until their partition is
loaded.

## Proofs

Proved for any sets of sequencers and tables, any finite set of partitions, any
limits and any bounds, from the assumptions `ShardingAssumption`,
`FiniteAssumption`, `SizesAssumption` and `ConfigAssumption` of `Ingester`:

| theorem | states |
| --- | --- |
| `Invariance` | `Spec => []IndInv` |
| `TypeCorrect`, `CrashLosesNothing`, `RowsAreKept`, `FilesHaveObjects`, `NoCoveredDuplicates`, `PersistNeverPanics` | `[]` of `TypeOK`, `Recoverable`, `NothingLost`, `CatalogBacked`, `CoveredOnce`, `NoPersistPanic` |
| `NoDuplicatesWithoutDeletes` | `Stops = {}` implies `Spec => []PersistedOnce`: the disagreement above needs a delete |
| `PositionNeverRetreats` | `Spec => MinUnpersistedNeverRetreats` |
| `MemoryIsAccounted`, `ReleaseNeverWraps` | `total_bytes` is exact, and what a task gives back is part of it |
| `RowsComeFromTheLog`, `CopiesAreCounted` | `[]RowsInv`, `[]CopiesInv`: what the refinement needs of rows and counts |
| `IngestIsDurable` | `Spec => ImplementsDurableIngest` |

`Recoverable` is not inductive. That the position written at the end of a pass
is safe rests on what has happened since it was computed, so `IndInv` adds:

- `PositionsInv`: position and pending target lie at or below the handler;
- `OrderInv`: in each partition, the rows a file covers lie below the persisting
  batch, which lies below the buffer, which lies below the handler (this makes the
  skip test right), and each covers its first rows;
- `PersistedInv`: the persisted maximum in memory is that of the files;
- `TaskInv`: what the state of a task says of batch, object and file;
- `StatsInv`: each buffered row has a stats entry at or before it, unless its
  task is about to take it, and entries lie above position and target;
- `LoggedInv`: what holds between `log_write` and `buffer_write`.

The proof has a lemma per action; what an action leaves alone is discharged by
frame lemmas. TypeOK is split in groups so that a leaf cites the one it needs.
Leaves without arithmetic name Zenon: tlapm's translation to SMT slows down with
the number of obligations a module sends there.

`AccountInv` (with sums from `SumTheorems`), `RowsInv` and `CopiesInv` are proved
on top of `IndInv`. The refinement maps a file to its rows, the rows its maximum
covers to `sealed`, and `copies` to itself; every step but `Receive`, the catalog
insert, the errors and deletes, and the update of the position stutters.

Only model-checked: everything about `WriteProgress`, and liveness (beyond the
prover).

## Plan

In this order; each with an MC module, runs and hazards from `PROJECT.json`:

1. `DataBuffer`: buffer, snapshots, persisting batch and tombstones as a query sees them.
2. `StreamHandler`: errors, reset and metrics of the read loop.
3. `ObjectGc`: lister, checker, deleter and the catalog cleanup against uploads; composes with the persist steps of `Ingester`.
4. `Compactor`: selection and replacement of files; abstract promise: rows are kept.
5. `QuerierView`: caches and reconciliation; abstract promise: a query sees each row once.
6. `CacheDriver`, `CacheBackends`: loads, invalidation, LRU pool, TTL.
7. `WriteAggregator`, `FileWriteBuffer`: implement the log `Ingester` assumes.
8. `RouterWrite`, `Catalog`: schema caches, namespace creation, shards.
9. `DedicatedExecutor`, tracker.
10. Proofs: the honest answers of `WriteProgress`, invariants of the modules above.
