------------------------------- MODULE Ingester -------------------------------
(***************************************************************************)
(* The data path of one ingester process: the stream handlers that apply   *)
(* the operations of the write buffer (Kafka) to in-memory partitions, the *)
(* lifecycle manager that decides what to persist, the persist tasks it    *)
(* spawns, and the catalog and the object store they write to.  A crash    *)
(* loses the memory; the restarted process seeks every stream to the       *)
(* catalog's min_unpersisted_sequence_number and replays.                  *)
(*                                                                         *)
(* Sequence numbers are the write buffer's offsets plus one, so that 0 can *)
(* stand for the code's None.  `Some' batches, stats entries and maxima    *)
(* are the non-zero ones.                                                  *)
(***************************************************************************)
EXTENDS Integers, Sequences, FiniteSets, FiniteSetsExt

CONSTANTS
  Sequencer,      \* the sequencers (Kafka partitions) of this ingester
  Table,          \* tables
  Partition,      \* partitions: a (sequencer, table, partition key) each
  SequencerOf,    \* the sequencer of a partition
  TableOf,        \* the table of a partition
  Sizes,          \* the memory sizes a table's batch can have
  Stops,          \* the ends of the ranges a delete's predicate covers
  PauseSize,      \* LifecycleConfig::pause_ingest_size
  MemThreshold,   \* LifecycleConfig::persist_memory_threshold
  PartSize,       \* LifecycleConfig::partition_size_threshold
  MaxSeq,         \* bound: operations per sequencer
  MaxCrashes,     \* bound: crashes of the process
  MaxFailures     \* bound: operations that fail to apply

ASSUME ShardingAssumption ==
  /\ SequencerOf \in [Partition -> Sequencer]
  /\ TableOf \in [Partition -> Table]

\* The catalog lists finitely many partitions.
ASSUME FiniteAssumption == IsFiniteSet(Partition)

ASSUME SizesAssumption == Sizes \subseteq Nat \ {0} /\ Stops \subseteq Nat

\* LifecycleConfig::new asserts the order of the two memory limits.
ASSUME ConfigAssumption ==
  /\ PauseSize \in Nat /\ MemThreshold \in Nat /\ PartSize \in Nat
  /\ PauseSize > MemThreshold
  /\ MaxSeq \in Nat /\ MaxCrashes \in Nat /\ MaxFailures \in Nat

VARIABLES
  \* the write buffer
  log,            \* per sequencer, the operations read so far by anyone
  \* the stream handler of a sequencer
  next,           \* the sequence number it reads next
  remaining,      \* partitions of the current operation not yet applied
  logged,         \* partitions whose log_write is done and whose
                  \* buffer_write is not: their table lock is held
  pausing,        \* a log_write of the operation asked for a pause
  \* the partitions in memory (TableData, PartitionData, DataBuffer)
  known,          \* partitions that have been inserted
  maxPersisted,   \* max_persisted_sequence_number
  buf,            \* buffer and snapshots: what is not persisting
  persisting,     \* the persisting batch
  \* the lifecycle state and the manager's pass
  first,          \* first_sequence_number of a partition's stats entry
  bytes,          \* its bytes_written
  total,          \* total_bytes
  toPersist,      \* partitions chosen by this pass, not yet spawned
  task,           \* the state of a partition's persist task
  usage,          \* the memory that task gives back when it ends
  target,         \* the min_unpersisted_sequence_number this pass will write
  \* what survives a crash
  files,          \* the catalog's parquet files of a partition
  objects,        \* the object store
  minUnpersisted, \* the catalog's min_unpersisted_sequence_number
  \* history and bounds
  gone,           \* rows dropped by a failed apply or erased by a delete
  copies,         \* per row, the catalogued files that were made with it
  crashes, failures

streamVars    == <<log, next, remaining, logged, pausing>>
memoryVars    == <<known, maxPersisted, buf, persisting>>
statsVars     == <<first, bytes, total>>
managerVars   == <<toPersist, task, usage, target>>
durableVars   == <<files, objects, minUnpersisted>>
historyVars   == <<gone, copies, crashes, failures>>
vars == <<streamVars, memoryVars, statsVars, managerVars, durableVars, historyVars>>

-------------------------------------------------------------------------------
(* Operations of the write buffer *)

PartitionsOf(k) == {p \in Partition : SequencerOf[p] = k}

\* A write has one partition key, hence at most one partition of each table.
Writes(k) ==
  {[kind |-> "write", parts |-> P, size |-> n, stop |-> 0] :
     n \in Sizes,
     P \in {Q \in SUBSET PartitionsOf(k) :
              Q # {} /\ \A p, q \in Q : TableOf[p] = TableOf[q] => p = q}}

\* A delete names a table; its predicate covers the rows written up to `stop'.
Deletes(k) ==
  {[kind |-> "delete", parts |-> {p \in PartitionsOf(k) : TableOf[p] = t},
    size |-> 0, stop |-> b] : t \in Table, b \in Stops}

Operation(k) == Writes(k) \cup Deletes(k)

\* The operation a stream handler is applying, and its sequence number.
Cur(k) == next[k] - 1
CurOp(k) == log[k][Cur(k)]

\* Row s of partition p: what write s put there.
Hit(s, p) ==
  LET ops == log[SequencerOf[p]]
  IN  s \in 1 .. Len(ops) /\ ops[s].kind = "write" /\ p \in ops[s].parts

\* What is in memory of a partition and not persisting is at most one snapshot,
\* made by a delete, and after it the buffer.  `max' is the maximum that
\* min_max_sequence_numbers reports, that of the first of the two.
NoBatch == [rows |-> {}, max |-> 0, snapped |-> FALSE]
Batch == [rows : SUBSET (Nat \ {0}), max : Nat, snapped : BOOLEAN]

FileRows(p) == UNION {f.rows : f \in files[p]}

-------------------------------------------------------------------------------
(* Applying operations: SequencedStreamHandler, NamespaceData, TableData *)

\* The handler takes the next operation of the stream: one already in the log
\* when it replays, a new one otherwise.
Receive(k, op) ==
  /\ remaining[k] = {} /\ ~pausing[k]
  /\ \/ next[k] <= Len(log[k]) /\ op = log[k][next[k]] /\ UNCHANGED log
     \/ /\ next[k] = Len(log[k]) + 1 /\ next[k] <= MaxSeq
        /\ log' = [log EXCEPT ![k] = Append(@, op)]
  /\ next' = [next EXCEPT ![k] = @ + 1]
  /\ remaining' = [remaining EXCEPT ![k] = op.parts]
  /\ UNCHANGED <<logged, pausing, memoryVars, statsVars, managerVars,
                 durableVars, historyVars>>

\* The handler reaches a table of the current write.
AtTable(k, p) ==
  /\ p \in remaining[k] /\ CurOp(k).kind = "write"
  /\ logged \cap PartitionsOf(k) = {}

\* insert_partition loads the maximum over the catalog's files.
CatalogMax(p) == IF files[p] = {} THEN 0 ELSE Max({f.max : f \in files[p]})
PersistedMax(p) == IF p \in known THEN maxPersisted[p] ELSE CatalogMax(p)
InsertPartition(p) ==
  /\ known' = known \cup {p}
  /\ maxPersisted' = [maxPersisted EXCEPT ![p] = PersistedMax(p)]

\* Mutants: the comparison is off by one, either way.
AlreadyPersistedTooEarly(k, p) == PersistedMax(p) >= Cur(k) - 1
AlreadyPersistedTooLate(k, p) == PersistedMax(p) > Cur(k)

AlreadyPersisted(k, p) == PersistedMax(p) >= Cur(k)

SkipWrite(k, p) ==
  /\ AtTable(k, p)
  /\ AlreadyPersisted(k, p)
  /\ InsertPartition(p)
  /\ remaining' = [remaining EXCEPT ![k] = @ \ {p}]
  /\ UNCHANGED <<log, next, logged, pausing, buf, persisting, statsVars,
                 managerVars, durableVars, historyVars>>

LogWrite(k, p) ==
  /\ AtTable(k, p)
  /\ ~AlreadyPersisted(k, p)
  /\ InsertPartition(p)
  /\ first' = [first EXCEPT ![p] = IF @ = 0 THEN Cur(k) ELSE @]
  /\ bytes' = [bytes EXCEPT ![p] = @ + CurOp(k).size]
  /\ total' = total + CurOp(k).size
  /\ pausing' = [pausing EXCEPT ![k] = @ \/ total' > PauseSize]
  /\ logged' = logged \cup {p}
  /\ UNCHANGED <<log, next, remaining, buf, persisting, managerVars,
                 durableVars, historyVars>>

\* A write raises the maximum of the buffer, which a snapshot hides.
Raised(b, s) == IF b.snapped THEN b.max ELSE s

BufferWrite(k, p) ==
  /\ p \in logged /\ p \in remaining[k]
  /\ buf' = [buf EXCEPT ![p] = [rows |-> @.rows \cup {Cur(k)},
                                 max |-> Raised(@, Cur(k)),
                                 snapped |-> @.snapped]]
  /\ remaining' = [remaining EXCEPT ![k] = @ \ {p}]
  /\ logged' = logged \ {p}
  /\ UNCHANGED <<log, next, pausing, known, maxPersisted, persisting, statsVars,
                 managerVars, durableVars, historyVars>>

\* An error drops what is left of the operation: the error is counted, the
\* handler goes on with the next operation and does not pause.
DropOperation(k) ==
  /\ failures < MaxFailures
  /\ failures' = failures + 1
  /\ remaining' = [remaining EXCEPT ![k] = {}]
  /\ pausing' = [pausing EXCEPT ![k] = FALSE]
  /\ gone' = gone \cup {<<Cur(k), p>> : p \in {q \in remaining[k] : CurOp(k).kind = "write"}}
  /\ UNCHANGED <<log, next, known, maxPersisted, persisting, statsVars,
                 managerVars, durableVars, copies, crashes>>

\* MutableBatch::extend_from fails on a buffer, after its maximum was raised.
HasBuffer(b) == b # NoBatch /\ (b.snapped => \E s \in b.rows : s > b.max)
BufferWriteError(k, p) ==
  /\ p \in logged /\ p \in remaining[k] /\ HasBuffer(buf[p])
  /\ buf' = [buf EXCEPT ![p].max = Raised(buf[p], Cur(k))]
  /\ logged' = logged \ {p}
  /\ DropOperation(k)

\* A catalog lookup fails: of a table, of a partition or of a tombstone.
CatalogError(k) ==
  /\ remaining[k] # {} /\ logged \cap PartitionsOf(k) = {}
  /\ CurOp(k).kind = "write" => ~(remaining[k] \subseteq known)
  /\ UNCHANGED <<buf, logged>>
  /\ DropOperation(k)

\* buffer_tombstone on every partition of the table that is in memory.
Matched(k, p) ==
  IF p \in CurOp(k).parts \cap known
  THEN {s \in buf[p].rows : s <= CurOp(k).stop} ELSE {}
\* Mutant: all rows are erased.
AfterDeleteAll(k, p) ==
  IF p \notin CurOp(k).parts \cap known THEN buf[p] ELSE NoBatch

AfterDelete(k, p) ==
  IF p \notin CurOp(k).parts \cap known \/ buf[p] = NoBatch THEN buf[p]
  ELSE IF buf[p].rows = Matched(k, p) THEN NoBatch
  ELSE [rows |-> buf[p].rows \ Matched(k, p), max |-> Cur(k), snapped |-> TRUE]

ApplyDelete(k) ==
  /\ remaining[k] # {} /\ CurOp(k).kind = "delete"
  /\ buf' = [p \in Partition |-> AfterDelete(k, p)]
  /\ gone' = gone \cup UNION {{<<s, p>> : s \in Matched(k, p)} : p \in Partition}
  /\ remaining' = [remaining EXCEPT ![k] = {}]
  /\ UNCHANGED <<log, next, logged, pausing, known, maxPersisted, persisting,
                 statsVars, managerVars, durableVars, copies, crashes, failures>>

\* pause_ingest polls can_resume_ingest.
Resume(k) ==
  /\ remaining[k] = {} /\ pausing[k]
  /\ total < PauseSize
  /\ pausing' = [pausing EXCEPT ![k] = FALSE]
  /\ UNCHANGED <<log, next, remaining, logged, memoryVars, statsVars,
                 managerVars, durableVars, historyVars>>

-------------------------------------------------------------------------------
(* The lifecycle manager: maybe_persist *)

BytesOf(P) == SumFunctionOnSet(bytes, P)

Tracked == {p \in Partition : first[p] # 0}

\* Mutant: the rule starts only above the pause limit.
PickedAbovePause(extra, rest, left) ==
  IF left <= PauseSize THEN extra = {}
  ELSE /\ \A p \in extra, q \in rest \ extra : bytes[p] >= bytes[q]
       /\ extra = rest \/ left - BytesOf(extra) < MemThreshold
       /\ extra = {} \/ \E p \in extra : /\ \A q \in extra : bytes[p] <= bytes[q]
                                         /\ left - BytesOf(extra \ {p}) >= MemThreshold

\* The partitions picked because memory is still short, largest first, until
\* the rest falls below the threshold.
PickedForMemory(extra, rest, left) ==
  IF left <= MemThreshold THEN extra = {}
  ELSE /\ \A p \in extra, q \in rest \ extra : bytes[p] >= bytes[q]
       /\ extra = rest \/ left - BytesOf(extra) < MemThreshold
       /\ extra = {} \/ \E p \in extra : /\ \A q \in extra : bytes[p] <= bytes[q]
                                         /\ left - BytesOf(extra \ {p}) >= MemThreshold

\* Mutants: max + 1 when nothing is kept, the entries kept are forgotten, the
\* entries of other sequencers are not filtered out.
NewMinMaxPlusOne(k, chosen, kept) ==
  LET mine == chosen \cap PartitionsOf(k)
      rest == kept \cap PartitionsOf(k)
  IN  IF mine = {} THEN 0
      ELSE IF rest # {} THEN Min({first[p] : p \in rest})
      ELSE Max({first[p] : p \in mine}) + 1
NewMinKeptForgotten(k, chosen, kept) ==
  LET mine == chosen \cap PartitionsOf(k)
  IN  IF mine = {} THEN 0 ELSE Max({first[p] : p \in mine})
NewMinUnfiltered(k, chosen, kept) ==
  IF chosen \cap PartitionsOf(k) = {} THEN 0
  ELSE IF kept # {} THEN Min({first[p] : p \in kept})
  ELSE Max({first[p] : p \in chosen})

\* The sequence number a pass that persists `chosen' and leaves `kept' writes
\* to the catalog for sequencer k; 0 when it persists nothing of k.
NewMinUnpersisted(k, chosen, kept) ==
  LET mine == chosen \cap PartitionsOf(k)
      rest == kept \cap PartitionsOf(k)
  IN  IF mine = {} THEN 0
      ELSE IF rest # {} THEN Min({first[p] : p \in rest})
      ELSE Max({first[p] : p \in mine})

\* No pass is running: every task was joined and every minimum written.
ManagerIdle ==
  /\ toPersist = {}
  /\ \A p \in Partition : task[p] = "none"
  /\ \A k \in Sequencer : target[k] = 0

\* `due' are the entries that are over their age or cold threshold.
MaybePersist(due) ==
  /\ ManagerIdle
  /\ LET over == due \cup {p \in Tracked : bytes[p] > PartSize}
         rest == Tracked \ over
     IN  \E extra \in SUBSET rest :
           /\ PickedForMemory(extra, rest, total - BytesOf(over))
           /\ toPersist' = over \cup extra
           /\ target' = [k \in Sequencer |->
                           NewMinUnpersisted(k, over \cup extra, rest \ extra)]
  /\ UNCHANGED <<streamVars, memoryVars, statsVars, task, usage, durableVars,
                 historyVars>>

\* Mutant: the entry stays in the stats.
SpawnPersistKeepStats(p) ==
  /\ p \in toPersist
  /\ toPersist' = toPersist \ {p}
  /\ usage' = [usage EXCEPT ![p] = bytes[p]]
  /\ task' = [task EXCEPT ![p] = "spawned"]
  /\ UNCHANGED <<streamVars, memoryVars, first, bytes, total, target, durableVars,
                 historyVars>>

\* The entry leaves the stats and the persist task starts.
SpawnPersist(p) ==
  /\ p \in toPersist
  /\ toPersist' = toPersist \ {p}
  /\ usage' = [usage EXCEPT ![p] = bytes[p]]
  /\ first' = [first EXCEPT ![p] = 0]
  /\ bytes' = [bytes EXCEPT ![p] = 0]
  /\ task' = [task EXCEPT ![p] = "spawned"]
  /\ UNCHANGED <<streamVars, memoryVars, total, target, durableVars, historyVars>>

\* Mutant: the position is written for every sequencer.
UpdateMinUnguarded(k) ==
  /\ toPersist = {} /\ \A p \in Partition : task[p] = "none"
  /\ minUnpersisted' = [minUnpersisted EXCEPT ![k] = target[k]]
  /\ target' = [target EXCEPT ![k] = 0]
  /\ UNCHANGED <<streamVars, memoryVars, statsVars, toPersist, task, usage,
                 files, objects, historyVars>>

\* update_min_unpersisted_sequence_number, after all tasks were joined.
UpdateMinUnpersisted(k) ==
  /\ toPersist = {} /\ \A p \in Partition : task[p] = "none"
  /\ target[k] # 0
  /\ minUnpersisted' = [minUnpersisted EXCEPT ![k] = target[k]]
  /\ target' = [target EXCEPT ![k] = 0]
  /\ UNCHANGED <<streamVars, memoryVars, statsVars, toPersist, task, usage,
                 files, objects, historyVars>>

-------------------------------------------------------------------------------
(* A persist task: Persister::persist.  Catalog and store calls are retried  *)
(* until they succeed.                                                       *)

\* Mutant: the lock is not taken.
TableUnlocked(p) == TRUE

\* The table lock is free: no write of that table is between log and buffer.
TableFree(p) ==
  \A q \in logged : ~(SequencerOf[q] = SequencerOf[p] /\ TableOf[q] = TableOf[p])

\* The buffer becomes the last snapshot.
Snapshots(b) == IF b = NoBatch THEN NoBatch ELSE [b EXCEPT !.snapped = TRUE]

SnapshotToPersisting(p) ==
  /\ task[p] = "spawned" /\ TableFree(p)
  /\ persisting[p] = NoBatch          \* the code panics otherwise
  /\ persisting' = [persisting EXCEPT ![p] = Snapshots(buf[p])]
  /\ buf' = [buf EXCEPT ![p] = NoBatch]
  /\ task' = [task EXCEPT ![p] = IF buf[p] = NoBatch THEN "release" ELSE "upload"]
  /\ UNCHANGED <<streamVars, known, maxPersisted, statsVars, toPersist, usage,
                 target, durableVars, historyVars>>

\* Mutant: the upload is left out.
UploadForgotten(p) ==
  /\ task[p] = "upload"
  /\ task' = [task EXCEPT ![p] = "catalog"]
  /\ UNCHANGED <<streamVars, memoryVars, statsVars, toPersist, usage, target,
                 durableVars, historyVars>>

Upload(p) ==
  /\ task[p] = "upload"
  /\ objects' = objects \cup {[part |-> p, data |-> persisting[p]]}
  /\ task' = [task EXCEPT ![p] = "catalog"]
  /\ UNCHANGED <<streamVars, memoryVars, statsVars, toPersist, usage, target,
                 files, minUnpersisted, historyVars>>

\* The count of the files made with a row, after one more with the rows of F.
OneMore(F) ==
  [r \in DOMAIN copies \cup F |->
     (IF r \in DOMAIN copies THEN copies[r] ELSE 0) + (IF r \in F THEN 1 ELSE 0)]

CreateParquetFile(p) ==
  /\ task[p] = "catalog"
  /\ files' = [files EXCEPT ![p] = @ \cup {persisting[p]}]
  /\ copies' = OneMore({<<s, p>> : s \in persisting[p].rows})
  /\ task' = [task EXCEPT ![p] = "mark"]
  /\ UNCHANGED <<streamVars, memoryVars, statsVars, toPersist, usage, target,
                 objects, minUnpersisted, gone, crashes, failures>>

\* Mutant: the batch is kept.
MarkPersistedKeepBatch(p) ==
  /\ task[p] = "mark" /\ TableFree(p)
  /\ maxPersisted' = [maxPersisted EXCEPT ![p] = persisting[p].max]
  /\ task' = [task EXCEPT ![p] = "release"]
  /\ UNCHANGED <<streamVars, known, buf, persisting, statsVars, toPersist, usage,
                 target, durableVars, historyVars>>

MarkPersisted(p) ==
  /\ task[p] = "mark" /\ TableFree(p)
  /\ maxPersisted' = [maxPersisted EXCEPT ![p] = persisting[p].max]
  /\ persisting' = [persisting EXCEPT ![p] = NoBatch]
  /\ task' = [task EXCEPT ![p] = "release"]
  /\ UNCHANGED <<streamVars, known, buf, statsVars, toPersist, usage, target,
                 durableVars, historyVars>>

\* Mutant: the memory is not given back.
ReleaseNothing(p) ==
  /\ task[p] = "release"
  /\ usage' = [usage EXCEPT ![p] = 0]
  /\ task' = [task EXCEPT ![p] = "none"]
  /\ UNCHANGED <<streamVars, memoryVars, statsVars, toPersist, target, durableVars,
                 historyVars>>

ReleaseMemory(p) ==
  /\ task[p] = "release"
  /\ total' = total - usage[p]
  /\ usage' = [usage EXCEPT ![p] = 0]
  /\ task' = [task EXCEPT ![p] = "none"]
  /\ UNCHANGED <<streamVars, memoryVars, first, bytes, toPersist, target,
                 durableVars, historyVars>>

-------------------------------------------------------------------------------
(* The process *)

Init ==
  /\ log = [k \in Sequencer |-> <<>>]
  /\ next = [k \in Sequencer |-> 1]
  /\ remaining = [k \in Sequencer |-> {}]
  /\ logged = {}
  /\ pausing = [k \in Sequencer |-> FALSE]
  /\ known = {}
  /\ maxPersisted = [p \in Partition |-> 0]
  /\ buf = [p \in Partition |-> NoBatch]
  /\ persisting = [p \in Partition |-> NoBatch]
  /\ first = [p \in Partition |-> 0]
  /\ bytes = [p \in Partition |-> 0]
  /\ total = 0
  /\ toPersist = {}
  /\ task = [p \in Partition |-> "none"]
  /\ usage = [p \in Partition |-> 0]
  /\ target = [k \in Sequencer |-> 0]
  /\ files = [p \in Partition |-> {}]
  /\ objects = {}
  /\ minUnpersisted = [k \in Sequencer |-> 1]
  /\ gone = {} /\ copies = [r \in {} |-> 0] /\ crashes = 0 /\ failures = 0

\* Mutant: the restart reads from the head of the stream.
SeekHead == [k \in Sequencer |-> Len(log[k]) + 1]
\* IngestHandlerImpl::new seeks every stream to the catalog's minimum.
SeekPosition == minUnpersisted

CrashAndRestart ==
  /\ crashes < MaxCrashes /\ crashes' = crashes + 1
  /\ remaining' = [k \in Sequencer |-> {}]
  /\ logged' = {}
  /\ pausing' = [k \in Sequencer |-> FALSE]
  /\ known' = {}
  /\ maxPersisted' = [p \in Partition |-> 0]
  /\ buf' = [p \in Partition |-> NoBatch]
  /\ persisting' = [p \in Partition |-> NoBatch]
  /\ first' = [p \in Partition |-> 0]
  /\ bytes' = [p \in Partition |-> 0]
  /\ total' = 0
  /\ toPersist' = {}
  /\ task' = [p \in Partition |-> "none"]
  /\ usage' = [p \in Partition |-> 0]
  /\ target' = [k \in Sequencer |-> 0]
  /\ next' = SeekPosition
  /\ UNCHANGED <<log, durableVars, gone, copies, failures>>

StreamStep(k) ==
  \/ \E op \in Operation(k) : Receive(k, op)
  \/ \E p \in PartitionsOf(k) : SkipWrite(k, p) \/ LogWrite(k, p) \/ BufferWrite(k, p)
  \/ ApplyDelete(k)

StreamError(k) ==
  \/ \E p \in PartitionsOf(k) : BufferWriteError(k, p)
  \/ CatalogError(k)

PersistStep(p) ==
  \/ SnapshotToPersisting(p)
  \/ Upload(p)
  \/ CreateParquetFile(p)
  \/ MarkPersisted(p)
  \/ ReleaseMemory(p)

Next ==
  \/ \E k \in Sequencer : StreamStep(k) \/ StreamError(k) \/ Resume(k)
  \/ \E due \in SUBSET Tracked : MaybePersist(due)
  \/ \E p \in Partition : SpawnPersist(p) \/ PersistStep(p)
  \/ \E k \in Sequencer : UpdateMinUnpersisted(k)
  \/ CrashAndRestart

Spec == Init /\ [][Next]_vars

-------------------------------------------------------------------------------
(* Properties *)

TaskState == {"none", "spawned", "upload", "catalog", "mark", "release"}

OpType == [kind : {"write", "delete"}, parts : SUBSET Partition, size : Nat, stop : Nat]

StreamType ==
  /\ log \in [Sequencer -> Seq(OpType)]
  /\ next \in [Sequencer -> Nat \ {0}]
  /\ remaining \in [Sequencer -> SUBSET Partition]
  /\ logged \subseteq Partition
  /\ pausing \in [Sequencer -> BOOLEAN]

MemoryType ==
  /\ known \subseteq Partition
  /\ maxPersisted \in [Partition -> Nat]
  /\ buf \in [Partition -> Batch]
  /\ persisting \in [Partition -> Batch]

StatsType ==
  /\ first \in [Partition -> Nat]
  /\ bytes \in [Partition -> Nat]
  /\ total \in Int

ManagerType ==
  /\ toPersist \subseteq Partition
  /\ task \in [Partition -> TaskState]
  /\ usage \in [Partition -> Nat]
  /\ target \in [Sequencer -> Nat]

DurableType ==
  /\ files \in [Partition -> SUBSET Batch]
  /\ objects \subseteq [part : Partition, data : Batch]
  /\ minUnpersisted \in [Sequencer -> Nat \ {0}]

HistoryType ==
  /\ gone \subseteq (Nat \ {0}) \X Partition
  /\ copies \in [DOMAIN copies -> Nat \ {0}]
  /\ crashes \in Nat /\ failures \in Nat

\* Every variable has the type of the code's field.
TypeOK ==
  /\ StreamType /\ MemoryType /\ StatsType
  /\ ManagerType /\ DurableType /\ HistoryType

\* A crash at any point loses nothing: a row that is in no catalogued file is
\* at or after the catalog's min_unpersisted_sequence_number, so that a restart
\* reads it again, and after every file of its partition, so that the replay
\* does not take it for persisted (TableData::buffer_table_write skips a write
\* at or below max_persisted_sequence_number).
Recoverable ==
  \A p \in Partition : \A s \in 1 .. Len(log[SequencerOf[p]]) :
    Hit(s, p) /\ <<s, p>> \notin gone /\ s \notin FileRows(p) =>
      /\ s >= minUnpersisted[SequencerOf[p]]
      /\ \A f \in files[p] : f.max < s

\* Whatever the interleaving of log_write, buffer_write, remove and
\* snapshot_to_persisting, a row the stream handler has passed is in a
\* catalogued file or in the partition's buffer, snapshots or persisting batch.
NothingLost ==
  \A p \in Partition : \A s \in 1 .. Len(log[SequencerOf[p]]) :
    LET k == SequencerOf[p]
    IN  Hit(s, p) /\ <<s, p>> \notin gone =>
          \/ s \in FileRows(p) \cup persisting[p].rows \cup buf[p].rows
          \/ s >= next[k]
          \/ s = Cur(k) /\ p \in remaining[k]

\* The rows that the sequence number of a batch or file accounts for.
Covered(b) == {s \in b.rows : s <= b.max}

\* A write that a file's max_sequence_number covers is in no other file that
\* covers it and in no batch in memory, crashes and replays included, except
\* the persisting batch between the catalog insert and mark_persisted.
CoveredOnce ==
  \A p \in Partition : \A f \in files[p] :
    /\ \A g \in files[p] : f # g => Covered(f) \cap Covered(g) = {}
    /\ Covered(f) \cap buf[p].rows = {}
    /\ task[p] # "mark" => Covered(f) \cap persisting[p].rows = {}

\* Without deletes a write is persisted at most once: "skip the write if it has
\* already been persisted" (TableData::buffer_table_write).
PersistedOnce ==
  \A p \in Partition :
    /\ \A f, g \in files[p] : f # g => f.rows \cap g.rows = {}
    /\ buf[p].rows \cap (FileRows(p) \cup persisting[p].rows) = {}
    /\ task[p] # "mark" => persisting[p].rows \cap FileRows(p) = {}

\* The panics of Persister::persist are unreachable: "Unable to snapshot while
\* persisting" and a partition whose namespace is not in memory.
NoPersistPanic ==
  \A p \in Partition :
    /\ task[p] = "spawned" => persisting[p] = NoBatch
    /\ p \in toPersist \/ task[p] # "none" => p \in known

\* A parquet file is catalogued only after its object is in the store, so a
\* crash between the two leaves an orphan object and never a dangling file.
CatalogBacked ==
  \A p \in Partition : \A f \in files[p] : [part |-> p, data |-> f] \in objects

\* total_bytes is the sum over the stats entries and the running persist tasks,
\* although log_write, remove and the release run under separate locks; so the
\* release never wraps below zero and nothing stays accounted for ever.
BytesAccounted ==
  total = BytesOf(Partition) + SumFunctionOnSet(usage, Partition)

\* The replay position in the catalog never moves backwards, although it is
\* computed from a snapshot of the stats that is stale when it is written.
MinUnpersistedNeverRetreats ==
  [][\A k \in Sequencer : minUnpersisted'[k] >= minUnpersisted[k]]_vars

\* What a reader of the write buffer and of the catalog sees: the rows written,
\* and those that the max_sequence_number of a file covers.
WrittenRows ==
  UNION {{<<s, p>> : s \in {n \in 1 .. Len(log[SequencerOf[p]]) : Hit(n, p)}} : p \in Partition}
SealedRows ==
  UNION {{<<s, p>> : s \in UNION {Covered(f) : f \in files[p]}} : p \in Partition}

Durable == INSTANCE DurableIngest WITH
  Exact <- Stops = {}, written <- WrittenRows, sealed <- SealedRows, lost <- gone,
  position <- minUnpersisted

\* The ingester keeps the promise of DurableIngest: a row is durable or given up
\* before the replay position passes it, a row that a file's max_sequence_number
\* covers goes into no further file, and without deletes no row goes into two,
\* although a crash may come between any two steps and the stream is replayed.
ImplementsDurableIngest == Durable!Spec

-------------------------------------------------------------------------------
(* Liveness.  Stream handlers, spawned tasks and the manager are tokio tasks *)
(* that run whenever they can, and a paused handler polls for ever.  Catalog *)
(* and store calls are retried until they succeed; that they do assumes that *)
(* no answer is lost after its effect: create_parquet is an INSERT, and its  *)
(* retry would meet FileExists for ever.  The manager's passes recur; that   *)
(* entries grow over their age is assumed only where it is needed.           *)

Fairness ==
  /\ \A k \in Sequencer : /\ WF_vars(StreamStep(k))
                          /\ WF_vars(Resume(k))
                          /\ WF_vars(UpdateMinUnpersisted(k))
  /\ WF_vars(MaybePersist({}))
  /\ \A p \in Partition : WF_vars(SpawnPersist(p)) /\ WF_vars(PersistStep(p))

FairSpec == Spec /\ Fairness

\* Time passes: a pass that finds every entry over its age threshold comes again
\* and again.
TimePasses == SF_vars(MaybePersist(Tracked))

\* Every row that reaches the ingester is persisted or given up, in spite of
\* crashes, replays and pauses, as entries grow over their age.
EventuallyDurable ==
  TimePasses =>
    \A p \in Partition : \A s \in 1 .. MaxSeq :
      Hit(s, p) ~> (s \in FileRows(p) \/ <<s, p>> \in gone)

\* A paused stream handler resumes, even if no entry is ever over its age or its
\* size: LifecycleConfig::new asserts pause_ingest_size > persist_memory_threshold, so
\* the memory rule of maybe_persist alone gets below the pause limit.
IngestResumes == \A k \in Sequencer : pausing[k] ~> ~pausing[k]

=============================================================================
