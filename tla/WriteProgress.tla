----------------------------- MODULE WriteProgress -----------------------------
(***************************************************************************)
(* What an ingester answers to GetWriteInfo: NamespaceData::progress walks  *)
(* the tables of a namespace, one lock at a time, while the stream handler  *)
(* applies writes and deletes, some of which fail, and partitions are       *)
(* persisted; WriteSummary::write_status turns the SequencerProgress it     *)
(* collects into `readable' or `persisted'.  One sequencer, one namespace.  *)
(* Sequence numbers are the code's plus one, so that 0 stands for None.     *)
(***************************************************************************)
EXTENDS Integers, Sequences, FiniteSetsExt

CONSTANTS
  Tables,         \* number of tables; a table is its place in the BTreeMap
  Partition,
  TableOf,        \* the table of a partition
  Stops,          \* the ends of the ranges a delete's predicate covers
  MaxSeq,         \* bound: operations
  MaxFailures,    \* bound: operations that fail to apply
  MaxRestarts     \* bound: crashes of the process

ASSUME WriteProgressAssumption ==
  /\ Tables \in Nat \ {0} /\ MaxSeq \in Nat /\ MaxFailures \in Nat /\ MaxRestarts \in Nat
  /\ TableOf \in [Partition -> 1 .. Tables] /\ Stops \subseteq Nat

VARIABLES
  log,            \* the operations of the write buffer
  next,           \* the sequence number the stream handler reads next
  remaining,      \* partitions the current operation has not reached
  buffering,      \* buffering_sequence_number
  known,          \* partitions in memory
  maxPersisted,   \* their max_persisted_sequence_number
  buf,            \* the snapshots and the buffer of a partition
  persisting,     \* its persisting batch
  files,          \* its catalogued files
  position,       \* min_unpersisted_sequence_number
  reader,         \* a running GetWriteInfo request
  erased,         \* rows removed by a delete
  dropped,        \* rows of failed operations
  origin,         \* where this process started to read
  failures, restarts

handlerVars == <<log, next, remaining, buffering>>
dataVars == <<known, maxPersisted, buf, persisting, files, position>>
historyVars == <<erased, dropped, origin, failures, restarts>>
vars == <<handlerVars, dataVars, reader, historyVars>>

-------------------------------------------------------------------------------
(* Operations and batches *)

\* A write has one partition key, hence at most one partition of each table.
Writes ==
  {[kind |-> "write", parts |-> P, stop |-> 0] :
     P \in {Q \in SUBSET Partition :
              Q # {} /\ \A p, q \in Q : TableOf[p] = TableOf[q] => p = q}}

\* A delete names a table; its predicate covers the rows written up to `stop'.
Deletes ==
  {[kind |-> "delete", parts |-> {p \in Partition : TableOf[p] = t}, stop |-> b] :
     t \in {TableOf[p] : p \in Partition}, b \in Stops}

CurOp == log[buffering]
Wrote(s, p) == s \in 1 .. Len(log) /\ log[s].kind = "write" /\ p \in log[s].parts

\* At most one snapshot, made by a delete, and after it the buffer.  Progress
\* looks at both; the file made of them takes the maximum of the first.
NoBatch == [rows |-> {}, min |-> 0, max |-> 0, fileMax |-> 0, snapped |-> FALSE]
Raised(b, s) == [b EXCEPT !.max = s, !.fileMax = IF b.snapped THEN @ ELSE s]
Extended(b, s) ==
  [Raised(b, s) EXCEPT !.rows = @ \cup {s}, !.min = IF b = NoBatch THEN s ELSE @]
HasBuffer(b) == b # NoBatch /\ (b.snapped => b.max > b.fileMax)

FileOf(b) == [rows |-> b.rows, max |-> b.fileMax]
FileRows(p) == UNION {f.rows : f \in files[p]}

-------------------------------------------------------------------------------
(* SequencerProgress *)

NoProgress == [min |-> 0, max |-> 0, persisted |-> 0, active |-> 0]

\* A number that is still being buffered hides itself and what follows; None
\* when nothing has completed.
Clamp(s, active) == IF active = 0 \/ s < active THEN s ELSE active - 1

\* Mutant: the maximum is kept.
WithBufferedMinOnly(pr, s) ==
  LET n == Clamp(s, pr.active)
  IN  IF n = 0 THEN pr ELSE [pr EXCEPT !.min = IF @ = 0 THEN n ELSE Min({@, n})]

WithBuffered(pr, s) ==
  LET n == Clamp(s, pr.active)
  IN  IF n = 0 THEN pr
      ELSE [pr EXCEPT !.min = IF @ = 0 THEN n ELSE Min({@, n}), !.max = Max({@, n})]

WithPersisted(pr, s) == [pr EXCEPT !.persisted = Max({@, s})]

\* Mutant: what the other has persisted is forgotten.
CombineBuffered(pr, other) ==
  LET b1 == IF other.min = 0 THEN pr ELSE WithBuffered(pr, other.min)
  IN  IF other.max = 0 THEN b1 ELSE WithBuffered(b1, other.max)

Combine(pr, other) ==
  LET b1 == IF other.min = 0 THEN pr ELSE WithBuffered(pr, other.min)
      b2 == IF other.max = 0 THEN b1 ELSE WithBuffered(b1, other.max)
  IN  IF other.persisted = 0 THEN b2 ELSE WithPersisted(b2, other.persisted)

IsEmpty(pr) == pr.min = 0 /\ pr.max = 0 /\ pr.persisted = 0
Readable(pr, s) == s <= pr.max \/ s <= pr.persisted

\* Mutant: what is still buffered does not matter.
PersistedAnyway(pr, s) == s <= pr.persisted
Persisted(pr, s) == s <= pr.persisted /\ (pr.min # 0 => s < pr.min)

\* TableData::progress: over the partitions in memory.
PartitionsOf(t) == {p \in known : TableOf[p] = t}
TableProgress(t) ==
  LET batches == UNION {{buf[p], persisting[p]} : p \in PartitionsOf(t)} \ {NoBatch}
      maxima == {maxPersisted[p] : p \in PartitionsOf(t)}
  IN  [min |-> IF batches = {} THEN 0 ELSE Min({b.min : b \in batches}),
       max |-> IF batches = {} THEN 0 ELSE Max({b.max : b \in batches}),
       persisted |-> IF maxima = {} THEN 0 ELSE Max(maxima), active |-> 0]

-------------------------------------------------------------------------------
(* The stream handler *)

\* History: the handler moved while a request was running.
Disturb == reader' = [reader EXCEPT !.still = FALSE]

\* ScopedSequenceNumber::new publishes the number before the first table.
Receive(op) ==
  /\ remaining = {} /\ buffering = 0
  /\ \/ next <= Len(log) /\ op = log[next] /\ UNCHANGED log
     \/ next = Len(log) + 1 /\ next <= MaxSeq /\ log' = Append(log, op)
  /\ next' = next + 1
  /\ remaining' = op.parts
  /\ buffering' = next
  /\ Disturb
  /\ UNCHANGED <<dataVars, historyVars>>

\* insert_partition loads the maximum over the catalog's files.
CatalogMax(p) == IF files[p] = {} THEN 0 ELSE Max({f.max : f \in files[p]})
PersistedMax(p) == IF p \in known THEN maxPersisted[p] ELSE CatalogMax(p)

\* buffer_table_write, under the table's lock.
BufferTableWrite(p) ==
  /\ p \in remaining /\ CurOp.kind = "write"
  /\ known' = known \cup {p}
  /\ maxPersisted' = [maxPersisted EXCEPT ![p] = PersistedMax(p)]
  /\ buf' = [buf EXCEPT ![p] = IF PersistedMax(p) >= buffering THEN @ ELSE Extended(@, buffering)]
  /\ remaining' = remaining \ {p}
  /\ Disturb
  /\ UNCHANGED <<log, next, buffering, persisting, files, position, historyVars>>

\* An error returns from buffer_operation: the tables that the operation has not
\* reached are left out, the ones before keep their rows.
DropOperation ==
  /\ failures < MaxFailures /\ failures' = failures + 1
  /\ remaining' = {}
  /\ dropped' = dropped \cup {<<buffering, p>> : p \in {q \in remaining : Wrote(buffering, q)}}
  /\ Disturb
  /\ UNCHANGED <<log, next, buffering, known, maxPersisted, persisting, files, position,
                 erased, origin, restarts>>

\* A catalog call fails: of a new table or partition, or of a tombstone.
CatalogError ==
  /\ remaining # {}
  /\ CurOp.kind = "write" => ~(remaining \subseteq known)
  /\ UNCHANGED buf
  /\ DropOperation

\* MutableBatch::extend_from fails on a buffer, after its maximum was raised.
BufferWriteError(p) ==
  /\ p \in remaining /\ CurOp.kind = "write"
  /\ PersistedMax(p) < buffering /\ HasBuffer(buf[p])
  /\ buf' = [buf EXCEPT ![p] = Raised(@, buffering)]
  /\ DropOperation

\* buffer_tombstone on every partition of the table that is in memory: what is
\* left of its batches is one snapshot, which reports the delete's number.
Matched(p) ==
  IF p \in CurOp.parts THEN {s \in buf[p].rows : s <= CurOp.stop} ELSE {}
AfterDelete(p) ==
  IF p \notin CurOp.parts \/ buf[p] = NoBatch THEN buf[p]
  ELSE IF buf[p].rows = Matched(p) THEN NoBatch
  ELSE [buf[p] EXCEPT !.rows = @ \ Matched(p), !.max = buffering, !.fileMax = buffering,
                      !.snapped = TRUE]

ApplyDelete ==
  /\ remaining # {} /\ CurOp.kind = "delete"
  /\ buf' = [p \in Partition |-> AfterDelete(p)]
  /\ erased' = erased \cup UNION {{<<s, p>> : s \in Matched(p)} : p \in Partition}
  /\ remaining' = {}
  /\ Disturb
  /\ UNCHANGED <<log, next, buffering, known, maxPersisted, persisting, files, position,
                 dropped, origin, failures, restarts>>

\* The ScopedSequenceNumber is dropped with the operation, failed or not.
FinishOperation ==
  /\ remaining = {} /\ buffering # 0
  /\ buffering' = 0
  /\ Disturb
  /\ UNCHANGED <<log, next, remaining, dataVars, historyVars>>

-------------------------------------------------------------------------------
(* Persistence *)

SnapshotToPersisting(p) ==
  /\ buf[p] # NoBatch /\ persisting[p] = NoBatch
  /\ persisting' = [persisting EXCEPT ![p] = buf[p]]
  /\ buf' = [buf EXCEPT ![p] = NoBatch]
  /\ UNCHANGED <<handlerVars, known, maxPersisted, files, position, reader, historyVars>>

CreateParquetFile(p) ==
  /\ persisting[p] # NoBatch /\ FileOf(persisting[p]) \notin files[p]
  /\ files' = [files EXCEPT ![p] = @ \cup {FileOf(persisting[p])}]
  /\ UNCHANGED <<handlerVars, known, maxPersisted, buf, persisting, position, reader,
                 historyVars>>

\* Mutant: the batch is dropped, the maximum is not raised.
MarkPersistedForgotten(p) ==
  /\ persisting[p] # NoBatch /\ FileOf(persisting[p]) \in files[p]
  /\ persisting' = [persisting EXCEPT ![p] = NoBatch]
  /\ UNCHANGED <<handlerVars, known, maxPersisted, buf, files, position, reader, historyVars>>

\* mark_persisted, under the table's lock.
MarkPersisted(p) ==
  /\ persisting[p] # NoBatch /\ FileOf(persisting[p]) \in files[p]
  /\ maxPersisted' = [maxPersisted EXCEPT ![p] = persisting[p].fileMax]
  /\ persisting' = [persisting EXCEPT ![p] = NoBatch]
  /\ UNCHANGED <<handlerVars, known, buf, files, position, reader, historyVars>>

\* The position moves over rows that need no replay (Ingester, Recoverable).
UpdateMinUnpersisted(n) ==
  /\ n > position /\ n < next
  /\ \A s \in 1 .. n - 1 : \A p \in Partition :
       Wrote(s, p) => s \in FileRows(p) \/ <<s, p>> \in erased \cup dropped
  /\ position' = n
  /\ UNCHANGED <<handlerVars, known, maxPersisted, buf, persisting, files, reader, historyVars>>

Idle == [at |-> 0, todo |-> {}, progress |-> NoProgress, still |-> FALSE, applied |-> 0]

Restart ==
  /\ restarts < MaxRestarts /\ restarts' = restarts + 1
  /\ next' = position /\ origin' = position /\ remaining' = {} /\ buffering' = 0 /\ known' = {}
  /\ maxPersisted' = [p \in Partition |-> 0]
  /\ buf' = [p \in Partition |-> NoBatch] /\ persisting' = [p \in Partition |-> NoBatch]
  /\ reader' = Idle
  /\ UNCHANGED <<log, files, position, erased, dropped, failures>>

-------------------------------------------------------------------------------
(* NamespaceData::progress.  `still' and `applied' are history: the handler  *)
(* has not moved since the request started, and how far it was then.         *)

\* Mutant: the number being buffered is not looked at.
StartIgnoringActive ==
  /\ reader.at = 0
  /\ reader' = [at |-> 1, todo |-> {TableOf[p] : p \in known}, progress |-> NoProgress,
                still |-> TRUE, applied |-> IF buffering = 0 THEN next - 1 ELSE next - 2]
  /\ UNCHANGED <<handlerVars, dataVars, historyVars>>

StartProgress ==
  /\ reader.at = 0
  /\ reader' = [at |-> 1, todo |-> {TableOf[p] : p \in known},
                progress |-> [NoProgress EXCEPT !.active = buffering],
                still |-> TRUE, applied |-> IF buffering = 0 THEN next - 1 ELSE next - 2]
  /\ UNCHANGED <<handlerVars, dataVars, historyVars>>

\* The tables that existed at the start, in the order of their names.
ReadTable ==
  /\ reader.at \in 1 .. Tables
  /\ reader' = [reader EXCEPT !.at = @ + 1,
                  !.progress = IF reader.at \in reader.todo
                               THEN Combine(@, TableProgress(reader.at)) ELSE @]
  /\ UNCHANGED <<handlerVars, dataVars, historyVars>>

Answered == reader.at = Tables + 1

Answer ==
  /\ Answered /\ reader' = Idle
  /\ UNCHANGED <<handlerVars, dataVars, historyVars>>

-------------------------------------------------------------------------------
Init ==
  /\ log = <<>> /\ next = 1 /\ remaining = {} /\ buffering = 0
  /\ known = {} /\ maxPersisted = [p \in Partition |-> 0]
  /\ buf = [p \in Partition |-> NoBatch] /\ persisting = [p \in Partition |-> NoBatch]
  /\ files = [p \in Partition |-> {}] /\ position = 1
  /\ reader = Idle /\ erased = {} /\ dropped = {}
  /\ origin = 1 /\ failures = 0 /\ restarts = 0

Next ==
  \/ \E op \in Writes \cup Deletes : Receive(op)
  \/ \E p \in Partition : \/ BufferTableWrite(p)
                          \/ BufferWriteError(p)
                          \/ SnapshotToPersisting(p)
                          \/ CreateParquetFile(p)
                          \/ MarkPersisted(p)
  \/ ApplyDelete
  \/ CatalogError
  \/ FinishOperation
  \/ \E n \in 1 .. MaxSeq : UpdateMinUnpersisted(n)
  \/ Restart
  \/ StartProgress
  \/ ReadTable
  \/ Answer

Spec == Init /\ [][Next]_vars

-------------------------------------------------------------------------------
(* Properties *)

\* Types of the fields; the numbers stay within the operations received.
TypeOK ==
  /\ next \in 1 .. Len(log) + 1 /\ Len(log) <= MaxSeq
  /\ remaining \subseteq Partition /\ buffering \in {0, next - 1}
  /\ known \subseteq Partition
  /\ \A p \in Partition :
       /\ maxPersisted[p] \in 0 .. Len(log)
       /\ \A b \in {buf[p], persisting[p]} : b.rows \subseteq b.min .. b.max /\ b.fileMax <= b.max
       /\ FileRows(p) \subseteq 1 .. Len(log)
  /\ position \in 1 .. Len(log) + 1 /\ origin \in 1 .. position
  /\ reader.at \in 0 .. Tables + 1 /\ reader.progress.min <= reader.progress.max

InMemory(s, p) == s \in buf[p].rows \cup persisting[p].rows

\* What write_status says of write s is true of the rows it put into partitions,
\* but for those in `lost': `readable' ones are in memory or in a file,
\* `persisted' ones in a file.
Honest(s, lost) ==
  \A p \in Partition : Wrote(s, p) /\ <<s, p>> \notin lost =>
    /\ Readable(reader.progress, s) => InMemory(s, p) \/ s \in FileRows(p)
    /\ Persisted(reader.progress, s) => s \in FileRows(p)

\* A request during which the stream handler does not move, in a process that
\* never restarted, is answered truthfully of every row that no delete erased and
\* no error dropped, whatever is persisted meanwhile: a write that is half way
\* over its tables is hidden, unless the part of it that is there has already
\* been persisted.
UndisturbedStatusHonest ==
  LET pr == reader.progress
  IN  Answered /\ reader.still /\ restarts = 0 /\ (pr.active # 0 => pr.persisted < pr.active)
        => \A s \in 1 .. Len(log) : Honest(s, erased \cup dropped)

\* A write that this process applied before the request started is reported
\* readable as long as one of its rows, not dropped by an error, is in memory or
\* accounted for by the max_sequence_number of a file, whatever is buffered,
\* deleted, persisted, moved or replayed while the tables are read.
AppliedIsReadable ==
  Answered => \A s \in origin .. reader.applied : \A p \in Partition :
    /\ Wrote(s, p) /\ <<s, p>> \notin dropped
    /\ InMemory(s, p) \/ \E f \in files[p] : s \in f.rows /\ s <= f.max
    => Readable(reader.progress, s)

\* write_info.proto: READABLE means "The ingester has processed the data in this
\* write and it is readable", PERSISTED that it is "completly persisted to
\* parquet files"; asked of every answer, deletes set aside.
StatusHonest == Answered => \A s \in 1 .. Len(log) : Honest(s, erased)

\* NamespaceData::progress claims to "Properly account for any sequence number
\* that is actively buffering": asked of requests with a write half way over its
\* tables and the stream handler standing still.
PartialWriteHidden ==
  Answered /\ reader.still /\ reader.progress.active # 0 => Honest(reader.progress.active, erased)

\* StatusHonest of the requests between two operations: in the instance with a
\* restart it is about the replay, in the one with a failing operation about what
\* the failure leaves behind.
StatusHonestBetweenWrites ==
  Answered /\ reader.still /\ reader.progress.active = 0
    => \A s \in 1 .. Len(log) : Honest(s, erased)

\* write_info.proto: DURABLE means "The ingester has not yet processed data in
\* this write"; asked of writes that this process applied before the request and
\* whose rows are all there.
DurableMeansUnprocessed ==
  Answered /\ ~IsEmpty(reader.progress) =>
    \A s \in origin .. reader.applied :
      /\ log[s].kind = "write"
      /\ \A p \in log[s].parts : InMemory(s, p) \/ s \in FileRows(p)
      => Readable(reader.progress, s)

=============================================================================
