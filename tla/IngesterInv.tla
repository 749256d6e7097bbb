------------------------------ MODULE IngesterInv ------------------------------
(***************************************************************************)
(* The inductive invariant behind the safety properties of Ingester.       *)
(* Recoverable and NothingLost are not inductive: they hold because of how *)
(* the sequence numbers in the stats, the batches, the files and the       *)
(* stream positions are ordered, which the conjuncts below spell out.      *)
(***************************************************************************)
EXTENDS Ingester

\* Stream positions.  While an operation is being applied, its number is at or
\* after the replay position, and so is what the running pass will write there.
PositionsOf(k) ==
    /\ \A s \in 1 .. Len(log[k]) : /\ log[k][s].parts \subseteq PartitionsOf(k)
                                   /\ log[k][s].kind = "delete" => Stops # {}
    /\ next[k] <= Len(log[k]) + 1
    /\ minUnpersisted[k] <= next[k]
    /\ target[k] < next[k]
    /\ target[k] # 0 => minUnpersisted[k] <= target[k]
    /\ remaining[k] # {} => /\ minUnpersisted[k] <= Cur(k)
                            /\ Cur(k) \in 1 .. Len(log[k])
                            /\ remaining[k] \subseteq CurOp(k).parts

PositionsInv == \A k \in Sequencer : PositionsOf(k)

\* A batch that reports its true maximum.
MaxOfAll(b) == \A s \in b.rows : s <= b.max

\* Batches and files of a partition start at increasing sequence numbers: the
\* first rows of each are covered by its maximum, and all rows are beyond the
\* maxima of what was persisted before.
OrderOf(p) ==
  LET k == SequencerOf[p] IN
    /\ \A s \in buf[p].rows : s < next[k] /\ persisting[p].max < s
    /\ buf[p].snapped => Stops # {}
    /\ ~buf[p].snapped => MaxOfAll(buf[p])
    /\ Stops = {} => MaxOfAll(persisting[p])
    /\ buf[p].rows # {} => Covered(buf[p]) # {}
    /\ persisting[p].rows # {} => Covered(persisting[p]) # {}
    /\ buf[p].max < next[k] /\ persisting[p].max < next[k]
    /\ p \in remaining[k] => buf[p].max < Cur(k) /\ persisting[p].max < Cur(k)
    /\ buf[p].rows = {} => buf[p] = NoBatch
    /\ persisting[p].rows = {} => persisting[p] = NoBatch
    /\ \A f \in files[p] :
         /\ f.max <= Len(log[k])
         /\ Stops = {} => MaxOfAll(f)
         /\ \A s \in buf[p].rows : f.max < s
         /\ task[p] # "mark" \/ f # persisting[p] => \A s \in persisting[p].rows : f.max < s
    /\ \A f, g \in files[p] : f # g => Covered(f) \cap Covered(g) = {}

OrderInv == \A p \in Partition : OrderOf(p)

\* What max_persisted_sequence_number knows of the files.
PersistedInv ==
  \A p \in known :
    /\ maxPersisted[p] = 0 \/ \E f \in files[p] : f.max = maxPersisted[p]
    /\ \A f \in files[p] :
         f.max <= maxPersisted[p] \/ (task[p] = "mark" /\ f = persisting[p])

\* Persist tasks, their batches and their objects.
TaskInv ==
  \A p \in Partition :
    /\ persisting[p] # NoBatch <=> task[p] \in {"upload", "catalog", "mark"}
    /\ task[p] \in {"catalog", "mark"} => [part |-> p, data |-> persisting[p]] \in objects
    /\ task[p] = "mark" => persisting[p] \in files[p]
    /\ p \in toPersist => task[p] = "none" /\ first[p] # 0
    /\ (first[p] # 0 \/ p \in toPersist \/ task[p] # "none" \/ buf[p] # NoBatch)
         => p \in known

\* Every buffered row has a stats entry that starts at or before it, unless the
\* partition's persist task is about to take it; entries start at or after the
\* replay position and after the position the running pass will write.
StatsInv ==
  \A p \in Partition : LET k == SequencerOf[p] IN
    /\ \A s \in buf[p].rows : task[p] = "spawned" \/ (first[p] # 0 /\ first[p] <= s)
    /\ first[p] < next[k]
    /\ first[p] # 0 => /\ minUnpersisted[k] <= first[p]
                       /\ p \in toPersist \/ target[k] <= first[p]

\* A write between log_write and buffer_write.
LoggedInv ==
  /\ \A p \in logged : LET k == SequencerOf[p] IN
       /\ p \in remaining[k] /\ CurOp(k).kind = "write" /\ p \in known
       /\ first[p] # 0 \/ task[p] = "spawned"
       /\ \A f \in files[p] : f.max < Cur(k)
  /\ \A p, q \in logged : SequencerOf[p] = SequencerOf[q] => p = q

\* The rows in batches and files, and the rows given up, are rows some write put
\* into their partition.
RowsInv ==
  \A p \in Partition :
    /\ \A s \in FileRows(p) \cup persisting[p].rows \cup buf[p].rows : Hit(s, p)
    /\ \A s \in Nat \ {0} : <<s, p>> \in gone => Hit(s, p)

\* The rows in files are the rows of which copies were counted.
DurableRows == UNION {{<<s, p>> : s \in FileRows(p)} : p \in Partition}
CopiesInv == DOMAIN copies = DurableRows

\* A partition without a persist task gives nothing back.
UsageInv == \A p \in Partition : task[p] = "none" => usage[p] = 0

AccountInv == BytesAccounted /\ UsageInv

\* An AtomicUsize never goes below zero: what a persist task gives back is part of
\* the total it is subtracted from.
NeverWraps == total \in Nat /\ \A p \in Partition : usage[p] <= total

\* The invariant that is inductive.
IndInv ==
  /\ TypeOK
  /\ PositionsInv
  /\ OrderInv
  /\ PersistedInv
  /\ TaskInv
  /\ StatsInv
  /\ LoggedInv
  /\ CatalogBacked
  /\ NothingLost
  /\ Recoverable

=============================================================================
