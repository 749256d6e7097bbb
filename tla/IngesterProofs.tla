---------------------------- MODULE IngesterProofs ----------------------------
(***************************************************************************)
(* The safety properties of Ingester, proved for every value of the        *)
(* constants, and that it implements DurableIngest.                        *)
(***************************************************************************)
EXTENDS IngesterInv, SumTheorems, WellFoundedInduction

(***************************************************************************)
(* Minima and maxima of sets of natural numbers.                           *)
(***************************************************************************)

\* A non-empty set of natural numbers has a least element: Min is defined.
LEMMA MinNat ==
  ASSUME NEW S, S \subseteq Nat, S # {}
  PROVE  Min(S) \in S /\ \A y \in S : Min(S) <= y
<1> DEFINE R == {ss \in Nat \X Nat : ss[1] < ss[2]}
<1>1. R = OpToRel(<, Nat)
  BY Zenon DEF OpToRel
<1>2. IsWellFoundedOn(R, Nat)
  BY Zenon, <1>1, NatLessThanWellFounded
<1> HIDE DEF R
<1>3. \E x \in S : \A y \in S : ~(<<y, x>> \in R)
  BY Zenon, <1>2, WFMin
<1>4. \A x, y \in Nat : y < x => <<y, x>> \in R
  BY Zenon DEF R
<1>5. PICK x \in S : \A y \in S : ~(<<y, x>> \in R)
  BY Zenon, <1>3
<1>6. \A y \in S : ~(y < x)
  BY Zenon, <1>4, <1>5
<1>7. \A y \in S : x <= y
  BY <1>6
<1> QED
  BY Zenon, <1>7 DEF Min

\* A non-empty, bounded set of natural numbers has a greatest element.
LEMMA MaxNat ==
  ASSUME NEW S, S \subseteq Nat, S # {}, NEW b \in Nat, \A y \in S : y <= b
  PROVE  Max(S) \in S /\ \A y \in S : y <= Max(S)
<1> DEFINE U == {n \in Nat : \A y \in S : y <= n}
<1>1. U \subseteq Nat /\ U # {}
  BY Zenon
<1>2. Min(U) \in U /\ \A y \in U : Min(U) <= y
  BY Zenon, <1>1, MinNat
<1>3. Min(U) \in S
  <2> SUFFICES ASSUME Min(U) \notin S PROVE FALSE
    BY Zenon
  <2>1. \A y \in S : y < Min(U)
    BY <1>2
  <2>2. PICK z \in S : TRUE
    BY Zenon
  <2> DEFINE m == Min(U)
  <2>3. m \in Nat /\ \A y \in S : y < m /\ y \in Nat
    BY Zenon, <1>2, <2>1
  <2> HIDE DEF m
  <2>4. m - 1 \in Nat /\ \A y \in S : y <= m - 1
    BY <2>2, <2>3
  <2>5. m - 1 \in U /\ ~(m <= m - 1)
    BY <2>3, <2>4
  <2> QED
    BY Zenon, <1>2, <2>5 DEF m
<1>4. \E x \in S : \A y \in S : x >= y
  BY Zenon, <1>2, <1>3
<1> QED
  BY Zenon, <1>4 DEF Max

\* An empty sequence has no index.
LEMMA NothingInEmpty == \A s : s \notin 1 .. Len(<<>>)
<1>1. Len(<<>>) = 0
  OBVIOUS
<1>2. \A s : s \notin 1 .. 0
  OBVIOUS
<1> QED
  BY Zenon, <1>1, <1>2

\* The empty batch.
LEMMA NoBatchIsEmpty ==
  /\ NoBatch.rows = {} /\ NoBatch.max = 0 /\ NoBatch \in Batch /\ NoBatch.snapped = FALSE
  /\ MaxOfAll(NoBatch)
BY DEF NoBatch, Batch, MaxOfAll

\* A new ingester with an empty catalog satisfies the invariant.
LEMMA InitInv == Init => IndInv
<1> SUFFICES ASSUME Init PROVE IndInv
  BY Zenon
<1>1. /\ NoBatch.rows = {} /\ NoBatch.max = 0 /\ NoBatch \in Batch /\ NoBatch.snapped = FALSE
      /\ MaxOfAll(NoBatch)
  BY Zenon, NoBatchIsEmpty
<1>2. TypeOK
  <2>1. copies \in [DOMAIN copies -> Nat \ {0}]
    BY DEF Init
  <2> QED
    BY <1>1, <2>1 DEF Init, TypeOK, StreamType, MemoryType, StatsType, ManagerType, DurableType, HistoryType,
                      TaskState
<1>3. PositionsInv
  BY DEF Init, PositionsInv, PositionsOf
<1>4. PersistedInv /\ LoggedInv /\ CatalogBacked
  BY Zenon DEF Init, PersistedInv, LoggedInv, CatalogBacked
<1>5. TaskInv
  BY Zenon DEF Init, TaskInv
<1>6. OrderInv /\ StatsInv
  <2> SUFFICES ASSUME NEW p \in Partition
               PROVE  /\ OrderOf(p)
                      /\ \A s \in buf[p].rows : FALSE
                      /\ first[p] = 0 /\ next[SequencerOf[p]] = 1
    <3>1. 0 < 1
      OBVIOUS
    <3> QED
      BY Zenon, <3>1 DEF OrderInv, StatsInv
  <2>1. SequencerOf[p] \in Sequencer
    BY Zenon, ShardingAssumption
  <2>2. /\ buf[p] = NoBatch /\ persisting[p] = NoBatch /\ files[p] = {} /\ first[p] = 0
        /\ remaining[SequencerOf[p]] = {} /\ next[SequencerOf[p]] = 1
    <3>1. buf[p] = NoBatch /\ persisting[p] = NoBatch
      BY Zenon DEF Init
    <3>2. files[p] = {} /\ first[p] = 0
      BY Zenon DEF Init
    <3>3. remaining[SequencerOf[p]] = {} /\ next[SequencerOf[p]] = 1
      BY Zenon, <2>1 DEF Init
    <3> QED
      BY Zenon, <3>1, <3>2, <3>3
  <2>3. OrderOf(p)
    BY <1>1, <2>2 DEF OrderOf
  <2> QED
    BY Zenon, <1>1, <2>2, <2>3
<1>7. NothingLost /\ Recoverable
  <2> SUFFICES ASSUME NEW p \in Partition
               PROVE  \A s : s \notin 1 .. Len(log[SequencerOf[p]])
    BY Zenon DEF NothingLost, Recoverable
  <2>1. log[SequencerOf[p]] = <<>>
    BY Zenon, ShardingAssumption DEF Init
  <2> QED
    BY Zenon, <2>1, NothingInEmpty
<1> QED
  BY Zenon, <1>2, <1>3, <1>4, <1>5, <1>6, <1>7 DEF IndInv

\* A batch whose rows all lie beyond a file's maximum has none that the file covers.
LEMMA CoveredIsBelow ==
  ASSUME NEW f \in Batch, NEW b \in Batch, \A s \in b.rows : f.max < s
  PROVE  Covered(f) \cap b.rows = {}
<1>1. f.max \in Nat /\ b.rows \subseteq Nat
  BY DEF Batch
<1>2. \A s \in b.rows : ~(s <= f.max)
  BY <1>1
<1> QED
  BY Zenon, <1>2 DEF Covered

(***************************************************************************)
(* Type correctness.                                                       *)
(***************************************************************************)

\* The operations a sequencer delivers are well typed and touch only its own
\* partitions; a delete has a stop.
LEMMA OperationType ==
  ASSUME NEW k \in Sequencer, NEW op \in Operation(k)
  PROVE  /\ op \in OpType /\ op.parts \subseteq PartitionsOf(k)
         /\ op.kind = "delete" => Stops # {}
<1>1. CASE op \in Writes(k)
  BY <1>1, SizesAssumption DEF Writes, OpType, PartitionsOf
<1>2. CASE op \in Deletes(k)
  BY <1>2, SizesAssumption DEF Deletes, OpType, PartitionsOf
<1> QED
  BY Zenon, <1>1, <1>2 DEF Operation

\* The sequence number a pass computes is a natural number, and one of the
\* first sequence numbers of the entries it looked at.
LEMMA NewMinChoice ==
  ASSUME TypeOK, NEW k \in Sequencer, NEW chosen \in SUBSET Tracked, NEW kept \in SUBSET Tracked,
         NEW b \in Nat, \A p \in PartitionsOf(k) : first[p] <= b
  PROVE  LET n == NewMinUnpersisted(k, chosen, kept)
         IN  \/ chosen \cap PartitionsOf(k) = {} /\ n = 0
             \/ /\ \E p \in (chosen \cup kept) \cap PartitionsOf(k) : n = first[p]
                /\ \A p \in kept \cap PartitionsOf(k) : n <= first[p]
<1> DEFINE mine == chosen \cap PartitionsOf(k)
           rest == kept \cap PartitionsOf(k)
           n == NewMinUnpersisted(k, chosen, kept)
           M == {first[p] : p \in mine}
           R == {first[p] : p \in rest}
<1>1. M \subseteq Nat /\ R \subseteq Nat /\ \A y \in M : y <= b
  BY Zenon DEF TypeOK, StatsType, Tracked, PartitionsOf
<1>2. CASE mine = {}
  BY Zenon, <1>2 DEF NewMinUnpersisted
<1>3. CASE mine # {} /\ rest # {}
  <2>1. n = Min(R)
    BY Zenon, <1>3 DEF NewMinUnpersisted
  <2>2. R # {}
    BY Zenon, <1>3
  <2>3. Min(R) \in R /\ \A y \in R : Min(R) <= y
    BY Zenon, <1>1, <2>2, MinNat
  <2> QED
    BY Zenon, <2>1, <2>3
<1>4. CASE mine # {} /\ rest = {}
  <2>1. n = Max(M)
    BY Zenon, <1>4 DEF NewMinUnpersisted
  <2>2. M # {}
    BY Zenon, <1>4
  <2>3. Max(M) \in M
    BY Zenon, <1>1, <2>2, MaxNat
  <2> QED
    BY Zenon, <1>4, <2>1, <2>3
<1> QED
  BY Zenon, <1>2, <1>3, <1>4

(***************************************************************************)
(* What each conjunct of the invariant depends on: a step that leaves those *)
(* variables alone preserves it.                                           *)
(***************************************************************************)

\* A step that leaves a group of fields alone keeps their types.
LEMMA TypeFrame ==
  TypeOK => /\ UNCHANGED streamVars => StreamType'
            /\ UNCHANGED memoryVars => MemoryType'
            /\ UNCHANGED statsVars => StatsType'
            /\ UNCHANGED managerVars => ManagerType'
            /\ UNCHANGED durableVars => DurableType'
            /\ UNCHANGED historyVars => HistoryType'
<1> SUFFICES ASSUME TypeOK
             PROVE  /\ UNCHANGED streamVars => StreamType'
                    /\ UNCHANGED memoryVars => MemoryType'
                    /\ UNCHANGED statsVars => StatsType'
                    /\ UNCHANGED managerVars => ManagerType'
                    /\ UNCHANGED durableVars => DurableType'
                    /\ UNCHANGED historyVars => HistoryType'
  BY Zenon
<1>1. UNCHANGED streamVars => StreamType'
  <2> SUFFICES ASSUME UNCHANGED streamVars PROVE StreamType'
    BY Zenon
  <2>1. StreamType /\ UNCHANGED <<log, next, remaining, logged, pausing>>
    BY Zenon DEF TypeOK, streamVars
  <2> QED
    BY Zenon, <2>1 DEF StreamType
<1>2. UNCHANGED memoryVars => MemoryType'
  BY Zenon DEF TypeOK, memoryVars, MemoryType
<1>3. UNCHANGED statsVars => StatsType'
  BY Zenon DEF TypeOK, statsVars, StatsType
<1>4. UNCHANGED managerVars => ManagerType'
  BY Zenon DEF TypeOK, managerVars, ManagerType
<1>5. UNCHANGED durableVars => DurableType'
  BY Zenon DEF TypeOK, durableVars, DurableType
<1>6. UNCHANGED historyVars => HistoryType'
  BY Zenon DEF TypeOK, historyVars, HistoryType
<1> QED
  BY Zenon, <1>1, <1>2, <1>3, <1>4, <1>5, <1>6

\* A handler that only finishes partitions of its current operation keeps its
\* positions in order.
LEMMA PositionsOfFrame ==
  ASSUME NEW k \in Sequencer, PositionsOf(k), log'[k] = log[k], next'[k] = next[k],
         minUnpersisted'[k] = minUnpersisted[k], target'[k] = target[k],
         remaining'[k] \subseteq remaining[k]
  PROVE  PositionsOf(k)'
BY Zenon DEF PositionsOf, Cur, CurOp, PartitionsOf

\* Steps that touch neither the streams nor the replay positions keep PositionsInv.
LEMMA PositionsFrame ==
  ASSUME PositionsInv, UNCHANGED <<log, next, minUnpersisted, target, remaining>>
  PROVE  PositionsInv'
BY Zenon, PositionsOfFrame DEF PositionsInv

\* A step that leaves a partition's batches and files alone keeps their order.
LEMMA OrderOfFrame ==
  ASSUME NEW p \in Partition, OrderOf(p), UNCHANGED <<log, next>>,
         p \in remaining'[SequencerOf[p]] => p \in remaining[SequencerOf[p]],
         buf'[p] = buf[p], persisting'[p] = persisting[p], files'[p] = files[p],
         task'[p] = "mark" <=> task[p] = "mark"
  PROVE  OrderOf(p)'
BY Zenon DEF OrderOf, Cur, NoBatch

\* The same for all partitions.
LEMMA OrderFrame ==
  ASSUME OrderInv, UNCHANGED <<log, next, remaining, buf, persisting, files>>,
         \A p \in Partition : task'[p] = "mark" <=> task[p] = "mark"
  PROVE  OrderInv'
BY Zenon, OrderOfFrame DEF OrderInv

\* max_persisted_sequence_number stays right while the files and batches stay.
LEMMA PersistedFrame ==
  ASSUME PersistedInv, TypeOK, UNCHANGED <<known, maxPersisted, files, persisting>>,
         \A p \in Partition : task'[p] = "mark" <=> task[p] = "mark"
  PROVE  PersistedInv'
<1>1. known \subseteq Partition
  BY Zenon DEF TypeOK, MemoryType
<1> QED
  BY Zenon, <1>1 DEF PersistedInv

\* Steps outside persist and the buffers keep TaskInv.
LEMMA TaskFrame ==
  ASSUME TaskInv,
         UNCHANGED <<persisting, task, objects, files, toPersist, first, buf, known>>
  PROVE  TaskInv'
BY Zenon DEF TaskInv, NoBatch

\* Steps outside log_write, the buffers and the persist pass keep StatsInv.
LEMMA StatsFrame ==
  ASSUME StatsInv, UNCHANGED <<buf, first, next, minUnpersisted, toPersist, target>>,
         \A p \in Partition : task[p] = "spawned" => task'[p] = "spawned"
  PROVE  StatsInv'
BY Zenon DEF StatsInv

\* A write between log_write and buffer_write is disturbed by no other step
\* that leaves its stats entry and files alone.
LEMMA LoggedFrame ==
  ASSUME LoggedInv, TypeOK, UNCHANGED <<logged, remaining, log, next, known, first, files>>,
         \A p \in logged : task[p] = "spawned" => task'[p] = "spawned"
  PROVE  LoggedInv'
BY Zenon DEF LoggedInv, Cur, CurOp

\* Only persist changes the catalog files and the object store.
LEMMA CatalogFrame ==
  ASSUME CatalogBacked, UNCHANGED <<files, objects>>
  PROVE  CatalogBacked'
BY Zenon DEF CatalogBacked

\* Steps that move no row and no stream position lose nothing.
LEMMA NothingLostFrame ==
  ASSUME NothingLost, UNCHANGED <<log, gone, files, persisting, buf, next, remaining>>
  PROVE  NothingLost'
BY Zenon DEF NothingLost, Hit, FileRows, Cur

\* Steps that change neither the files nor the replay position stay recoverable.
LEMMA RecoverableFrame ==
  ASSUME Recoverable, UNCHANGED <<log, gone, files, minUnpersisted>>
  PROVE  Recoverable'
BY Zenon DEF Recoverable, Hit, FileRows

(***************************************************************************)
(* Every action preserves the invariant.                                   *)
(***************************************************************************)

\* Persister::persist, the upload: the batch's object exists before its record.
LEMMA UploadStep ==
  ASSUME IndInv, NEW p \in Partition, Upload(p)
  PROVE  IndInv'
<1> USE DEF IndInv
<1>1. /\ task[p] = "upload"
      /\ objects' = objects \cup {[part |-> p, data |-> persisting[p]]}
      /\ task' = [task EXCEPT ![p] = "catalog"]
      /\ UNCHANGED <<streamVars, memoryVars, statsVars, toPersist, usage, target, files,
                     minUnpersisted, historyVars>>
  BY Zenon DEF Upload
<1> USE DEF streamVars, memoryVars, statsVars, historyVars
<1>2. \A q \in Partition : /\ task'[q] = "mark" <=> task[q] = "mark"
                           /\ task[q] = "spawned" => task'[q] = "spawned"
  BY Zenon, <1>1 DEF TypeOK, ManagerType
<1>3. TypeOK'
  BY TypeFrame, <1>1 DEF TypeOK, MemoryType, ManagerType, DurableType, TaskState
<1>4. PositionsInv' /\ NothingLost' /\ Recoverable'
  BY Zenon, <1>1, PositionsFrame, NothingLostFrame, RecoverableFrame
<1>5. OrderInv' /\ PersistedInv' /\ StatsInv'
  BY Zenon, <1>1, <1>2, OrderFrame, PersistedFrame, StatsFrame
<1>6. LoggedInv'
  BY Zenon, <1>1, <1>2, LoggedFrame DEF TypeOK, StreamType
<1>7. TaskInv'
  BY <1>1 DEF TaskInv, TypeOK, NoBatch
<1>8. CatalogBacked'
  BY Zenon, <1>1 DEF CatalogBacked
<1> QED
  BY Zenon, <1>3, <1>4, <1>5, <1>6, <1>7, <1>8

\* The end of a persist task only gives its memory back to the total.
LEMMA ReleaseMemoryStep ==
  ASSUME IndInv, NEW p \in Partition, ReleaseMemory(p)
  PROVE  IndInv'
<1> USE DEF IndInv
<1>1. /\ task[p] = "release"
      /\ total' = total - usage[p]
      /\ usage' = [usage EXCEPT ![p] = 0]
      /\ task' = [task EXCEPT ![p] = "none"]
      /\ UNCHANGED <<streamVars, memoryVars, first, bytes, toPersist, target, durableVars, historyVars>>
  BY Zenon DEF ReleaseMemory
<1> USE DEF streamVars, memoryVars, statsVars, managerVars, durableVars, historyVars
<1>2. \A q \in Partition : /\ task'[q] = "mark" <=> task[q] = "mark"
                           /\ task[q] = "spawned" => task'[q] = "spawned"
  BY Zenon, <1>1 DEF TypeOK, ManagerType
<1>3. TypeOK'
  BY TypeFrame, <1>1 DEF TypeOK, StatsType, ManagerType, TaskState
<1>4. PositionsInv' /\ NothingLost' /\ Recoverable' /\ CatalogBacked'
  BY Zenon, <1>1, PositionsFrame, NothingLostFrame, RecoverableFrame, CatalogFrame
<1>5. OrderInv' /\ PersistedInv' /\ StatsInv'
  BY Zenon, <1>1, <1>2, OrderFrame, PersistedFrame, StatsFrame
<1>6. LoggedInv'
  BY Zenon, <1>1, <1>2, LoggedFrame DEF TypeOK, StreamType
<1>7. TaskInv'
  BY <1>1 DEF TaskInv, TypeOK, NoBatch
<1> QED
  BY Zenon, <1>3, <1>4, <1>5, <1>6, <1>7

\* mark_persisted drops a batch whose file is in the catalog.
LEMMA MarkPersistedStep ==
  ASSUME IndInv, NEW p \in Partition, MarkPersisted(p)
  PROVE  IndInv'
<1> USE DEF IndInv
<1>1. /\ task[p] = "mark"
      /\ maxPersisted' = [maxPersisted EXCEPT ![p] = persisting[p].max]
      /\ persisting' = [persisting EXCEPT ![p] = NoBatch]
      /\ task' = [task EXCEPT ![p] = "release"]
      /\ UNCHANGED <<streamVars, known, buf, statsVars, toPersist, usage, target, durableVars, historyVars>>
  BY Zenon DEF MarkPersisted
<1> USE DEF streamVars, memoryVars, statsVars, managerVars, durableVars, historyVars
<1>2. persisting[p] \in files[p] /\ persisting[p].rows # {} /\ p \in known
  BY Zenon, <1>1 DEF TaskInv, OrderInv, OrderOf
<1>3. TypeOK'
  BY Zenon, TypeFrame, <1>1 DEF TypeOK, MemoryType, ManagerType, TaskState, NoBatch, Batch
<1>4. PositionsInv' /\ Recoverable' /\ CatalogBacked'
  BY Zenon, <1>1, PositionsFrame, RecoverableFrame, CatalogFrame
<1>5. StatsInv'
  BY <1>1, StatsFrame DEF TypeOK
<1>6. LoggedInv'
  BY <1>1, LoggedFrame DEF TypeOK
<1>7. TaskInv'
  BY Zenon, <1>1 DEF TaskInv, TypeOK, MemoryType, ManagerType, NoBatch
<1>8. PersistedInv'
  <2> SUFFICES ASSUME NEW q \in known
               PROVE  /\ maxPersisted'[q] = 0 \/ \E f \in files[q] : f.max = maxPersisted'[q]
                      /\ \A f \in files[q] :
                           f.max <= maxPersisted'[q] \/ (task'[q] = "mark" /\ f = persisting'[q])
    BY Zenon, <1>1 DEF PersistedInv
  <2>1. CASE q # p
    BY <1>1, <2>1 DEF PersistedInv, TypeOK
  <2>2. CASE q = p
    <3>1. maxPersisted'[p] = persisting[p].max
      BY Zenon, <1>1 DEF TypeOK, MemoryType
    <3>2. ASSUME NEW f \in files[p], f # persisting[p] PROVE f.max <= persisting[p].max
      <4>1. PICK s \in persisting[p].rows : s <= persisting[p].max
        BY Zenon, <1>2 DEF OrderInv, OrderOf, Covered
      <4>2. f.max < s /\ s <= persisting[p].max
        BY Zenon, <1>2, <3>2, <4>1 DEF OrderInv, OrderOf
      <4>3. f.max \in Nat /\ s \in Nat /\ persisting[p].max \in Nat
        BY <4>1 DEF TypeOK, MemoryType, DurableType, Batch
      <4> QED
        BY <4>2, <4>3
    <3>3. persisting[p].max \in Nat
      BY Zenon DEF TypeOK, MemoryType, Batch
    <3> QED
      BY <1>2, <2>2, <3>1, <3>2, <3>3
  <2> QED
    BY Zenon, <2>1, <2>2
<1>9. OrderInv'
  <2> SUFFICES ASSUME NEW q \in Partition PROVE OrderOf(q)'
    BY Zenon DEF OrderInv
  <2>1. OrderOf(q) /\ SequencerOf[q] \in Sequencer
    BY Zenon, ShardingAssumption DEF OrderInv
  <2>2. CASE q # p
    BY ZenonT(30), <1>1, <2>1, <2>2, OrderOfFrame DEF TypeOK, MemoryType, ManagerType
  <2>3. CASE q = p
    <3>1. persisting'[q] = NoBatch /\ next[SequencerOf[q]] \in Nat \ {0}
      BY Zenon, <1>1, <2>1, <2>3 DEF TypeOK, StreamType, MemoryType
    <3>2. buf[q].max \in Nat /\ \A s \in buf[q].rows : s \in Nat \ {0}
      BY Zenon DEF TypeOK, MemoryType, Batch
    <3>3. NoBatch.rows = {} /\ NoBatch.max = 0
      BY Zenon DEF NoBatch
    <3>4. UNCHANGED <<log, next, remaining, buf, files>> /\ NoBatch' = NoBatch
      BY Zenon, <1>1 DEF NoBatch
    <3>5. MaxOfAll(NoBatch) /\ MaxOfAll(buf[q])' = MaxOfAll(buf[q]) /\ Covered(buf[q])' = Covered(buf[q])
      BY Zenon, <3>3, <3>4 DEF MaxOfAll, Covered
    <3>6. MaxOfAll(persisting[q])' /\ persisting'[q].rows = {}
      BY Zenon, <3>1, <3>3 DEF MaxOfAll
    <3>7. /\ \A f : MaxOfAll(f)' = MaxOfAll(f) /\ Covered(f)' = Covered(f)
      BY Zenon DEF MaxOfAll, Covered
    <3> HIDE DEF NoBatch
    <3> QED
      BY SMTT(30), <2>1, <3>1, <3>2, <3>3, <3>4, <3>5, <3>6, <3>7 DEF OrderOf, Cur
  <2> QED
    BY Zenon, <2>2, <2>3
<1>10. NothingLost'
  <2>1. \A q \in Partition : /\ FileRows(q)' = FileRows(q)
                             /\ persisting[q].rows \subseteq FileRows(q) \cup persisting'[q].rows
    BY <1>1, <1>2 DEF FileRows, TypeOK
  <2> QED
    BY ZenonT(30), <1>1, <2>1 DEF NothingLost, Hit, Cur
<1> QED
  BY Zenon, <1>3, <1>4, <1>5, <1>6, <1>7, <1>8, <1>9, <1>10

\* Counting the rows of one file more.
LEMMA OneFileMore ==
  ASSUME copies \in [DOMAIN copies -> Nat \ {0}], NEW F, copies' = OneMore(F)
  PROVE  /\ copies' \in [DOMAIN copies' -> Nat \ {0}]
         /\ DOMAIN copies' = DOMAIN copies \cup F
         /\ \A r \in DOMAIN copies' :
              copies'[r] = (IF r \in DOMAIN copies THEN copies[r] ELSE 0) + (IF r \in F THEN 1 ELSE 0)
<1>1. /\ DOMAIN copies' = DOMAIN copies \cup F
      /\ \A r \in DOMAIN copies' :
           copies'[r] = (IF r \in DOMAIN copies THEN copies[r] ELSE 0) + (IF r \in F THEN 1 ELSE 0)
  BY DEF OneMore
<1>2. \A r \in DOMAIN copies' : copies'[r] \in Nat \ {0}
  BY <1>1
<1>3. copies' = [r \in DOMAIN copies' |-> copies'[r]]
  BY DEF OneMore
<1> QED
  BY <1>1, <1>2, <1>3

\* Persister::persist, the catalog insert: the rows it adds were the oldest missing ones.
LEMMA CreateParquetFileStep ==
  ASSUME IndInv, NEW p \in Partition, CreateParquetFile(p)
  PROVE  IndInv'
<1> USE DEF IndInv
<1>1. /\ task[p] = "catalog"
      /\ files' = [files EXCEPT ![p] = @ \cup {persisting[p]}]
      /\ task' = [task EXCEPT ![p] = "mark"]
      /\ copies' = OneMore({<<s, p>> : s \in persisting[p].rows})
      /\ UNCHANGED <<streamVars, memoryVars, statsVars, toPersist, usage, target, objects, minUnpersisted,
                     gone, crashes, failures>>
  BY Zenon DEF CreateParquetFile
<1>0. HistoryType'
  BY ZenonT(30), <1>1, OneFileMore DEF TypeOK, HistoryType
<1> USE DEF streamVars, memoryVars, statsVars, managerVars, durableVars
<1> DEFINE b == persisting[p]  k == SequencerOf[p]
<1>2. /\ b.rows # {} /\ b \in Batch /\ k \in Sequencer
      /\ OrderOf(p) /\ files[p] \subseteq Batch /\ buf[p] \in Batch
      /\ \A s \in b.rows : \A f \in files[p] : f.max < s
  <2>1. b \in Batch /\ buf[p] \in Batch /\ files[p] \subseteq Batch
    BY Zenon DEF TypeOK, MemoryType, DurableType
  <2>2. k \in Sequencer /\ OrderOf(p)
    BY Zenon, ShardingAssumption DEF OrderInv
  <2>3. b.rows # {}
    BY Zenon, <1>1, <2>2 DEF TaskInv, OrderOf
  <2> QED
    BY Zenon, <1>1, <2>1, <2>2, <2>3 DEF OrderOf
<1>3. TypeOK'
  BY TypeFrame, <1>0, <1>1 DEF TypeOK, MemoryType, ManagerType, DurableType, TaskState
<1>4. PositionsInv'
  BY Zenon, <1>1, PositionsFrame
<1>5. StatsInv'
  <2>1. \A q \in Partition : task[q] = "spawned" => task'[q] = "spawned"
    BY Zenon, <1>1 DEF TypeOK, ManagerType
  <2> QED
    BY Zenon, <1>1, <2>1, StatsFrame
<1>6. TaskInv'
  BY <1>1 DEF TaskInv, TypeOK, DurableType, NoBatch
<1>7. PersistedInv'
  BY <1>1 DEF PersistedInv, TypeOK, ManagerType
<1>8. CatalogBacked'
  BY ZenonT(30), <1>1 DEF CatalogBacked, TaskInv, TypeOK, DurableType
<1>9. LoggedInv'
  BY <1>1 DEF LoggedInv, OrderInv, OrderOf, TypeOK, MemoryType, StreamType, DurableType, Cur, CurOp
<1>10. OrderInv'
  <2> SUFFICES ASSUME NEW q \in Partition PROVE OrderOf(q)'
    BY Zenon DEF OrderInv
  <2>1. OrderOf(q)
    BY Zenon DEF OrderInv
  <2>2. CASE q # p
    BY <1>1, <2>1, <2>2, OrderOfFrame DEF TypeOK
  <2>3. CASE q = p
    <3>1. files'[p] = files[p] \cup {b} /\ task'[p] = "mark"
      BY Zenon, <1>1 DEF TypeOK, ManagerType, DurableType
    <3>2. b.max <= Len(log[k])
      <4>1. b.max \in Nat /\ Len(log[k]) \in Nat /\ next[k] \in Nat
        BY <1>2 DEF TypeOK, StreamType, Batch
      <4>2. b.max < next[k] /\ next[k] <= Len(log[k]) + 1
        BY Zenon, <1>2 DEF OrderOf, PositionsInv, PositionsOf
      <4> QED
        BY <4>1, <4>2
    <3>3. \A f \in files[p] : Covered(f) \cap Covered(b) = {}
      <4> SUFFICES ASSUME NEW f \in files[p], NEW s \in f.rows, s \in b.rows, s <= f.max PROVE FALSE
        BY Zenon DEF Covered
      <4>1. s <= f.max /\ f.max < s
        BY Zenon, <1>2
      <4>2. s \in Nat /\ f.max \in Nat
        BY Zenon, <1>2 DEF Batch
      <4> QED
        BY <4>1, <4>2
    <3>4. OrderOf(p)'
      BY Zenon, <1>1, <1>2, <3>1, <3>2, <3>3 DEF OrderOf, Cur, NoBatch, MaxOfAll, Covered
    <3> QED
      BY Zenon, <2>3, <3>4
  <2> QED
    BY Zenon, <2>2, <2>3
<1>11. \A q \in Partition : FileRows(q) \subseteq FileRows(q)'
  BY <1>1 DEF FileRows, TypeOK
<1>12. NothingLost'
  BY Zenon, <1>1, <1>11 DEF NothingLost, Hit, Cur
<1>13. Recoverable'
  <2> SUFFICES ASSUME NEW q \in Partition, NEW s \in 1 .. Len(log[SequencerOf[q]]),
                      Hit(s, q), <<s, q>> \notin gone, s \notin FileRows(q)'
               PROVE  /\ s >= minUnpersisted[SequencerOf[q]]
                      /\ \A f \in files'[q] : f.max < s
    BY Zenon, <1>1 DEF Recoverable, Hit
  <2>1. s \notin FileRows(q)
    BY Zenon, <1>11
  <2>2. s >= minUnpersisted[SequencerOf[q]] /\ \A f \in files[q] : f.max < s
    BY Zenon, <2>1 DEF Recoverable
  <2>3. CASE q # p
    BY <1>1, <2>2, <2>3 DEF TypeOK
  <2>4. CASE q = p
    <3>1. files'[p] = files[p] \cup {b}
      BY Zenon, <1>1 DEF TypeOK, DurableType
    <3>2. s \notin b.rows
      BY Zenon, <2>4, <3>1 DEF FileRows
    <3>3. s \in buf[p].rows \/ s >= next[k] \/ (s = Cur(k) /\ p \in remaining[k])
      BY Zenon, <2>1, <2>4, <3>2 DEF NothingLost
    <3>4. b.max \in Nat /\ next[k] \in Nat /\ s \in Nat
      <4>1. b.max \in Nat /\ next[k] \in Nat \ {0}
        BY ZenonT(30), <1>2 DEF TypeOK, StreamType, Batch
      <4> HIDE DEF IndInv
      <4> QED
        BY <4>1
    <3>5. b.max < s
      BY <1>2, <3>3, <3>4 DEF OrderOf
    <3> QED
      BY Zenon, <2>2, <2>4, <3>1, <3>5
  <2> QED
    BY Zenon, <2>3, <2>4
<1> QED
  BY Zenon, <1>3, <1>4, <1>5, <1>6, <1>7, <1>8, <1>9, <1>10, <1>12, <1>13

\* DataBuffer::snapshot: what becomes of a batch when its buffer turns into a
\* snapshot.
LEMMA SnapshotsOf ==
  ASSUME NEW b \in Batch
  PROVE  /\ Snapshots(b) \in Batch
         /\ Snapshots(b).rows = b.rows /\ Snapshots(b).max = b.max
         /\ Snapshots(b) = NoBatch <=> b = NoBatch
  BY Zenon DEF Snapshots, Batch, NoBatch

\* snapshot_to_persisting moves all rows of the buffer; the table lock keeps a
\* write between log_write and buffer_write out.
LEMMA SnapshotToPersistingStep ==
  ASSUME IndInv, NEW p \in Partition, SnapshotToPersisting(p)
  PROVE  IndInv'
<1> USE DEF IndInv
<1>1. /\ task[p] = "spawned" /\ persisting[p] = NoBatch /\ TableFree(p)
      /\ persisting' = [persisting EXCEPT ![p] = Snapshots(buf[p])]
      /\ buf' = [buf EXCEPT ![p] = NoBatch]
      /\ task' = [task EXCEPT ![p] = IF buf[p] = NoBatch THEN "release" ELSE "upload"]
      /\ UNCHANGED <<streamVars, known, maxPersisted, statsVars, toPersist, usage, target, durableVars, historyVars>>
  BY Zenon DEF SnapshotToPersisting
<1> USE DEF streamVars, memoryVars, statsVars, managerVars, durableVars, historyVars
<1> DEFINE k == SequencerOf[p]
<1>2. /\ p \notin logged /\ OrderOf(p) /\ k \in Sequencer
      /\ buf[p] \in Batch /\ persisting[p] \in Batch /\ next[k] \in Nat \ {0}
      /\ persisting'[p] = Snapshots(buf[p]) /\ buf'[p] = NoBatch
      /\ task'[p] # "mark" /\ task'[p] # "spawned"
  <2>1. buf[p] \in Batch /\ persisting[p] \in Batch
    BY Zenon DEF TypeOK, MemoryType
  <2>2. k \in Sequencer /\ next[k] \in Nat \ {0}
    BY Zenon, ShardingAssumption DEF TypeOK, StreamType
  <2>3. persisting'[p] = Snapshots(buf[p]) /\ buf'[p] = NoBatch
    BY Zenon, <1>1 DEF TypeOK, MemoryType
  <2>4. task'[p] # "mark" /\ task'[p] # "spawned"
    BY Zenon, <1>1 DEF TypeOK, ManagerType
  <2> QED
    BY Zenon, <1>1, <2>1, <2>2, <2>3, <2>4 DEF TableFree, OrderInv
<1>3. NoBatch.rows = {} /\ NoBatch.max = 0 /\ NoBatch \in Batch /\ NoBatch' = NoBatch
  BY Zenon DEF NoBatch, Batch
<1>12. /\ persisting'[p] \in Batch
       /\ persisting'[p].rows = buf[p].rows /\ persisting'[p].max = buf[p].max
       /\ persisting'[p] = NoBatch <=> buf[p] = NoBatch
  BY Zenon, <1>2, SnapshotsOf
<1>4. TypeOK'
  BY Zenon, TypeFrame, <1>1, <1>2, <1>3, <1>12 DEF TypeOK, MemoryType, ManagerType, TaskState
<1>5. PositionsInv' /\ Recoverable' /\ CatalogBacked'
  BY Zenon, <1>1, PositionsFrame, RecoverableFrame, CatalogFrame
<1>6. StatsInv'
  <2>1. \A q \in Partition : /\ buf'[q].rows \subseteq buf[q].rows
                             /\ buf'[q].rows # {} => task'[q] = task[q]
    BY ZenonT(30), <1>1, <1>3 DEF TypeOK, MemoryType, ManagerType
  <2> QED
    BY Zenon, <1>1, <2>1 DEF StatsInv
<1>7. LoggedInv'
  BY <1>1, <1>2, LoggedFrame DEF TypeOK
<1>8. TaskInv'
  BY ZenonT(30), <1>1, <1>2, <1>3, <1>12 DEF TaskInv, TypeOK, MemoryType, ManagerType
<1>9. PersistedInv'
  BY <1>1 DEF PersistedInv, TypeOK
<1>10. OrderInv'
  <2> SUFFICES ASSUME NEW q \in Partition PROVE OrderOf(q)'
    BY Zenon DEF OrderInv
  <2>1. OrderOf(q)
    BY Zenon DEF OrderInv
  <2>2. CASE q # p
    BY Zenon, <1>1, <2>1, <2>2, OrderOfFrame DEF TypeOK, MemoryType, ManagerType
  <2>3. CASE q = p
    <3>1. OrderOf(p)'
      <4>1. /\ \A f : MaxOfAll(f)' = MaxOfAll(f) /\ Covered(f)' = Covered(f)
        BY Zenon DEF MaxOfAll, Covered
      <4>2. MaxOfAll(persisting[p])' = MaxOfAll(buf[p]) /\ Covered(persisting[p])' = Covered(buf[p])
        BY Zenon, <1>12 DEF MaxOfAll, Covered
      <4>3. MaxOfAll(buf[p])' /\ ~buf'[p].snapped /\ buf'[p].rows = {}
        <5>1. NoBatch.snapped = FALSE
          BY DEF NoBatch
        <5> QED
          BY Zenon, <1>2, <1>3, <5>1 DEF MaxOfAll
      <4>4. Stops = {} => MaxOfAll(buf[p])
        BY Zenon, <1>2 DEF OrderOf
      <4>5. \A s \in persisting'[p].rows : \A f \in files[p] : f.max < s
        BY Zenon, <1>2, <1>12 DEF OrderOf
      <4> QED
        BY Zenon, <1>1, <1>2, <1>3, <1>12, <4>1, <4>2, <4>3, <4>4, <4>5 DEF OrderOf, Cur, Batch
    <3> QED
      BY Zenon, <2>3, <3>1
  <2> QED
    BY Zenon, <2>2, <2>3
<1>11. NothingLost'
  <2>1. \A q \in Partition : persisting[q].rows \cup buf[q].rows
                               = persisting'[q].rows \cup buf'[q].rows
    BY Zenon, <1>1, <1>3, <1>12 DEF TypeOK, MemoryType
  <2> QED
    BY <1>1, <2>1 DEF NothingLost, Hit, FileRows, Cur
<1> QED
  BY Zenon, <1>4, <1>5, <1>6, <1>7, <1>8, <1>9, <1>10, <1>11

\* The entry leaves the stats; until the task takes the snapshot, `spawned' stands for it.
LEMMA SpawnPersistStep ==
  ASSUME IndInv, NEW p \in Partition, SpawnPersist(p)
  PROVE  IndInv'
<1> USE DEF IndInv
<1>1. /\ p \in toPersist
      /\ toPersist' = toPersist \ {p}
      /\ usage' = [usage EXCEPT ![p] = bytes[p]]
      /\ first' = [first EXCEPT ![p] = 0]
      /\ bytes' = [bytes EXCEPT ![p] = 0]
      /\ task' = [task EXCEPT ![p] = "spawned"]
      /\ UNCHANGED <<streamVars, memoryVars, total, target, durableVars, historyVars>>
  BY Zenon DEF SpawnPersist
<1> USE DEF streamVars, memoryVars, statsVars, managerVars, durableVars, historyVars
<1>2. \A q \in Partition : /\ task'[q] = "mark" <=> task[q] = "mark"
                           /\ task[q] = "spawned" => task'[q] = "spawned"
  BY Zenon, <1>1 DEF TypeOK, ManagerType, TaskInv
<1>3. TypeOK'
  BY Zenon, TypeFrame, <1>1 DEF TypeOK, StatsType, ManagerType, TaskState
<1>4. PositionsInv' /\ NothingLost' /\ Recoverable' /\ CatalogBacked'
  BY Zenon, <1>1, PositionsFrame, NothingLostFrame, RecoverableFrame, CatalogFrame
<1>5. OrderInv' /\ PersistedInv'
  BY Zenon, <1>1, <1>2, OrderFrame, PersistedFrame
<1>6. TaskInv'
  <2>1. /\ \A q \in Partition : q # p => task'[q] = task[q] /\ first'[q] = first[q]
        /\ task'[p] = "spawned" /\ first'[p] = 0 /\ task[p] = "none" /\ first[p] # 0
    BY Zenon, <1>1 DEF TaskInv, TypeOK, ManagerType, StatsType
  <2>2. UNCHANGED <<persisting, objects, files, buf, known>> /\ NoBatch' = NoBatch
    BY Zenon, <1>1 DEF NoBatch
  <2>3. TaskInv /\ toPersist' = toPersist \ {p}
    BY Zenon, <1>1
  <2> HIDE DEF IndInv, NoBatch
  <2> SUFFICES ASSUME NEW q \in Partition
               PROVE  /\ persisting[q] # NoBatch <=> task'[q] \in {"upload", "catalog", "mark"}
                      /\ task'[q] \in {"catalog", "mark"} => [part |-> q, data |-> persisting[q]] \in objects
                      /\ task'[q] = "mark" => persisting[q] \in files[q]
                      /\ q \in toPersist' => task'[q] = "none" /\ first'[q] # 0
                      /\ (first'[q] # 0 \/ q \in toPersist' \/ task'[q] # "none" \/ buf[q] # NoBatch)
                           => q \in known
    BY Zenon, <2>2 DEF TaskInv
  <2>4. CASE q # p
    BY ZenonT(30), <2>1, <2>3, <2>4 DEF TaskInv
  <2>5. CASE q = p
    BY ZenonT(30), <2>1, <2>3, <2>5 DEF TaskInv
  <2> QED
    BY Zenon, <2>4, <2>5
<1>7. StatsInv'
  <2>1. \A q \in Partition : SequencerOf[q] \in Sequencer /\ next[SequencerOf[q]] \in Nat \ {0}
    BY ZenonT(30), ShardingAssumption DEF TypeOK, StreamType
  <2> QED
    BY <1>1, <2>1 DEF StatsInv, TypeOK, StatsType, ManagerType
<1>8. LoggedInv'
  BY <1>1 DEF LoggedInv, Cur, CurOp, TypeOK, ManagerType
<1> QED
  BY Zenon, <1>3, <1>4, <1>5, <1>6, <1>7, <1>8

\* The new replay position: all tasks have ended, so an unpersisted row has a
\* stats entry, which starts after the position, or has not been read yet.
LEMMA UpdateMinUnpersistedStep ==
  ASSUME IndInv, NEW k \in Sequencer, UpdateMinUnpersisted(k)
  PROVE  IndInv'
<1> USE DEF IndInv
<1>1. /\ toPersist = {} /\ \A p \in Partition : task[p] = "none"
      /\ target[k] # 0
      /\ minUnpersisted' = [minUnpersisted EXCEPT ![k] = target[k]]
      /\ target' = [target EXCEPT ![k] = 0]
      /\ UNCHANGED <<streamVars, memoryVars, statsVars, toPersist, task, usage, files, objects, historyVars>>
  BY Zenon DEF UpdateMinUnpersisted
<1> USE DEF streamVars, memoryVars, statsVars, managerVars, durableVars, historyVars
<1>2. \A p \in Partition : persisting[p] = NoBatch
  BY Zenon, <1>1 DEF TaskInv
<1>3. TypeOK'
  BY Zenon, TypeFrame, <1>1 DEF TypeOK, ManagerType, DurableType
<1>4. OrderInv' /\ PersistedInv' /\ TaskInv' /\ CatalogBacked' /\ NothingLost'
  BY Zenon, <1>1, OrderFrame, PersistedFrame, TaskFrame, CatalogFrame, NothingLostFrame
<1>5. LoggedInv'
  BY Zenon, <1>1, LoggedFrame
<1>6. target[k] \in Nat \ {0} /\ target[k] < next[k] /\ next[k] \in Nat
  BY Zenon, <1>1 DEF TypeOK, StreamType, ManagerType, PositionsInv, PositionsOf
<1>7. PositionsInv'
  <2> SUFFICES ASSUME NEW j \in Sequencer PROVE PositionsOf(j)'
    BY Zenon DEF PositionsInv
  <2>1. PositionsOf(j)
    BY Zenon DEF PositionsInv
  <2>2. CASE j # k
    BY ZenonT(30), <1>1, <2>1, <2>2, PositionsOfFrame DEF TypeOK, ManagerType, DurableType
  <2>3. CASE j = k
    <3>1. minUnpersisted'[j] = target[j] /\ target'[j] = 0
      BY Zenon, <1>1, <2>3 DEF TypeOK, ManagerType, DurableType
    <3>2. /\ minUnpersisted'[j] <= next[j] /\ target'[j] < next[j]
          /\ target'[j] # 0 => minUnpersisted'[j] <= target'[j]
      <4> HIDE DEF IndInv
      <4> QED
        BY <1>6, <2>3, <3>1
    <3>3. remaining[j] # {} => minUnpersisted'[j] <= Cur(j)
      <4> HIDE DEF IndInv
      <4> QED
        BY <1>6, <2>3, <3>1 DEF Cur
    <3>4. UNCHANGED <<log, next, remaining>>
      BY Zenon, <1>1
    <3> QED
      BY Zenon, <2>1, <3>2, <3>3, <3>4 DEF PositionsOf, Cur, CurOp, PartitionsOf
  <2> QED
    BY Zenon, <2>2, <2>3
<1>8. StatsInv'
  BY <1>1, ShardingAssumption DEF StatsInv, TypeOK, StatsType
<1>9. Recoverable'
  <2> SUFFICES ASSUME NEW q \in Partition, NEW s \in 1 .. Len(log[SequencerOf[q]]),
                      Hit(s, q), <<s, q>> \notin gone, s \notin FileRows(q)
               PROVE  s >= minUnpersisted'[SequencerOf[q]]
    BY Zenon, <1>1 DEF Recoverable, Hit, FileRows
  <2>1. CASE SequencerOf[q] # k
    BY <1>1, <2>1, ShardingAssumption DEF Recoverable, TypeOK
  <2>2. CASE SequencerOf[q] = k
    <3>1. s \in buf[q].rows \/ s >= next[k] \/ s = Cur(k)
      BY <1>2, <2>2 DEF NothingLost, NoBatch
    <3>2. s \in buf[q].rows => target[k] <= first[q] /\ first[q] <= s /\ first[q] \in Nat
      BY Zenon, <1>1, <2>2 DEF StatsInv, TypeOK, MemoryType, StatsType, ManagerType
    <3>3. s >= target[k]
      BY <1>6, <3>1, <3>2 DEF Cur
    <3> QED
      BY Zenon, <1>1, <2>2, <3>3 DEF TypeOK, DurableType
  <2> QED
    BY Zenon, <2>1, <2>2
<1> QED
  BY Zenon, <1>3, <1>4, <1>5, <1>7, <1>8, <1>9

\* Leaving pause_ingest changes no data.
LEMMA ResumeStep ==
  ASSUME IndInv, NEW k \in Sequencer, Resume(k)
  PROVE  IndInv'
<1> USE DEF IndInv
<1>1. /\ pausing' = [pausing EXCEPT ![k] = FALSE]
      /\ UNCHANGED <<log, next, remaining, logged, memoryVars, statsVars, managerVars, durableVars, historyVars>>
  BY Zenon DEF Resume
<1> USE DEF streamVars, memoryVars, statsVars, managerVars, durableVars, historyVars
<1>2. TypeOK'
  <2>1. StreamType'
    BY Zenon, <1>1 DEF TypeOK, StreamType
  <2> QED
    BY Zenon, <1>1, <2>1, TypeFrame DEF TypeOK
<1>3. PositionsInv' /\ OrderInv' /\ PersistedInv' /\ TaskInv' /\ StatsInv'
  BY Zenon, <1>1, PositionsFrame, OrderFrame, PersistedFrame, TaskFrame, StatsFrame
<1>4. LoggedInv' /\ CatalogBacked' /\ NothingLost' /\ Recoverable'
  BY Zenon, <1>1, LoggedFrame, CatalogFrame, NothingLostFrame, RecoverableFrame
<1> QED
  BY Zenon, <1>2, <1>3, <1>4

\* A pass of maybe_persist: the position it computes for a sequencer is the first
\* sequence number of one of its entries and at most that of every entry it leaves.
LEMMA MaybePersistStep ==
  ASSUME IndInv, NEW due \in SUBSET Tracked, MaybePersist(due)
  PROVE  IndInv'
<1> USE DEF IndInv
<1>1. PICK chosen \in SUBSET Tracked, kept \in SUBSET Tracked :
        /\ Tracked = chosen \cup kept
        /\ toPersist' = chosen
        /\ target' = [k \in Sequencer |-> NewMinUnpersisted(k, chosen, kept)]
  <2> DEFINE over == due \cup {p \in Tracked : bytes[p] > PartSize}
             rest == Tracked \ over
  <2>1. PICK extra \in SUBSET rest :
          /\ toPersist' = over \cup extra
          /\ target' = [k \in Sequencer |-> NewMinUnpersisted(k, over \cup extra, rest \ extra)]
    BY Zenon DEF MaybePersist
  <2>2. /\ over \cup extra \in SUBSET Tracked /\ rest \ extra \in SUBSET Tracked
        /\ Tracked = (over \cup extra) \cup (rest \ extra)
    BY Zenon
  <2> HIDE DEF over, rest
  <2> QED
    BY Zenon, <2>1, <2>2
<1>2. /\ \A p \in Partition : task[p] = "none"
      /\ \A k \in Sequencer : target[k] = 0
      /\ UNCHANGED <<streamVars, memoryVars, statsVars, task, usage, durableVars, historyVars>>
  BY Zenon DEF MaybePersist, ManagerIdle
<1> USE DEF streamVars, memoryVars, statsVars, managerVars, durableVars, historyVars
<1>3. ASSUME NEW k \in Sequencer
      PROVE  \/ chosen \cap PartitionsOf(k) = {} /\ target'[k] = 0
             \/ /\ \E p \in PartitionsOf(k) : first[p] # 0 /\ target'[k] = first[p]
                /\ \A p \in kept \cap PartitionsOf(k) : target'[k] <= first[p]
  <2>1. next[k] \in Nat /\ \A p \in PartitionsOf(k) : first[p] <= next[k]
    BY DEF TypeOK, StreamType, StatsType, StatsInv, PartitionsOf
  <2>2. target'[k] = NewMinUnpersisted(k, chosen, kept)
    BY Zenon, <1>1
  <2> DEFINE n == NewMinUnpersisted(k, chosen, kept)
  <2>3. \/ chosen \cap PartitionsOf(k) = {} /\ n = 0
        \/ /\ \E p \in (chosen \cup kept) \cap PartitionsOf(k) : n = first[p]
           /\ \A p \in kept \cap PartitionsOf(k) : n <= first[p]
    BY Zenon, <2>1, NewMinChoice
  <2>4. \A p \in chosen \cup kept : first[p] # 0
    BY Zenon DEF Tracked
  <2> HIDE DEF n
  <2> QED
    BY Zenon, <2>2, <2>3, <2>4 DEF n
<1>4. \A k \in Sequencer :
        /\ target'[k] \in Nat /\ target'[k] < next[k]
        /\ target'[k] # 0 => minUnpersisted[k] <= target'[k]
  <2> SUFFICES ASSUME NEW k \in Sequencer
               PROVE  /\ target'[k] \in Nat /\ target'[k] < next[k]
                      /\ target'[k] # 0 => minUnpersisted[k] <= target'[k]
    BY Zenon
  <2>1. next[k] \in Nat \ {0} /\ 0 < next[k]
    BY DEF TypeOK, StreamType
  <2>2. \A p \in PartitionsOf(k) : /\ first[p] \in Nat /\ first[p] < next[k]
                                   /\ first[p] # 0 => minUnpersisted[k] <= first[p]
    BY Zenon DEF TypeOK, StreamType, StatsType, DurableType, StatsInv, PartitionsOf
  <2> QED
    BY <1>3, <2>1, <2>2
<1>5. TypeOK'
  <2>1. target' \in [Sequencer -> Nat]
    BY Zenon, <1>1, <1>4
  <2>2. toPersist' \subseteq Partition
    BY Zenon, <1>1 DEF Tracked
  <2> QED
    BY Zenon, <1>2, <2>1, <2>2, TypeFrame DEF TypeOK, ManagerType
<1>6. OrderInv' /\ PersistedInv' /\ CatalogBacked' /\ NothingLost' /\ Recoverable'
  BY Zenon, <1>2, OrderFrame, PersistedFrame, CatalogFrame, NothingLostFrame, RecoverableFrame
<1>7. LoggedInv'
  BY Zenon, <1>2, LoggedFrame
<1>8. PositionsInv'
  BY Zenon, <1>2, <1>4 DEF PositionsInv, PositionsOf, Cur, CurOp, PartitionsOf
<1>9. TaskInv'
  BY Zenon, <1>1, <1>2 DEF TaskInv, Tracked, NoBatch
<1>10. StatsInv'
  <2> SUFFICES ASSUME NEW q \in Partition, first[q] # 0, q \notin toPersist'
               PROVE  target'[SequencerOf[q]] <= first[q]
    BY Zenon, <1>2 DEF StatsInv
  <2>1. q \in kept \cap PartitionsOf(SequencerOf[q]) /\ SequencerOf[q] \in Sequencer
    BY Zenon, <1>1, ShardingAssumption DEF Tracked, PartitionsOf
  <2>2. first[q] \in Nat
    BY Zenon DEF TypeOK, StatsType
  <2> QED
    BY <1>3, <2>1, <2>2
<1> QED
  BY Zenon, <1>5, <1>6, <1>7, <1>8, <1>9, <1>10

-------------------------------------------------------------------------------
(* The stream handlers *)

\* What the log and the catalog say of a maximum: it is that of a file, and no
\* file is above it.
LEMMA PersistedMaxIsMax ==
  ASSUME IndInv, NEW p \in Partition
  PROVE  /\ PersistedMax(p) \in Nat
         /\ PersistedMax(p) = 0 \/ \E f \in files[p] : f.max = PersistedMax(p)
         /\ \A f \in files[p] :
              f.max <= PersistedMax(p) \/ (p \in known /\ task[p] = "mark" /\ f = persisting[p])
<1> USE DEF IndInv
<1>1. CASE p \in known
  BY Zenon, <1>1 DEF PersistedMax, PersistedInv, TypeOK, MemoryType
<1>2. CASE p \notin known /\ files[p] = {}
  BY Zenon, <1>2 DEF PersistedMax, CatalogMax
<1>3. CASE p \notin known /\ files[p] # {}
  <2> DEFINE S == {f.max : f \in files[p]}  b == Len(log[SequencerOf[p]])
  <2>1. S \subseteq Nat /\ S # {} /\ b \in Nat /\ \A y \in S : y <= b
    BY <1>3, ShardingAssumption DEF TypeOK, DurableType, Batch, OrderInv, OrderOf
  <2>2. PersistedMax(p) = Max(S)
    BY Zenon, <1>3 DEF PersistedMax, CatalogMax
  <2> HIDE DEF b
  <2>3. Max(S) \in S /\ \A y \in S : y <= Max(S)
    BY Zenon, <2>1, MaxNat
  <2> QED
    BY ZenonT(30), <2>1, <2>2, <2>3
<1> QED
  BY Zenon, <1>1, <1>2, <1>3

\* insert_partition keeps what is known of the persisted maxima.
LEMMA InsertPartitionStep ==
  ASSUME IndInv, NEW p \in Partition, InsertPartition(p), UNCHANGED <<files, persisting, task>>
  PROVE  /\ known' \subseteq Partition /\ known \subseteq known'
         /\ maxPersisted' \in [Partition -> Nat]
         /\ PersistedInv'
<1> USE DEF IndInv
<1>1. /\ known' = known \cup {p}
      /\ maxPersisted' = [maxPersisted EXCEPT ![p] = PersistedMax(p)]
  BY Zenon DEF InsertPartition
<1>2. /\ PersistedMax(p) \in Nat
      /\ PersistedMax(p) = 0 \/ \E f \in files[p] : f.max = PersistedMax(p)
      /\ \A f \in files[p] :
           f.max <= PersistedMax(p) \/ (p \in known /\ task[p] = "mark" /\ f = persisting[p])
  BY Zenon, PersistedMaxIsMax
<1>3. known \subseteq Partition /\ maxPersisted \in [Partition -> Nat]
  BY Zenon DEF TypeOK, MemoryType
<1>4. maxPersisted' \in [Partition -> Nat] /\ maxPersisted'[p] = PersistedMax(p)
  BY Zenon, <1>1, <1>2, <1>3
<1>5. PersistedInv'
  <2> SUFFICES ASSUME NEW q \in known'
               PROVE  /\ maxPersisted'[q] = 0 \/ \E f \in files[q] : f.max = maxPersisted'[q]
                      /\ \A f \in files[q] :
                           f.max <= maxPersisted'[q] \/ (task[q] = "mark" /\ f = persisting[q])
    BY Zenon DEF PersistedInv
  <2>1. CASE q = p
    BY Zenon, <1>2, <1>4, <2>1
  <2>2. CASE q # p
    BY Zenon, <1>1, <1>3, <2>2 DEF PersistedInv
  <2> QED
    BY Zenon, <2>1, <2>2
<1> QED
  BY Zenon, <1>1, <1>3, <1>4, <1>5

\* A replayed write at or below the persisted maximum is in a file already.
LEMMA SkipWriteStep ==
  ASSUME IndInv, NEW k \in Sequencer, NEW p \in PartitionsOf(k), SkipWrite(k, p)
  PROVE  IndInv'
<1> USE DEF IndInv
<1>1. /\ p \in remaining[k] /\ logged \cap PartitionsOf(k) = {}
      /\ CurOp(k).kind = "write" /\ PersistedMax(p) >= Cur(k)
      /\ InsertPartition(p)
      /\ remaining' = [remaining EXCEPT ![k] = @ \ {p}]
      /\ UNCHANGED <<log, next, logged, pausing, buf, persisting, statsVars, managerVars, durableVars, historyVars>>
  BY Zenon DEF SkipWrite, AtTable, AlreadyPersisted
<1> USE DEF streamVars, memoryVars, statsVars, managerVars, durableVars, historyVars
<1>2. p \in Partition /\ SequencerOf[p] = k
  BY Zenon DEF PartitionsOf
<1>3. known' \subseteq Partition /\ known \subseteq known' /\ maxPersisted' \in [Partition -> Nat] /\ PersistedInv'
  BY Zenon, <1>1, <1>2, InsertPartitionStep
<1>4. \A j \in Sequencer : remaining'[j] \subseteq remaining[j]
  <2>1. remaining \in [Sequencer -> SUBSET Partition]
    BY Zenon DEF TypeOK, StreamType
  <2>2. remaining' = [remaining EXCEPT ![k] = @ \ {p}]
    BY Zenon, <1>1
  <2> QED
    BY Zenon, <2>1, <2>2
<1>5. TypeOK'
  <2>1. StreamType'
    BY Zenon, <1>1 DEF TypeOK, StreamType
  <2>2. MemoryType'
    BY Zenon, <1>1, <1>3 DEF TypeOK, MemoryType
  <2> QED
    BY Zenon, <1>1, <2>1, <2>2, TypeFrame DEF TypeOK
<1>6. PositionsInv'
  BY Zenon, <1>1, <1>4, PositionsOfFrame DEF PositionsInv
<1>7. OrderInv'
  BY Zenon, <1>1, <1>4, OrderOfFrame, ShardingAssumption DEF OrderInv
<1>8. StatsInv' /\ CatalogBacked' /\ Recoverable'
  BY Zenon, <1>1, StatsFrame, CatalogFrame, RecoverableFrame
<1>9. TaskInv'
  BY Zenon, <1>1, <1>3 DEF TaskInv, NoBatch
<1>10. LoggedInv'
  <2>1. \A q \in logged : q \in Partition /\ SequencerOf[q] # k
    BY Zenon, <1>1 DEF PartitionsOf, TypeOK, StreamType
  <2>2. \A q \in logged : remaining'[SequencerOf[q]] = remaining[SequencerOf[q]]
    BY <1>1, <2>1, ShardingAssumption DEF TypeOK
  <2> QED
    BY Zenon, <1>1, <1>3, <2>2 DEF LoggedInv, Cur, CurOp
<1>11. NothingLost'
  <2>1. \E f \in files[p] : f.max >= Cur(k)
    <3>1. Cur(k) \in Nat \ {0}
      BY SMTT(30), <1>1 DEF PositionsInv, PositionsOf
    <3>2. PersistedMax(p) \in Nat /\ PersistedMax(p) # 0
      BY SMTT(30), <1>1, <1>2, <3>1, PersistedMaxIsMax
    <3> QED
      BY ZenonT(30), <1>1, <1>2, <3>2, PersistedMaxIsMax
  <2>2. Hit(Cur(k), p) /\ <<Cur(k), p>> \notin gone => Cur(k) \in FileRows(p)
    <3>1. Cur(k) \in 1 .. Len(log[k]) /\ \A f \in files[p] : f.max \in Nat
      BY <1>1, <1>2 DEF PositionsInv, PositionsOf, TypeOK, StreamType, DurableType, Batch
    <3>2. \A f \in files[p] : ~(Cur(k) <= f.max) <=> f.max < Cur(k)
      BY <3>1
    <3> QED
      BY ZenonT(30), <1>2, <2>1, <3>1, <3>2 DEF Recoverable
  <2> SUFFICES ASSUME NEW q \in Partition, NEW s \in 1 .. Len(log[SequencerOf[q]]),
                      Hit(s, q), <<s, q>> \notin gone
               PROVE  \/ s \in FileRows(q) \cup persisting[q].rows \cup buf[q].rows
                      \/ s >= next[SequencerOf[q]]
                      \/ s = Cur(SequencerOf[q]) /\ q \in remaining'[SequencerOf[q]]
    BY Zenon, <1>1 DEF NothingLost, Hit, FileRows, Cur
  <2>3. CASE s = Cur(k) /\ q = p
    BY Zenon, <2>2, <2>3
  <2>4. CASE ~(s = Cur(k) /\ q = p)
    <3>1. s = Cur(SequencerOf[q]) /\ q \in remaining[SequencerOf[q]] => q \in remaining'[SequencerOf[q]]
      BY <1>1, <1>2, <2>4, ShardingAssumption DEF TypeOK
    <3> QED
      BY Zenon, <3>1 DEF NothingLost
  <2> QED
    BY Zenon, <2>3, <2>4
<1> QED
  BY Zenon, <1>3, <1>5, <1>6, <1>7, <1>8, <1>9, <1>10, <1>11

\* log_write opens the stats entry before the row is buffered; the write is above
\* every file of its partition.
LEMMA LogWriteStep ==
  ASSUME IndInv, NEW k \in Sequencer, NEW p \in PartitionsOf(k), LogWrite(k, p)
  PROVE  IndInv'
<1> USE DEF IndInv
<1>1. /\ p \in remaining[k] /\ logged \cap PartitionsOf(k) = {}
      /\ CurOp(k).kind = "write" /\ ~(PersistedMax(p) >= Cur(k))
      /\ InsertPartition(p)
      /\ first' = [first EXCEPT ![p] = IF @ = 0 THEN Cur(k) ELSE @]
      /\ bytes' = [bytes EXCEPT ![p] = @ + CurOp(k).size]
      /\ total' = total + CurOp(k).size
      /\ pausing' = [pausing EXCEPT ![k] = @ \/ total' > PauseSize]
      /\ logged' = logged \cup {p}
      /\ UNCHANGED <<log, next, remaining, buf, persisting, managerVars, durableVars, historyVars>>
  BY Zenon DEF LogWrite, AtTable, AlreadyPersisted
<1> USE DEF streamVars, memoryVars, statsVars, managerVars, durableVars, historyVars
<1>2. p \in Partition /\ SequencerOf[p] = k
  BY Zenon DEF PartitionsOf
<1>3. known' \subseteq Partition /\ known \subseteq known' /\ maxPersisted' \in [Partition -> Nat] /\ PersistedInv'
  BY Zenon, <1>1, <1>2, InsertPartitionStep
<1>4. /\ PositionsOf(k) /\ OrderOf(p) /\ next[k] \in Nat
      /\ Cur(k) \in 1 .. Len(log[k]) /\ minUnpersisted[k] <= Cur(k) /\ target[k] <= Cur(k)
      /\ Cur(k) \in Nat \ {0} /\ Cur(k) < next[k] /\ CurOp(k).size \in Nat
  <2>1. PositionsOf(k) /\ OrderOf(p) /\ next[k] \in Nat /\ target[k] \in Nat /\ target[k] < next[k]
    BY Zenon, <1>2 DEF PositionsInv, PositionsOf, OrderInv, TypeOK, StreamType, ManagerType
  <2>2. Cur(k) \in 1 .. Len(log[k]) /\ minUnpersisted[k] <= Cur(k)
    BY Zenon, <1>1, <2>1 DEF PositionsOf
  <2>3. CurOp(k).size \in Nat
    <3>1. log[k] \in Seq(OpType)
      BY Zenon DEF TypeOK, StreamType
    <3>2. log[k][Cur(k)] \in OpType
      BY <2>2, <3>1
    <3> QED
      BY Zenon, <3>2 DEF CurOp, OpType
  <2> QED
    BY <2>1, <2>2, <2>3 DEF Cur
<1>5. first' \in [Partition -> Nat] /\ bytes' \in [Partition -> Nat] /\ total' \in Int
  <2>1. first \in [Partition -> Nat] /\ bytes \in [Partition -> Nat] /\ total \in Int
    BY Zenon DEF TypeOK, StatsType
  <2>2. first' \in [Partition -> Nat]
    BY Zenon, <1>1, <1>2, <1>4, <2>1
  <2> DEFINE size == CurOp(k).size
  <2>3. size \in Nat /\ bytes' = [bytes EXCEPT ![p] = @ + size] /\ total' = total + size
    BY Zenon, <1>1, <1>4
  <2> HIDE DEF size
  <2>4. bytes' \in [Partition -> Nat] /\ total' \in Int
    BY <1>2, <2>1, <2>3
  <2> QED
    BY Zenon, <2>2, <2>4
<1>6. TypeOK'
  <2>1. StreamType'
    BY Zenon, <1>1, <1>2 DEF TypeOK, StreamType
  <2>2. MemoryType'
    BY Zenon, <1>1, <1>3 DEF TypeOK, MemoryType
  <2>3. StatsType'
    BY Zenon, <1>5 DEF StatsType
  <2> QED
    BY Zenon, <1>1, <2>1, <2>2, <2>3, TypeFrame DEF TypeOK
<1>7. PositionsInv' /\ OrderInv' /\ CatalogBacked' /\ NothingLost' /\ Recoverable'
  BY Zenon, <1>1, PositionsFrame, OrderFrame, CatalogFrame, NothingLostFrame, RecoverableFrame
<1>8. TaskInv'
  <2>1. \A q \in Partition : q # p => first'[q] = first[q]
    BY <1>1 DEF TypeOK
  <2>2. p \in known' /\ first'[p] # 0
    BY Zenon, <1>1, <1>2, <1>4 DEF TypeOK, MemoryType, StatsType, InsertPartition
  <2> QED
    BY ZenonT(30), <1>1, <1>3, <2>1, <2>2 DEF TaskInv, NoBatch
<1>9. StatsInv'
  <2>1. first[p] \in Nat /\ buf[p].max \in Nat /\ \A s \in buf[p].rows : s \in Nat
    BY Zenon, <1>2 DEF TypeOK, MemoryType, StatsType, Batch
  <2>2. /\ \A q \in Partition : q # p => first'[q] = first[q]
        /\ first'[p] = IF first[p] = 0 THEN Cur(k) ELSE first[p]
    BY Zenon, <1>1, <1>2 DEF TypeOK, StreamType, StatsType
  <2>3. first[p] = 0 => \A s \in buf[p].rows : task[p] = "spawned"
    BY ZenonT(30), <1>2 DEF StatsInv
  <2> QED
    BY Zenon, <1>1, <1>2, <1>4, <2>2, <2>3 DEF StatsInv
<1>10. LoggedInv'
  <2>1. \A f \in files[p] : f.max < Cur(k)
    <3> SUFFICES ASSUME NEW f \in files[p] PROVE f.max < Cur(k)
      BY Zenon
    <3>a. PersistedMax(p) \in Nat
      BY Zenon, <1>2, PersistedMaxIsMax
    <3>b. f.max \in Nat
      BY <1>2 DEF TypeOK, DurableType, Batch
    <3>1. f.max \in Nat /\ PersistedMax(p) \in Nat
      BY ZenonT(30), <3>a, <3>b
    <3>2. CASE f.max <= PersistedMax(p)
      BY <1>1, <1>4, <3>1, <3>2
    <3>3. CASE f = persisting[p]
      BY Zenon, <1>1, <1>2, <1>4, <3>3 DEF OrderOf
    <3> QED
      BY Zenon, <1>2, <3>2, <3>3, PersistedMaxIsMax
  <2>2. p \in known' /\ first'[p] # 0
    BY Zenon, <1>1, <1>2, <1>4 DEF TypeOK, MemoryType, StatsType, InsertPartition
  <2>3. \A q \in logged : q \in Partition /\ q # p
    BY Zenon, <1>1 DEF TypeOK, StreamType
  <2>4. \A q \in logged : first'[q] = first[q]
    BY Zenon, <1>1, <2>3 DEF TypeOK, StatsType
  <2> QED
    BY ZenonT(30), <1>1, <1>2, <1>3, <2>1, <2>2, <2>3, <2>4 DEF LoggedInv, Cur, CurOp, PartitionsOf
<1> QED
  BY Zenon, <1>3, <1>6, <1>7, <1>8, <1>9, <1>10

\* buffer_write: the row is the newest of its partition and its entry is open.
LEMMA BufferWriteStep ==
  ASSUME IndInv, NEW k \in Sequencer, NEW p \in PartitionsOf(k), BufferWrite(k, p)
  PROVE  IndInv'
<1> USE DEF IndInv
<1>1. /\ p \in logged /\ p \in remaining[k]
      /\ buf' = [buf EXCEPT ![p] = [rows |-> @.rows \cup {Cur(k)}, max |-> Raised(@, Cur(k)),
                                     snapped |-> @.snapped]]
      /\ remaining' = [remaining EXCEPT ![k] = @ \ {p}]
      /\ logged' = logged \ {p}
      /\ UNCHANGED <<log, next, pausing, known, maxPersisted, persisting, statsVars, managerVars, durableVars, historyVars>>
  BY Zenon DEF BufferWrite
<1> USE DEF streamVars, memoryVars, statsVars, managerVars, durableVars, historyVars
<1>2. p \in Partition /\ SequencerOf[p] = k
  BY Zenon DEF PartitionsOf
<1>3. /\ OrderOf(p) /\ buf[p] \in Batch /\ persisting[p] \in Batch /\ next[k] \in Nat
      /\ Cur(k) \in 1 .. Len(log[k]) /\ Cur(k) \in Nat \ {0} /\ Cur(k) < next[k] /\ Cur(k)' = Cur(k)
  <2>1. PositionsOf(k) /\ OrderOf(p) /\ next[k] \in Nat /\ buf[p] \in Batch /\ persisting[p] \in Batch
    BY Zenon, <1>2 DEF PositionsInv, OrderInv, TypeOK, MemoryType, StreamType
  <2>2. Cur(k) \in 1 .. Len(log[k])
    BY ZenonT(30), <1>1, <2>1 DEF PositionsOf
  <2> QED
    BY <1>1, <2>1, <2>2 DEF Cur
<1>4. /\ \A q \in Partition : q # p => buf'[q] = buf[q]
      /\ buf'[p].rows = buf[p].rows \cup {Cur(k)} /\ buf'[p].max = Raised(buf[p], Cur(k))
      /\ buf'[p].snapped = buf[p].snapped /\ buf'[p] \in Batch
  <2>1. \A q \in Partition : q # p => buf'[q] = buf[q]
    BY Zenon, <1>1, <1>2 DEF TypeOK, MemoryType
  <2>2. buf'[p] = [rows |-> buf[p].rows \cup {Cur(k)}, max |-> Raised(buf[p], Cur(k)),
                   snapped |-> buf[p].snapped]
    BY Zenon, <1>1, <1>2 DEF TypeOK, MemoryType
  <2>3. Raised(buf[p], Cur(k)) \in Nat /\ buf[p].rows \in SUBSET (Nat \ {0}) /\ buf[p].snapped \in BOOLEAN
    BY <1>3 DEF Batch, Raised
  <2> QED
    BY <1>3, <2>1, <2>2, <2>3 DEF Batch
<1>5. \A j \in Sequencer : remaining'[j] \subseteq remaining[j]
  <2>1. remaining \in [Sequencer -> SUBSET Partition]
    BY Zenon DEF TypeOK, StreamType
  <2>2. remaining' = [remaining EXCEPT ![k] = @ \ {p}]
    BY Zenon, <1>1
  <2> QED
    BY Zenon, <2>1, <2>2
<1>6. TypeOK'
  <2>1. StreamType'
    BY Zenon, <1>1 DEF TypeOK, StreamType
  <2>2. MemoryType'
    BY Zenon, <1>1, <1>4 DEF TypeOK, MemoryType
  <2> QED
    BY Zenon, <1>1, <2>1, <2>2, TypeFrame DEF TypeOK
<1>7. PositionsInv'
  BY Zenon, <1>1, <1>5, PositionsOfFrame DEF PositionsInv
<1>8. PersistedInv' /\ CatalogBacked' /\ Recoverable'
  BY Zenon, <1>1, PersistedFrame, CatalogFrame, RecoverableFrame
<1>9. OrderInv'
  <2> SUFFICES ASSUME NEW q \in Partition PROVE OrderOf(q)'
    BY Zenon DEF OrderInv
  <2>1. OrderOf(q)
    BY Zenon DEF OrderInv
  <2>2. CASE q # p
    BY Zenon, <1>1, <1>4, <1>5, <2>1, <2>2, OrderOfFrame, ShardingAssumption
  <2>3. CASE q = p
    <3>1. p \notin remaining'[k] /\ \A f \in files[p] : f.max < Cur(k)
      BY ZenonT(30), <1>1, <1>2 DEF TypeOK, StreamType, DurableType, LoggedInv
    <3>2. \A s \in buf[p].rows : s \in Nat /\ s < next[k] /\ s <= Cur(k)
      BY <1>1, <1>2, <1>3 DEF OrderOf, Batch, Cur
    <3>3. persisting[p].max < Cur(k) /\ buf[p].max < next[k] /\ persisting[p].max < next[k]
      BY ZenonT(30), <1>1, <1>2, <1>3 DEF OrderOf
    <3>4. ~buf'[p].snapped => MaxOfAll(buf[p])'
      BY <1>3, <1>4, <3>2 DEF MaxOfAll, Raised
    <3>5. Covered(buf[p])' # {}
      <4>1. CASE ~buf[p].snapped
        <5>1. buf'[p].max = Cur(k) /\ Cur(k) \in buf'[p].rows
          BY Zenon, <1>4, <4>1 DEF Raised
        <5>2. Cur(k) \in Nat /\ Cur(k) <= Cur(k)
          BY <1>3
        <5> QED
          BY Zenon, <5>1, <5>2 DEF Covered
      <4>2. CASE buf[p].snapped
        <5>1. buf[p].rows # {}
          <6>1. buf[p].rows = {} => buf[p] = NoBatch
            BY Zenon, <1>3 DEF OrderOf
          <6>2. ~NoBatch.snapped
            BY Zenon DEF NoBatch
          <6> QED
            BY Zenon, <4>2, <6>1, <6>2
        <5>2. PICK s \in buf[p].rows : s <= buf[p].max
          BY Zenon, <1>3, <5>1 DEF OrderOf, Covered
        <5> QED
          BY ZenonT(30), <1>4, <4>2, <5>2 DEF Covered, Raised
      <4> QED
        BY Zenon, <4>1, <4>2
    <3>6. buf'[p].max < next[k] /\ buf'[p].rows # {}
      BY Zenon, <1>3, <1>4, <3>3 DEF Raised
    <3>7. \A s \in buf'[p].rows : /\ s < next[k] /\ persisting[p].max < s
                                   /\ \A f \in files[p] : f.max < s
      BY Zenon, <1>2, <1>3, <1>4, <3>1, <3>2, <3>3 DEF OrderOf
    <3>8. \A f : MaxOfAll(f)' = MaxOfAll(f) /\ Covered(f)' = Covered(f)
      BY Zenon DEF MaxOfAll, Covered
    <3>9. MaxOfAll(persisting[p])' = MaxOfAll(persisting[p]) /\ Covered(persisting[p])' = Covered(persisting[p])
      BY Zenon, <1>1 DEF MaxOfAll, Covered
    <3>10. buf'[p].snapped => Stops # {}
      BY Zenon, <1>3, <1>4 DEF OrderOf
    <3>11. UNCHANGED <<log, next, persisting, files, task>>
      BY Zenon, <1>1
    <3> QED
      BY ZenonT(30), <1>2, <1>3, <2>3, <3>1, <3>3, <3>4, <3>5, <3>6, <3>7, <3>8, <3>9, <3>10, <3>11 DEF OrderOf, Cur
  <2> QED
    BY Zenon, <2>2, <2>3
<1>10. StatsInv'
  <2>1. first[p] \in Nat /\ (first[p] # 0 \/ task[p] = "spawned") /\ first[p] < next[k]
    BY ZenonT(30), <1>1, <1>2 DEF LoggedInv, TypeOK, StreamType, StatsType, ManagerType, StatsInv
  <2>2. first[p] <= Cur(k)
    BY <1>3, <2>1 DEF Cur
  <2> QED
    BY Zenon, <1>1, <1>2, <1>4, <2>1, <2>2 DEF StatsInv
<1>11. TaskInv'
  BY ZenonT(30), <1>1, <1>4 DEF TaskInv, NoBatch, LoggedInv
<1>12. LoggedInv'
  <2>1. \A q \in logged \ {p} : q \in Partition /\ q \in remaining'[SequencerOf[q]]
    BY Zenon, <1>1, <1>2, ShardingAssumption DEF LoggedInv, TypeOK, StreamType
  <2> QED
    BY Zenon, <1>1, <2>1 DEF LoggedInv, Cur, CurOp
<1>13. NothingLost'
  <2> SUFFICES ASSUME NEW q \in Partition, NEW s \in 1 .. Len(log[SequencerOf[q]]),
                      Hit(s, q), <<s, q>> \notin gone
               PROVE  \/ s \in FileRows(q) \cup persisting[q].rows \cup buf'[q].rows
                      \/ s >= next[SequencerOf[q]]
                      \/ s = Cur(SequencerOf[q]) /\ q \in remaining'[SequencerOf[q]]
    BY Zenon, <1>1 DEF NothingLost, Hit, FileRows, Cur
  <2>1. CASE q = p
    BY Zenon, <1>2, <1>4, <2>1 DEF NothingLost
  <2>2. CASE q # p
    <3>1. q \in remaining[SequencerOf[q]] => q \in remaining'[SequencerOf[q]]
      BY <1>1, <2>2, ShardingAssumption DEF TypeOK
    <3> QED
      BY ZenonT(30), <1>4, <2>2, <3>1 DEF NothingLost
  <2> QED
    BY Zenon, <2>1, <2>2
<1> QED
  BY Zenon, <1>6, <1>7, <1>8, <1>9, <1>10, <1>11, <1>12, <1>13

\* An operation that fails to apply gives up the rows it had left.
LEMMA DropStep ==
  ASSUME IndInv, NEW k \in Sequencer, remaining[k] # {}, DropOperation(k),
         logged' \subseteq logged, logged' \cap PartitionsOf(k) = {},
         buf' \in [Partition -> Batch],
         \A q \in Partition :
           \/ buf'[q] = buf[q]
           \/ /\ q \in remaining[k] /\ SequencerOf[q] = k /\ buf[q].rows # {} /\ q \in known
              /\ buf'[q].rows = buf[q].rows /\ buf'[q].max = Cur(k)
              /\ buf[q].snapped = FALSE /\ buf'[q].snapped = FALSE
  PROVE  IndInv'
<1> USE DEF IndInv
<1>1. /\ failures' = failures + 1
      /\ remaining' = [remaining EXCEPT ![k] = {}]
      /\ pausing' = [pausing EXCEPT ![k] = FALSE]
      /\ gone' = gone \cup {<<Cur(k), p>> : p \in {q \in remaining[k] : CurOp(k).kind = "write"}}
      /\ UNCHANGED <<log, next, known, maxPersisted, persisting, statsVars, managerVars,
                     durableVars, copies, crashes>>
  BY ZenonT(30) DEF DropOperation
<1> USE DEF statsVars, managerVars, durableVars
<1>2. /\ Cur(k) \in 1 .. Len(log[k]) /\ Cur(k) \in Nat \ {0} /\ Cur(k) < next[k] /\ next[k] \in Nat
      /\ remaining[k] \subseteq Partition
  BY DEF PositionsInv, PositionsOf, TypeOK, StreamType, Cur
<1>3. TypeOK'
  <2>1. gone' \subseteq (Nat \ {0}) \X Partition
    BY <1>1, <1>2 DEF TypeOK, HistoryType
  <2>2. remaining' \in [Sequencer -> SUBSET Partition] /\ pausing' \in [Sequencer -> BOOLEAN]
    BY ZenonT(30), <1>1 DEF TypeOK, StreamType
  <2>3. failures' \in Nat /\ logged' \subseteq Partition
    BY <1>1 DEF TypeOK, StreamType, HistoryType
  <2>4. StreamType'
    BY Zenon, <1>1, <2>2, <2>3 DEF TypeOK, StreamType
  <2>5. MemoryType'
    BY Zenon, <1>1 DEF TypeOK, MemoryType
  <2>6. HistoryType'
    BY ZenonT(30), <1>1, <2>1, <2>3 DEF TypeOK, HistoryType
  <2> QED
    BY ZenonT(30), <1>1, <2>4, <2>5, <2>6, TypeFrame DEF TypeOK
<1>4. \A j \in Sequencer : remaining'[j] \subseteq remaining[j]
  <2>1. remaining \in [Sequencer -> SUBSET Partition]
    BY Zenon DEF TypeOK, StreamType
  <2>2. remaining' = [remaining EXCEPT ![k] = {}]
    BY Zenon, <1>1
  <2> QED
    BY Zenon, <2>1, <2>2
<1>5. PositionsInv'
  BY Zenon, <1>1, <1>4, PositionsOfFrame DEF PositionsInv
<1>6. PersistedInv' /\ CatalogBacked'
  BY Zenon, <1>1, PersistedFrame, CatalogFrame
<1>7. OrderInv'
  <2> SUFFICES ASSUME NEW q \in Partition PROVE OrderOf(q)'
    BY Zenon DEF OrderInv
  <2>1. OrderOf(q) /\ SequencerOf[q] \in Sequencer
    BY Zenon, ShardingAssumption DEF OrderInv
  <2>2. CASE buf'[q] = buf[q]
    BY Zenon, <1>1, <1>4, <2>1, <2>2, OrderOfFrame
  <2>3. CASE buf'[q] # buf[q]
    <3>1. /\ q \in remaining[k] /\ SequencerOf[q] = k /\ buf[q].rows # {}
          /\ buf'[q].rows = buf[q].rows /\ buf'[q].max = Cur(k)
          /\ buf[q].snapped = FALSE /\ buf'[q].snapped = FALSE
      BY Zenon, <2>3
    <3>2. q \notin remaining'[k]
      BY ZenonT(30), <1>1 DEF TypeOK, StreamType
    <3>3. \A s \in buf[q].rows : s \in Nat /\ s <= Cur(k)
      <4>1. buf[q].max \in Nat /\ \A s \in buf[q].rows : s \in Nat
        BY Zenon DEF TypeOK, MemoryType, Batch
      <4>2. \A s \in buf[q].rows : s < next[k]
        BY Zenon, <2>1, <3>1 DEF OrderOf
      <4> QED
        BY <1>2, <4>1, <4>2 DEF Cur
    <3>4. MaxOfAll(buf[q])' /\ Covered(buf[q])' # {}
      BY Zenon, <3>1, <3>3 DEF MaxOfAll, Covered
    <3>5. \A f : MaxOfAll(f)' = MaxOfAll(f) /\ Covered(f)' = Covered(f)
      BY Zenon DEF MaxOfAll, Covered
    <3>6. MaxOfAll(persisting[q])' = MaxOfAll(persisting[q]) /\ Covered(persisting[q])' = Covered(persisting[q])
      BY Zenon, <1>1 DEF MaxOfAll, Covered
    <3>7. UNCHANGED <<log, next, persisting, files, task>> /\ ~buf'[q].snapped
      BY Zenon, <1>1, <3>1
    <3> QED
      BY Zenon, <1>2, <2>1, <3>1, <3>2, <3>4, <3>5, <3>6, <3>7 DEF OrderOf, Cur
  <2> QED
    BY Zenon, <2>2, <2>3
<1>8. TaskInv'
  BY Zenon, <1>1 DEF TaskInv, NoBatch
<1>9. StatsInv'
  BY Zenon, <1>1 DEF StatsInv
<1>10. LoggedInv'
  <2>1. \A q \in logged' : q \in Partition /\ SequencerOf[q] # k
    BY ZenonT(30) DEF TypeOK, StreamType, PartitionsOf
  <2>2. \A q \in logged' : remaining'[SequencerOf[q]] = remaining[SequencerOf[q]]
    BY <1>1, <2>1, ShardingAssumption DEF TypeOK
  <2> QED
    BY Zenon, <1>1, <2>2 DEF LoggedInv, Cur, CurOp
<1>11. Recoverable'
  BY Zenon, <1>1 DEF Recoverable, Hit, FileRows
<1>12. NothingLost'
  <2> SUFFICES ASSUME NEW q \in Partition, NEW s \in 1 .. Len(log[SequencerOf[q]]),
                      Hit(s, q), <<s, q>> \notin gone'
               PROVE  \/ s \in FileRows(q) \cup persisting[q].rows \cup buf'[q].rows
                      \/ s >= next[SequencerOf[q]]
                      \/ s = Cur(SequencerOf[q]) /\ q \in remaining'[SequencerOf[q]]
    BY ZenonT(30), <1>1 DEF NothingLost, Hit, FileRows, Cur
  <2>1. buf'[q].rows = buf[q].rows
    BY Zenon
  <2>2. CASE SequencerOf[q] # k
    <3>1. remaining'[SequencerOf[q]] = remaining[SequencerOf[q]]
      BY <1>1, <2>2, ShardingAssumption DEF TypeOK
    <3> QED
      BY ZenonT(30), <1>1, <2>1, <3>1 DEF NothingLost
  <2>3. CASE SequencerOf[q] = k
    <3>1. ~(s = Cur(k) /\ q \in remaining[k])
      BY Zenon, <1>1, <2>3 DEF Hit, CurOp
    <3> QED
      BY Zenon, <1>1, <2>1, <2>3, <3>1 DEF NothingLost
  <2> QED
    BY Zenon, <2>2, <2>3
<1> QED
  BY Zenon, <1>3, <1>5, <1>6, <1>7, <1>8, <1>9, <1>10, <1>11, <1>12

\* DataBuffer::buffer_write fails: the batch's maximum was raised all the same.
LEMMA BufferWriteErrorStep ==
  ASSUME IndInv, NEW k \in Sequencer, NEW p \in PartitionsOf(k), BufferWriteError(k, p)
  PROVE  IndInv'
<1>1. /\ p \in logged /\ p \in remaining[k] /\ buf[p] # NoBatch
      /\ buf' = [buf EXCEPT ![p].max = Raised(buf[p], Cur(k))]
      /\ logged' = logged \ {p} /\ DropOperation(k)
  BY Zenon DEF BufferWriteError, HasBuffer
<1>2. p \in Partition /\ SequencerOf[p] = k
  BY Zenon DEF PartitionsOf
<1>3. logged' \subseteq logged /\ logged' \cap PartitionsOf(k) = {} /\ p \in known
  BY Zenon, <1>1, <1>2 DEF IndInv, LoggedInv, PartitionsOf
<1>4. Cur(k) \in Nat /\ buf \in [Partition -> Batch] /\ buf[p].rows # {}
  <2>1. Cur(k) \in Nat
    BY <1>1 DEF IndInv, PositionsInv, PositionsOf
  <2>2. buf \in [Partition -> Batch]
    BY Zenon DEF IndInv, TypeOK, MemoryType
  <2>3. buf[p].rows # {}
    BY Zenon, <1>1, <1>2 DEF IndInv, OrderInv, OrderOf
  <2> QED
    BY Zenon, <2>1, <2>2, <2>3
<1>5. buf[p] \in Batch
  BY Zenon, <1>2, <1>4
<1>6. /\ buf' \in [Partition -> Batch] /\ \A q \in Partition : q # p => buf'[q] = buf[q]
      /\ \/ buf'[p] = buf[p]
         \/ /\ buf'[p].rows = buf[p].rows /\ buf'[p].max = Cur(k)
            /\ buf[p].snapped = FALSE /\ buf'[p].snapped = FALSE
  <2>1. \A q \in Partition : q # p => buf'[q] = buf[q]
    BY Zenon, <1>1, <1>4
  <2>2. buf'[p] = [buf[p] EXCEPT !.max = Raised(buf[p], Cur(k))]
    BY <1>1, <1>2, <1>4
  <2>3. /\ buf'[p] \in Batch
        /\ \/ buf'[p] = buf[p]
           \/ /\ buf'[p].rows = buf[p].rows /\ buf'[p].max = Cur(k)
              /\ buf[p].snapped = FALSE /\ buf'[p].snapped = FALSE
    BY <1>4, <1>5, <2>2 DEF Batch, Raised
  <2>4. buf' = [q \in Partition |-> buf'[q]]
    BY Zenon, <1>1, <1>4
  <2>5. \A q \in Partition : buf'[q] \in Batch
    BY Zenon, <1>4, <2>1, <2>3
  <2> QED
    BY Zenon, <2>1, <2>3, <2>4, <2>5
<1> QED
  BY ZenonT(30), <1>1, <1>2, <1>3, <1>4, <1>6, DropStep

\* A catalog lookup fails before anything of the table is logged.
LEMMA CatalogErrorStep ==
  ASSUME IndInv, NEW k \in Sequencer, CatalogError(k)
  PROVE  IndInv'
<1>1. /\ remaining[k] # {} /\ logged \cap PartitionsOf(k) = {}
      /\ UNCHANGED <<buf, logged>> /\ DropOperation(k)
  BY Zenon DEF CatalogError
<1>2. buf' \in [Partition -> Batch]
  BY Zenon, <1>1 DEF IndInv, TypeOK, MemoryType
<1> QED
  BY Zenon, <1>1, <1>2, DropStep

\* A batch with fewer rows and a higher maximum is a batch.
LEMMA ErasedBatch ==
  \A R \in SUBSET (Nat \ {0}), m \in Nat \ {0} : [rows |-> R, max |-> m, snapped |-> TRUE] \in Batch
BY Zenon DEF Batch

\* buffer_tombstone erases rows of the buffer and raises its maximum.
LEMMA ApplyDeleteStep ==
  ASSUME IndInv, NEW k \in Sequencer, ApplyDelete(k)
  PROVE  IndInv'
<1> USE DEF IndInv
<1>1. /\ remaining[k] # {} /\ CurOp(k).kind = "delete"
      /\ buf' = [p \in Partition |-> AfterDelete(k, p)]
      /\ gone' = gone \cup UNION {{<<s, p>> : s \in Matched(k, p)} : p \in Partition}
      /\ remaining' = [remaining EXCEPT ![k] = {}]
      /\ UNCHANGED <<log, next, logged, pausing, known, maxPersisted, persisting, statsVars, managerVars, durableVars, copies, crashes, failures>>
  BY ZenonT(30) DEF ApplyDelete
<1> USE DEF streamVars, memoryVars, statsVars, managerVars, durableVars, historyVars
<1>2. /\ Cur(k) \in 1 .. Len(log[k]) /\ Cur(k) \in Nat \ {0} /\ Cur(k) < next[k] /\ next[k] \in Nat
      /\ CurOp(k).parts \subseteq PartitionsOf(k) /\ Stops # {}
  <2>1. PositionsOf(k) /\ next[k] \in Nat /\ log[k] \in Seq(OpType)
    BY Zenon DEF PositionsInv, TypeOK, StreamType
  <2>2. Cur(k) \in 1 .. Len(log[k])
    BY Zenon, <1>1, <2>1 DEF PositionsOf
  <2>3. Cur(k) \in Nat \ {0} /\ Cur(k) < next[k]
    BY SMTT(30), <2>1, <2>2 DEF Cur
  <2>4. CurOp(k).parts \subseteq PartitionsOf(k) /\ (CurOp(k).kind = "delete" => Stops # {})
    BY Zenon, <2>1, <2>2 DEF PositionsOf, CurOp
  <2> QED
    BY Zenon, <1>1, <2>1, <2>2, <2>3, <2>4
<1>3. \A q \in Partition : /\ Matched(k, q) \subseteq buf[q].rows
                           /\ Matched(k, q) # {} => q \in known
                           /\ buf[q].rows # {} \/ buf[q] = NoBatch
                           /\ buf[q] \in Batch
  BY ZenonT(30) DEF Matched, OrderInv, OrderOf, TypeOK, MemoryType
<1>4. NoBatch.rows = {} /\ NoBatch.max = 0 /\ NoBatch \in Batch /\ NoBatch' = NoBatch
      /\ NoBatch.snapped = FALSE
  BY DEF NoBatch, Batch
<1>5. \A q \in Partition :
        /\ buf'[q].rows = buf[q].rows \ Matched(k, q)
        /\ \/ buf'[q] = buf[q]
           \/ buf'[q] = NoBatch
           \/ /\ SequencerOf[q] = k /\ q \in known
              /\ buf'[q].rows # {} /\ buf'[q].max = Cur(k) /\ buf'[q] \in Batch
              /\ buf'[q].snapped = TRUE
  <2> SUFFICES ASSUME NEW q \in Partition
               PROVE  /\ buf'[q].rows = buf[q].rows \ Matched(k, q)
                      /\ \/ buf'[q] = buf[q]
                         \/ buf'[q] = NoBatch
                         \/ /\ SequencerOf[q] = k /\ q \in known
                            /\ buf'[q].rows # {} /\ buf'[q].max = Cur(k) /\ buf'[q] \in Batch
                            /\ buf'[q].snapped = TRUE
    BY Zenon
  <2>1. CASE q \notin CurOp(k).parts \cap known \/ buf[q] = NoBatch
    BY Zenon, <1>1, <1>3, <1>4, <2>1 DEF AfterDelete, Matched
  <2>2. CASE q \in CurOp(k).parts \cap known /\ buf[q] # NoBatch /\ buf[q].rows = Matched(k, q)
    BY ZenonT(30), <1>1, <1>3, <1>4, <2>2 DEF AfterDelete
  <2>3. CASE q \in CurOp(k).parts \cap known /\ buf[q] # NoBatch /\ buf[q].rows # Matched(k, q)
    <3>1. buf'[q] = [rows |-> buf[q].rows \ Matched(k, q), max |-> Cur(k), snapped |-> TRUE]
      BY Zenon, <1>1, <2>3 DEF AfterDelete
    <3>2. buf[q].rows \ Matched(k, q) # {} /\ SequencerOf[q] = k
      BY ZenonT(30), <1>2, <1>3, <2>3 DEF PartitionsOf
    <3>3. /\ buf'[q].rows = buf[q].rows \ Matched(k, q)
          /\ buf'[q].max = Cur(k) /\ buf'[q].snapped = TRUE
      BY SMTT(30), <3>1
    <3>4. buf[q].rows \ Matched(k, q) \in SUBSET (Nat \ {0})
      BY Zenon, <1>3 DEF Batch
    <3>5. buf'[q] \in Batch
      BY Zenon, <1>2, <3>1, <3>4, ErasedBatch
    <3> QED
      BY Zenon, <2>3, <3>2, <3>3, <3>5
  <2> QED
    BY Zenon, <2>1, <2>2, <2>3
<1>6. \A j \in Sequencer : remaining'[j] \subseteq remaining[j]
  <2>1. remaining \in [Sequencer -> SUBSET Partition]
    BY Zenon DEF TypeOK, StreamType
  <2>2. remaining' = [remaining EXCEPT ![k] = {}]
    BY Zenon, <1>1
  <2> QED
    BY Zenon, <2>1, <2>2
<1>7. TypeOK'
  <2>1. buf' \in [Partition -> Batch]
    BY ZenonT(30), <1>1, <1>3, <1>4, <1>5
  <2>2. gone' \subseteq (Nat \ {0}) \X Partition
    <3>1. \A q \in Partition : Matched(k, q) \subseteq Nat \ {0}
      BY Zenon, <1>3 DEF Batch
    <3> QED
      BY <1>1, <3>1 DEF TypeOK, HistoryType
  <2>3. remaining' \in [Sequencer -> SUBSET Partition]
    BY Zenon, <1>1 DEF TypeOK, StreamType
  <2>4. StreamType'
    BY Zenon, <1>1, <2>3 DEF TypeOK, StreamType
  <2>5. MemoryType'
    BY Zenon, <1>1, <2>1 DEF TypeOK, MemoryType
  <2>6. HistoryType'
    BY Zenon, <1>1, <2>2 DEF TypeOK, HistoryType
  <2> QED
    BY Zenon, <1>1, <2>4, <2>5, <2>6, TypeFrame DEF TypeOK
<1>8. PositionsInv'
  BY Zenon, <1>1, <1>6, PositionsOfFrame DEF PositionsInv
<1>9. PersistedInv' /\ CatalogBacked'
  BY Zenon, <1>1, PersistedFrame, CatalogFrame
<1>10. OrderInv'
  <2> SUFFICES ASSUME NEW q \in Partition PROVE OrderOf(q)'
    BY Zenon DEF OrderInv
  <2>1. OrderOf(q) /\ SequencerOf[q] \in Sequencer /\ next[SequencerOf[q]] \in Nat \ {0}
    BY Zenon, ShardingAssumption DEF OrderInv, TypeOK, StreamType
  <2>2. CASE buf'[q] = buf[q]
    BY ZenonT(30), <1>1, <1>6, <2>1, <2>2, OrderOfFrame
  <2>3. CASE buf'[q] = NoBatch
    <3>1. q \in remaining'[SequencerOf[q]] => q \in remaining[SequencerOf[q]]
      BY Zenon, <1>6, <2>1
    <3>2. persisting[q].max \in Nat
      BY Zenon DEF TypeOK, MemoryType, Batch
    <3>3. \A f : MaxOfAll(f)' = MaxOfAll(f) /\ Covered(f)' = Covered(f)
      BY Zenon DEF MaxOfAll, Covered
    <3>4. buf'[q].rows = {} /\ buf'[q].max = 0 /\ MaxOfAll(buf'[q]) /\ buf'[q].snapped = FALSE
      BY Zenon, <1>4, <2>3 DEF MaxOfAll
    <3>5. 0 < next[SequencerOf[q]]
          /\ (q \in remaining[SequencerOf[q]] => 0 < Cur(SequencerOf[q]))
      <4>1. persisting[q].max < next[SequencerOf[q]]
            /\ (q \in remaining[SequencerOf[q]] => persisting[q].max < Cur(SequencerOf[q]))
        BY ZenonT(30), <2>1 DEF OrderOf
      <4>2. Cur(SequencerOf[q]) \in Int
        BY <2>1 DEF Cur
      <4> HIDE DEF IndInv
      <4> QED
        BY <2>1, <3>2, <4>1, <4>2
    <3>6. UNCHANGED <<next, log, persisting, files, task>>
          /\ Cur(SequencerOf[q])' = Cur(SequencerOf[q])
      BY Zenon, <1>1 DEF Cur
    <3> HIDE DEF IndInv, NoBatch
    <3> QED
      BY ZenonT(30), <1>4, <2>1, <2>3, <3>1, <3>3, <3>4, <3>5, <3>6 DEF OrderOf
  <2>4. CASE /\ SequencerOf[q] = k /\ q \in known
             /\ buf'[q].rows # {} /\ buf'[q].max = Cur(k) /\ buf'[q].snapped = TRUE
    <3>1. q \notin remaining'[k]
      BY ZenonT(30), <1>1 DEF TypeOK, StreamType
    <3>2. \A s \in buf[q].rows : s <= Cur(k)
      <4>1. buf[q].max \in Nat /\ \A s \in buf[q].rows : s \in Nat
        BY Zenon, <1>3 DEF Batch
      <4>2. \A s \in buf[q].rows : s < next[k]
        BY Zenon, <2>1, <2>4 DEF OrderOf
      <4> QED
        BY <1>2, <4>1, <4>2 DEF Cur
    <3>3. buf'[q].rows \subseteq buf[q].rows
      BY Zenon, <1>5
    <3>4. \A f : MaxOfAll(f)' = MaxOfAll(f) /\ Covered(f)' = Covered(f)
      BY Zenon DEF MaxOfAll, Covered
    <3>5. Covered(buf'[q]) # {}
      BY Zenon, <2>4, <3>2, <3>3 DEF Covered
    <3>6. persisting[q].max < Cur(k)
      <4>1. persisting[q].max \in Nat
        BY Zenon DEF TypeOK, MemoryType, Batch
      <4>2. PICK s \in buf[q].rows : persisting[q].max < s /\ s <= Cur(k) /\ s \in Nat
        BY ZenonT(30), <1>3, <2>1, <2>4, <3>2, <3>3 DEF OrderOf, Batch
      <4> QED
        BY <1>2, <4>1, <4>2
    <3> HIDE DEF IndInv
    <3> QED
      BY ZenonT(30), <1>1, <1>2, <2>1, <2>4, <3>1, <3>2, <3>3, <3>4, <3>5, <3>6 DEF OrderOf, NoBatch
  <2> QED
    BY Zenon, <1>5, <2>2, <2>3, <2>4
<1>11. TaskInv'
  BY Zenon, <1>1, <1>4, <1>5 DEF TaskInv
<1>12. StatsInv'
  BY Zenon, <1>1, <1>5 DEF StatsInv
<1>13. LoggedInv'
  <2>1. \A q \in logged : q \in Partition /\ SequencerOf[q] # k
    BY ZenonT(30), <1>1 DEF LoggedInv, TypeOK, StreamType
  <2>2. \A q \in logged : remaining'[SequencerOf[q]] = remaining[SequencerOf[q]]
    BY <1>1, <2>1, ShardingAssumption DEF TypeOK
  <2> QED
    BY Zenon, <1>1, <2>2 DEF LoggedInv, Cur, CurOp
<1>14. Recoverable'
  BY ZenonT(30), <1>1 DEF Recoverable, Hit, FileRows
<1>15. NothingLost'
  <2> SUFFICES ASSUME NEW q \in Partition, NEW s \in 1 .. Len(log[SequencerOf[q]]),
                      Hit(s, q), <<s, q>> \notin gone'
               PROVE  \/ s \in FileRows(q) \cup persisting[q].rows \cup buf'[q].rows
                      \/ s >= next[SequencerOf[q]]
                      \/ s = Cur(SequencerOf[q]) /\ q \in remaining'[SequencerOf[q]]
    BY Zenon, <1>1 DEF NothingLost, Hit, FileRows, Cur
  <2>1. s \notin Matched(k, q) /\ <<s, q>> \notin gone
    BY <1>1
  <2>2. ~(SequencerOf[q] = k /\ s = Cur(k))
    BY ZenonT(30), <1>1 DEF Hit, CurOp
  <2>3. SequencerOf[q] # k => remaining'[SequencerOf[q]] = remaining[SequencerOf[q]]
    BY <1>1, ShardingAssumption DEF TypeOK
  <2>4. \/ s \in FileRows(q) \cup persisting[q].rows \cup buf[q].rows
        \/ s >= next[SequencerOf[q]]
        \/ s = Cur(SequencerOf[q]) /\ q \in remaining[SequencerOf[q]]
    BY Zenon, <2>1 DEF NothingLost
  <2>5. buf'[q].rows = buf[q].rows \ Matched(k, q)
    BY Zenon, <1>5
  <2> HIDE DEF IndInv
  <2> QED
    BY Zenon, <2>1, <2>2, <2>3, <2>4, <2>5
<1> QED
  BY Zenon, <1>7, <1>8, <1>9, <1>10, <1>11, <1>12, <1>13, <1>14, <1>15

\* What one more position changes in the order of the positions of a stream.
LEMMA OnePositionMore ==
  \A a, b \in Nat : /\ a < b => a < b + 1
                    /\ a <= b => a <= b + 1 /\ a + 1 <= b + 1 /\ b >= a
                    /\ a >= b => a >= b + 1 \/ a = b
OBVIOUS

\* A position up to the end of the log is below every position after the end.
LEMMA PositionsAreOrdered ==
  \A a, b, c \in Nat : a <= b => (b <= c => a <= c) /\ (c > b => a < c)
OBVIOUS

\* The handler takes an operation: its rows are still to be applied.
LEMMA ReceiveStep ==
  ASSUME IndInv, NEW k \in Sequencer, NEW op \in Operation(k), Receive(k, op)
  PROVE  IndInv'
<1> USE DEF IndInv
<1> DEFINE n == next[k]  L == Len(log[k])
<1>1. /\ remaining[k] = {}
      /\ \/ n <= L /\ op = log[k][n] /\ log' = log
         \/ n = L + 1 /\ log' = [log EXCEPT ![k] = Append(@, op)]
      /\ next' = [next EXCEPT ![k] = @ + 1]
      /\ remaining' = [remaining EXCEPT ![k] = op.parts]
      /\ UNCHANGED <<logged, pausing, memoryVars, statsVars, managerVars, durableVars, historyVars>>
  BY Zenon DEF Receive
<1> USE DEF memoryVars, statsVars, managerVars, durableVars, historyVars
<1>2. /\ op \in OpType /\ op.parts \subseteq PartitionsOf(k) /\ op.parts \subseteq Partition
      /\ op.kind = "delete" => Stops # {}
  BY Zenon, OperationType DEF PartitionsOf
<1>3. /\ log \in [Sequencer -> Seq(OpType)] /\ n \in Nat \ {0} /\ L \in Nat
      /\ PositionsOf(k) /\ n <= L + 1
  <2>1. log \in [Sequencer -> Seq(OpType)] /\ n \in Nat \ {0}
    BY Zenon DEF TypeOK, StreamType
  <2>2. L \in Nat
    BY <2>1
  <2>3. PositionsOf(k) /\ n <= L + 1
    BY Zenon DEF PositionsInv, PositionsOf
  <2> QED
    BY Zenon, <2>1, <2>2, <2>3
<1>4. /\ log' \in [Sequencer -> Seq(OpType)] /\ Len(log'[k]) \in Nat
      /\ n \in 1 .. Len(log'[k]) /\ log'[k][n] = op /\ L <= Len(log'[k])
      /\ \A s \in 1 .. Len(log'[k]) : s # n => s \in 1 .. L /\ log'[k][s] = log[k][s]
      /\ \A s \in 1 .. Len(log'[k]) : s \in 1 .. L => log'[k][s] = log[k][s]
      /\ n \in 1 .. L \/ n > L
      /\ \A j \in Sequencer : j # k => log'[j] = log[j]
  <2>1. CASE n <= L /\ op = log[k][n] /\ log' = log
    <3>1. n \in 1 .. L /\ L <= L
      <4>1. n \in Nat \ {0} /\ L \in Nat /\ n <= L
        BY Zenon, <1>3, <2>1
      <4> HIDE DEF n, L, IndInv
      <4> QED
        BY <4>1
    <3> QED
      BY Zenon, <1>3, <2>1, <3>1
  <2>2. CASE n = L + 1 /\ log' = [log EXCEPT ![k] = Append(@, op)]
    <3>1. log[k] \in Seq(OpType) /\ log'[k] = Append(log[k], op)
      BY Zenon, <1>3, <2>2
    <3>2. /\ Append(log[k], op) \in Seq(OpType) /\ Len(Append(log[k], op)) = L + 1
          /\ Append(log[k], op)[L + 1] = op
          /\ \A s \in 1 .. L : Append(log[k], op)[s] = log[k][s]
      BY <1>2, <3>1
    <3>3. log' \in [Sequencer -> Seq(OpType)] /\ \A j \in Sequencer : j # k => log'[j] = log[j]
      BY ZenonT(30), <1>3, <2>2, <3>2
    <3>4. L \in Nat /\ n = L + 1 /\ Len(log'[k]) = L + 1
      BY Zenon, <1>3, <2>2, <3>1, <3>2
    <3> HIDE DEF n, L, IndInv
    <3>5. /\ L + 1 \in Nat /\ n \in 1 .. (L + 1) /\ L <= L + 1 /\ n > L
          /\ \A s \in 1 .. (L + 1) : s # n => s \in 1 .. L
      BY <3>4
    <3> QED
      BY Zenon, <3>1, <3>2, <3>3, <3>4, <3>5
  <2> QED
    BY Zenon, <1>1, <2>1, <2>2
<1>15. /\ n \in Nat /\ n # 0 /\ L \in Nat /\ Len(log'[k]) \in Nat
       /\ n <= Len(log'[k]) /\ L <= Len(log'[k])
  <2>1. n \in Nat \ {0} /\ n \in 1 .. Len(log'[k])
    BY Zenon, <1>3, <1>4
  <2>2. n \in Nat /\ n # 0 /\ n <= Len(log'[k])
    <3> HIDE DEF n, L, IndInv
    <3> QED
      BY <2>1
  <2> QED
    BY Zenon, <1>3, <1>4, <2>2
<1>5. /\ next'[k] = n + 1 /\ Cur(k)' = n /\ remaining'[k] = op.parts
      /\ \A j \in Sequencer : j # k => next'[j] = next[j] /\ remaining'[j] = remaining[j]
  <2>1. next'[k] = n + 1 /\ remaining'[k] = op.parts
    BY ZenonT(30), <1>1 DEF TypeOK, StreamType
  <2>2. \A j \in Sequencer : j # k => next'[j] = next[j] /\ remaining'[j] = remaining[j]
    BY Zenon, <1>1 DEF TypeOK, StreamType
  <2>3. next'[k] - 1 = n
    <3> HIDE DEF n, L, IndInv
    <3> QED
      BY <1>15, <2>1
  <2> QED
    BY Zenon, <2>1, <2>2, <2>3 DEF Cur
<1>6. TypeOK'
  <2>1. next' \in [Sequencer -> Nat \ {0}]
    <3>1. n + 1 \in Nat \ {0}
      <4> HIDE DEF n, L, IndInv
      <4> QED
        BY <1>15
    <3>2. next \in [Sequencer -> Nat \ {0}]
      BY Zenon DEF TypeOK, StreamType
    <3> QED
      BY Zenon, <1>1, <3>1, <3>2
  <2>2. remaining' \in [Sequencer -> SUBSET Partition]
    BY Zenon, <1>1, <1>2 DEF TypeOK, StreamType
  <2> QED
    BY Zenon, <1>1, <1>4, <2>1, <2>2, TypeFrame DEF TypeOK, StreamType
<1>7. PersistedInv' /\ TaskInv' /\ CatalogBacked'
  BY Zenon, <1>1, PersistedFrame, TaskFrame, CatalogFrame
<1>8. PositionsInv'
  <2> SUFFICES ASSUME NEW j \in Sequencer PROVE PositionsOf(j)'
    BY Zenon DEF PositionsInv
  <2>1. CASE j # k
    BY Zenon, <1>1, <1>4, <1>5, <2>1, PositionsOfFrame DEF PositionsInv
  <2>2. CASE j = k
    <3>1. /\ minUnpersisted'[k] = minUnpersisted[k] /\ minUnpersisted[k] \in Nat
          /\ target'[k] = target[k] /\ target[k] \in Nat
      BY Zenon, <1>1 DEF TypeOK, ManagerType, DurableType
    <3>2. CurOp(k)' = op
      BY Zenon, <1>4, <1>5 DEF CurOp
    <3>3. \A s \in 1 .. Len(log'[k]) : /\ log'[k][s].parts \subseteq PartitionsOf(k)
                                       /\ log'[k][s].kind = "delete" => Stops # {}
      <4> TAKE s \in 1 .. Len(log'[k])
      <4>1. CASE s = n
        BY ZenonT(30), <1>2, <1>4, <4>1
      <4>2. CASE s # n
        <5>1. s \in 1 .. L /\ log'[k][s] = log[k][s]
          BY Zenon, <1>4, <4>2
        <5> QED
          BY Zenon, <1>3, <5>1 DEF PositionsOf
      <4> QED
        BY ZenonT(30), <4>1, <4>2
    <3> HIDE DEF n, L
    <3>4. PositionsOf(k)'
      <4>1. minUnpersisted[k] <= n /\ target[k] < n /\ (target[k] # 0 => minUnpersisted[k] <= target[k])
        BY Zenon, <1>3 DEF PositionsOf, n
      <4>2. PartitionsOf(k)' = PartitionsOf(k)
        BY Zenon DEF PartitionsOf
      <4>3. n \in Nat /\ Len(log'[k]) \in Nat /\ n <= Len(log'[k])
        BY Zenon, <1>15
      <4>4. /\ n + 1 <= Len(log'[k]) + 1 /\ minUnpersisted[k] <= n + 1 /\ target[k] < n + 1
        BY Zenon, <3>1, <4>1, <4>3, OnePositionMore
      <4>5. remaining'[k] \subseteq CurOp(k)'.parts
        BY Zenon, <1>5, <3>2
      <4> HIDE DEF IndInv
      <4> QED
        BY Zenon, <1>4, <1>5, <3>1, <3>3, <4>1, <4>2, <4>4, <4>5 DEF PositionsOf
    <3> QED
      BY Zenon, <2>2, <3>4
  <2> QED
    BY Zenon, <2>1, <2>2
<1>9. OrderInv'
  <2> SUFFICES ASSUME NEW q \in Partition PROVE OrderOf(q)'
    BY Zenon DEF OrderInv
  <2>1. OrderOf(q) /\ SequencerOf[q] \in Sequencer
    BY Zenon, ShardingAssumption DEF OrderInv
  <2>0. \A f : MaxOfAll(f)' = MaxOfAll(f) /\ Covered(f)' = Covered(f)
    BY Zenon DEF MaxOfAll, Covered
  <2>2. CASE SequencerOf[q] # k
    BY Zenon, <1>1, <1>4, <1>5, <2>0, <2>1, <2>2 DEF OrderOf, Cur, NoBatch
  <2>3. CASE SequencerOf[q] = k
    <3>1. buf[q] \in Batch /\ persisting[q] \in Batch /\ files[q] \subseteq Batch
      BY Zenon DEF TypeOK, MemoryType, DurableType
    <3>2. buf[q].max \in Nat /\ persisting[q].max \in Nat /\ \A f \in files[q] : f.max \in Nat
      BY ZenonT(30), <3>1 DEF Batch
    <3>3. \A f \in files[q] : f.max <= Len(log'[k])
      <4>1. \A f \in files[q] : f.max <= Len(log[k])
        BY ZenonT(30), <2>1, <2>3 DEF OrderOf
      <4> QED
        BY Zenon, <1>15, <3>2, <4>1, PositionsAreOrdered
    <3>4. buf[q].max < n /\ persisting[q].max < n /\ buf[q].max < n + 1 /\ persisting[q].max < n + 1
      <4>1. buf[q].max < n /\ persisting[q].max < n
        BY ZenonT(30), <2>1, <2>3 DEF OrderOf
      <4> HIDE DEF n, L
      <4> QED
        BY Zenon, <1>15, <3>2, <4>1, OnePositionMore
    <3>5. \A s \in buf[q].rows : s < n + 1
      <4>1. \A s \in buf[q].rows : s < n /\ s \in Nat
        BY Zenon, <2>1, <2>3, <3>1 DEF OrderOf, Batch
      <4> HIDE DEF n, L
      <4> QED
        BY Zenon, <1>15, <4>1, OnePositionMore
    <3>6. next'[SequencerOf[q]] = n + 1 /\ Cur(SequencerOf[q])' = n
          /\ log'[SequencerOf[q]] = log'[k]
      BY Zenon, <1>5, <2>3
    <3>7. UNCHANGED <<buf, persisting, files, task>> /\ NoBatch' = NoBatch
      BY Zenon, <1>1 DEF NoBatch
    <3> HIDE DEF n, L, IndInv, NoBatch
    <3> QED
      BY Zenon, <2>0, <2>1, <3>3, <3>4, <3>5, <3>6, <3>7 DEF OrderOf
  <2> QED
    BY Zenon, <2>2, <2>3
<1>10. StatsInv'
  <2> SUFFICES ASSUME NEW q \in Partition PROVE first[q] < next'[SequencerOf[q]]
    BY Zenon, <1>1 DEF StatsInv
  <2>1. first[q] \in Nat /\ first[q] < next[SequencerOf[q]] /\ SequencerOf[q] \in Sequencer
    BY Zenon, ShardingAssumption DEF StatsInv, TypeOK, StreamType, StatsType
  <2>2. CASE SequencerOf[q] # k
    BY Zenon, <1>5, <2>1, <2>2
  <2>3. CASE SequencerOf[q] = k
    <3>1. first[q] < n /\ next'[SequencerOf[q]] = n + 1 /\ n \in Nat
      BY Zenon, <1>3, <1>5, <2>1, <2>3
    <3> HIDE DEF n, L, IndInv
    <3>2. first[q] < n + 1
      BY Zenon, <2>1, <3>1, OnePositionMore
    <3> QED
      BY Zenon, <3>1, <3>2
  <2> QED
    BY Zenon, <2>2, <2>3
<1>11. LoggedInv'
  <2>1. \A q \in logged : SequencerOf[q] \in Sequencer /\ SequencerOf[q] # k
    BY Zenon, <1>1, ShardingAssumption DEF LoggedInv, TypeOK, StreamType
  <2>2. \A q \in logged : LET j == SequencerOf[q] IN
           remaining'[j] = remaining[j] /\ Cur(j)' = Cur(j) /\ CurOp(j)' = CurOp(j)
    BY Zenon, <1>4, <1>5, <2>1 DEF Cur, CurOp
  <2>3. UNCHANGED <<logged, known, first, task, files>> /\ LoggedInv
    BY Zenon, <1>1
  <2> HIDE DEF IndInv
  <2>4. ASSUME NEW q \in logged
        PROVE  LET j == SequencerOf[q] IN
                 /\ q \in remaining'[j] /\ CurOp(j)'.kind = "write" /\ q \in known
                 /\ first[q] # 0 \/ task[q] = "spawned"
                 /\ \A f \in files[q] : f.max < Cur(j)'
    <3> DEFINE j == SequencerOf[q]
    <3>1. /\ q \in remaining[j] /\ CurOp(j).kind = "write" /\ q \in known
          /\ first[q] # 0 \/ task[q] = "spawned"
          /\ \A f \in files[q] : f.max < Cur(j)
      BY Zenon, <2>3 DEF LoggedInv
    <3>2. remaining'[j] = remaining[j] /\ Cur(j)' = Cur(j) /\ CurOp(j)' = CurOp(j)
      BY Zenon, <2>2
    <3> HIDE DEF j
    <3>3. q \in remaining'[j] /\ CurOp(j)'.kind = "write"
      BY Zenon, <3>1, <3>2
    <3>4. \A f \in files[q] : f.max < Cur(j)'
      BY Zenon, <3>1, <3>2
    <3> QED
      BY Zenon, <3>1, <3>3, <3>4 DEF j
  <2> QED
    BY Zenon, <2>3, <2>4 DEF LoggedInv
<1>12. ASSUME NEW q \in Partition, NEW s \in 1 .. Len(log'[SequencerOf[q]]), Hit(s, q)'
       PROVE  \/ s \in 1 .. Len(log[SequencerOf[q]]) /\ Hit(s, q)
              \/ SequencerOf[q] = k /\ s = n /\ q \in op.parts /\ n > L
  <2>1. CASE SequencerOf[q] # k
    BY Zenon, <1>4, <1>12, <2>1, ShardingAssumption DEF Hit
  <2>2. CASE SequencerOf[q] = k
    BY Zenon, <1>4, <1>12, <2>2 DEF Hit
  <2> QED
    BY Zenon, <2>1, <2>2
<1>13. Recoverable'
  <2> SUFFICES ASSUME NEW q \in Partition, NEW s \in 1 .. Len(log'[SequencerOf[q]]), Hit(s, q)',
                      <<s, q>> \notin gone, s \notin FileRows(q)
               PROVE  /\ s >= minUnpersisted[SequencerOf[q]]
                      /\ \A f \in files[q] : f.max < s
    BY Zenon, <1>1 DEF Recoverable, FileRows
  <2>1. CASE s \in 1 .. Len(log[SequencerOf[q]]) /\ Hit(s, q)
    BY Zenon, <2>1 DEF Recoverable
  <2>2. CASE SequencerOf[q] = k /\ s = n /\ n > L
    <3>1. \A f \in files[q] : f.max \in Nat /\ f.max <= L
      <4>1. files[q] \subseteq Batch /\ \A f \in files[q] : f.max <= Len(log[k])
        BY Zenon, <2>2 DEF TypeOK, DurableType, OrderInv, OrderOf
      <4>2. \A f \in files[q] : f.max \in Nat
        BY ZenonT(30), <4>1 DEF Batch
      <4> QED
        BY Zenon, <4>1, <4>2
    <3>2. minUnpersisted[k] <= n /\ minUnpersisted[k] \in Nat
      BY Zenon, <1>3 DEF PositionsOf, TypeOK, DurableType
    <3>3. n >= minUnpersisted[k] /\ \A f \in files[q] : f.max < n
      <4>1. n \in Nat /\ L \in Nat /\ n > L
        BY Zenon, <1>15, <2>2
      <4> HIDE DEF n, L, IndInv
      <4> QED
        BY Zenon, <3>1, <3>2, <4>1, OnePositionMore, PositionsAreOrdered
    <3> QED
      BY Zenon, <2>2, <3>3
  <2> QED
    BY Zenon, <1>12, <2>1, <2>2
<1>14. NothingLost'
  <2> SUFFICES ASSUME NEW q \in Partition, NEW s \in 1 .. Len(log'[SequencerOf[q]]), Hit(s, q)',
                      <<s, q>> \notin gone,
                      s \notin FileRows(q) \cup persisting[q].rows \cup buf[q].rows
               PROVE  \/ s >= next'[SequencerOf[q]]
                      \/ s = Cur(SequencerOf[q])' /\ q \in remaining'[SequencerOf[q]]
    BY ZenonT(30), <1>1 DEF NothingLost, FileRows
  <2>1. CASE SequencerOf[q] # k
    <3>1. s \in 1 .. Len(log[SequencerOf[q]]) /\ Hit(s, q)
      BY ZenonT(30), <1>12, <2>1
    <3>2. \/ s >= next[SequencerOf[q]]
          \/ s = Cur(SequencerOf[q]) /\ q \in remaining[SequencerOf[q]]
      BY Zenon, <3>1 DEF NothingLost
    <3>3. /\ next'[SequencerOf[q]] = next[SequencerOf[q]]
          /\ remaining'[SequencerOf[q]] = remaining[SequencerOf[q]]
      BY Zenon, <1>5, <2>1, ShardingAssumption
    <3> QED
      BY Zenon, <3>2, <3>3 DEF Cur
  <2>2. CASE SequencerOf[q] = k
    <3>1. s >= n
      <4>1. CASE s \in 1 .. Len(log[SequencerOf[q]]) /\ Hit(s, q)
        BY Zenon, <1>1, <2>2, <4>1 DEF NothingLost
      <4>2. CASE s = n
        <5> HIDE DEF n, IndInv
        <5> QED
          BY <1>15, <4>2
      <4> QED
        BY Zenon, <1>12, <4>1, <4>2
    <3>2. s = n => q \in op.parts
      BY ZenonT(30), <1>4, <2>2 DEF Hit
    <3>3. s \in Nat
      <4> HIDE DEF n, L, IndInv
      <4> QED
        BY <1>15, <2>2
    <3>4. s >= n + 1 \/ s = n
      <4> HIDE DEF n, IndInv
      <4> QED
        BY Zenon, <1>15, <3>1, <3>3, OnePositionMore
    <3> QED
      BY Zenon, <1>5, <2>2, <3>2, <3>4
  <2> QED
    BY Zenon, <2>1, <2>2
<1> QED
  BY Zenon, <1>6, <1>7, <1>8, <1>9, <1>10, <1>11, <1>13, <1>14

-------------------------------------------------------------------------------
(* Crashes, and the theorems *)

\* A crash loses the memory; the restart rewinds every stream to the catalog's
\* minimum, at or before every row that is in no file.
LEMMA CrashAndRestartStep ==
  ASSUME IndInv, CrashAndRestart
  PROVE  IndInv'
<1> USE DEF IndInv
<1>1. /\ crashes' = crashes + 1
      /\ remaining' = [k \in Sequencer |-> {}] /\ logged' = {}
      /\ pausing' = [k \in Sequencer |-> FALSE]
      /\ known' = {} /\ maxPersisted' = [p \in Partition |-> 0]
      /\ buf' = [p \in Partition |-> NoBatch] /\ persisting' = [p \in Partition |-> NoBatch]
      /\ first' = [p \in Partition |-> 0] /\ bytes' = [p \in Partition |-> 0] /\ total' = 0
      /\ toPersist' = {} /\ task' = [p \in Partition |-> "none"]
      /\ usage' = [p \in Partition |-> 0] /\ target' = [k \in Sequencer |-> 0]
      /\ next' = minUnpersisted
      /\ UNCHANGED <<log, durableVars, gone, copies, failures>>
  BY Zenon DEF CrashAndRestart, SeekPosition
<1> USE DEF durableVars
<1>2. NoBatch.rows = {} /\ NoBatch.max = 0 /\ NoBatch \in Batch /\ NoBatch' = NoBatch
      /\ NoBatch.snapped = FALSE
  BY DEF NoBatch, Batch
<1>3. TypeOK'
  <2>1. /\ next' \in [Sequencer -> Nat \ {0}] /\ crashes' \in Nat
        /\ remaining' \in [Sequencer -> SUBSET Partition] /\ pausing' \in [Sequencer -> BOOLEAN]
        /\ target' \in [Sequencer -> Nat]
    BY <1>1 DEF TypeOK, StreamType, DurableType, HistoryType
  <2>2. buf' \in [Partition -> Batch] /\ persisting' \in [Partition -> Batch]
    BY Zenon, <1>1, <1>2
  <2>3. /\ maxPersisted' \in [Partition -> Nat] /\ first' \in [Partition -> Nat]
        /\ bytes' \in [Partition -> Nat] /\ usage' \in [Partition -> Nat]
        /\ task' \in [Partition -> TaskState]
    BY Zenon, <1>1 DEF TaskState
  <2>4. /\ total' \in Int /\ logged' \subseteq Partition /\ known' \subseteq Partition
        /\ toPersist' \subseteq Partition /\ failures' \in Nat
        /\ gone' \subseteq (Nat \ {0}) \X Partition /\ copies' \in [DOMAIN copies' -> Nat \ {0}]
    BY <1>1 DEF TypeOK, StreamType, DurableType, HistoryType
  <2>5. UNCHANGED <<log, files, objects, minUnpersisted>>
    BY Zenon, <1>1
  <2> QED
    BY ZenonT(30), <2>1, <2>2, <2>3, <2>4, <2>5 DEF TypeOK, StreamType, MemoryType, StatsType, ManagerType, DurableType, HistoryType
<1>4. CatalogBacked' /\ Recoverable'
  BY Zenon, <1>1, CatalogFrame, RecoverableFrame
<1>5. PersistedInv' /\ LoggedInv'
  BY Zenon, <1>1 DEF PersistedInv, LoggedInv
<1>6. TaskInv'
  BY ZenonT(30), <1>1 DEF TaskInv, NoBatch
<1>7. PositionsInv'
  <2> SUFFICES ASSUME NEW k \in Sequencer PROVE PositionsOf(k)'
    BY Zenon DEF PositionsInv
  <2>1. PositionsOf(k) /\ minUnpersisted[k] \in Nat \ {0} /\ next[k] \in Nat /\ Len(log[k]) \in Nat
    BY DEF PositionsInv, TypeOK, StreamType, DurableType
  <2>2. next'[k] = minUnpersisted[k] /\ target'[k] = 0 /\ remaining'[k] = {}
    BY Zenon, <1>1
  <2>3. minUnpersisted[k] <= Len(log[k]) + 1 /\ 0 < minUnpersisted[k]
    BY <2>1 DEF PositionsOf
  <2> QED
    BY <1>1, <2>1, <2>2, <2>3 DEF PositionsOf, PartitionsOf
<1>8. \A q \in Partition : /\ SequencerOf[q] \in Sequencer
                           /\ next'[SequencerOf[q]] \in Nat \ {0} /\ 0 < next'[SequencerOf[q]]
  BY SMTT(30), <1>1, ShardingAssumption DEF TypeOK, DurableType
<1>9. OrderInv'
  <2> SUFFICES ASSUME NEW q \in Partition PROVE OrderOf(q)'
    BY Zenon DEF OrderInv
  <2>1. OrderOf(q)
    BY Zenon DEF OrderInv
  <2>2. buf'[q] = NoBatch /\ persisting'[q] = NoBatch /\ remaining'[SequencerOf[q]] = {}
    BY Zenon, <1>1, <1>8
  <2>3. \A f : MaxOfAll(f)' = MaxOfAll(f) /\ Covered(f)' = Covered(f)
    BY Zenon DEF MaxOfAll, Covered
  <2>4. MaxOfAll(NoBatch)
    BY Zenon, <1>2 DEF MaxOfAll
  <2> QED
    BY ZenonT(30), <1>1, <1>2, <1>8, <2>1, <2>2, <2>3, <2>4 DEF OrderOf
<1>10. StatsInv'
  BY Zenon, <1>1, <1>2, <1>8 DEF StatsInv
<1>11. NothingLost'
  <2> SUFFICES ASSUME NEW q \in Partition, NEW s \in 1 .. Len(log[SequencerOf[q]]),
                      Hit(s, q), <<s, q>> \notin gone, s \notin FileRows(q)
               PROVE  s >= next'[SequencerOf[q]]
    BY Zenon, <1>1 DEF NothingLost, Hit, FileRows
  <2> QED
    BY Zenon, <1>1 DEF Recoverable
<1> QED
  BY Zenon, <1>3, <1>4, <1>5, <1>6, <1>7, <1>9, <1>10, <1>11

(***************************************************************************)
(* The theorems.                                                           *)
(***************************************************************************)

\* Every step, and every stuttering step, preserves the invariant.
LEMMA NextInv == IndInv /\ [Next]_vars => IndInv'
<1> SUFFICES ASSUME IndInv, [Next]_vars PROVE IndInv'
  BY Zenon
<1>1. ASSUME NEW k \in Sequencer, StreamStep(k) PROVE IndInv'
  BY Zenon, <1>1, ReceiveStep, SkipWriteStep, LogWriteStep, BufferWriteStep, ApplyDeleteStep DEF StreamStep
<1>2. ASSUME NEW k \in Sequencer, StreamError(k) PROVE IndInv'
  BY Zenon, <1>2, BufferWriteErrorStep, CatalogErrorStep DEF StreamError
<1>3. ASSUME NEW p \in Partition, PersistStep(p) PROVE IndInv'
  BY Zenon, <1>3, SnapshotToPersistingStep, UploadStep, CreateParquetFileStep, MarkPersistedStep,
     ReleaseMemoryStep DEF PersistStep
<1>4. CASE UNCHANGED vars
  <2> USE <1>4 DEF vars, streamVars, memoryVars, statsVars, managerVars, durableVars, historyVars, IndInv
  <2>1. TypeOK'
    BY Zenon, TypeFrame DEF TypeOK
  <2>2. PositionsInv' /\ OrderInv' /\ PersistedInv' /\ TaskInv' /\ StatsInv'
    BY Zenon, PositionsFrame, OrderFrame, PersistedFrame, TaskFrame, StatsFrame
  <2>3. LoggedInv' /\ CatalogBacked' /\ NothingLost' /\ Recoverable'
    BY Zenon, LoggedFrame, CatalogFrame, NothingLostFrame, RecoverableFrame
  <2> QED
    BY Zenon, <2>1, <2>2, <2>3
<1>5. CASE Next
  BY Zenon, <1>1, <1>2, <1>3, <1>5, ResumeStep, MaybePersistStep, SpawnPersistStep,
     UpdateMinUnpersistedStep, CrashAndRestartStep DEF Next
<1> QED
  BY Zenon, <1>4, <1>5

\* The inductive invariant holds in every reachable state.
THEOREM Invariance == Spec => []IndInv
BY InitInv, NextInv, PTL DEF Spec

\* Type correctness: every field keeps its type.
THEOREM TypeCorrect == Spec => []TypeOK
BY Invariance, PTL DEF IndInv

\* A crash at any point loses nothing: TableData's skip test and the catalog's
\* min_unpersisted_sequence_number leave every missing row to the replay.
THEOREM CrashLosesNothing == Spec => []Recoverable
BY Invariance, PTL DEF IndInv

\* Between log_write, buffer_write, remove and snapshot_to_persisting no row that
\* the stream handler has passed is dropped.
THEOREM RowsAreKept == Spec => []NothingLost
BY Invariance, PTL DEF IndInv

\* CatalogBacked: the catalog never names an object that is not in the store.
THEOREM FilesHaveObjects == Spec => []CatalogBacked
BY Invariance, PTL DEF IndInv

\* No two files cover a write, and what is in memory is beyond what the files
\* cover: TableData::buffer_table_write's skip test and the maxima that
\* persisted_ingester metadata records keep them apart.
THEOREM NoCoveredDuplicates == Spec => []CoveredOnce
<1>1. IndInv => CoveredOnce
  <2> SUFFICES ASSUME IndInv, NEW p \in Partition
               PROVE  /\ \A f, g \in files[p] : f # g => Covered(f) \cap Covered(g) = {}
                      /\ \A f \in files[p] : Covered(f) \cap buf[p].rows = {}
                      /\ \A f \in files[p] : task[p] # "mark" => Covered(f) \cap persisting[p].rows = {}
    BY Zenon DEF CoveredOnce
  <2>1. OrderOf(p) /\ buf[p] \in Batch /\ persisting[p] \in Batch /\ files[p] \subseteq Batch
    BY Zenon DEF IndInv, OrderInv, TypeOK, MemoryType, DurableType
  <2>2. \A f \in files[p] : Covered(f) \cap buf[p].rows = {}
    BY Zenon, <2>1, CoveredIsBelow DEF OrderOf
  <2>3. \A f \in files[p] : task[p] # "mark" => Covered(f) \cap persisting[p].rows = {}
    BY Zenon, <2>1, CoveredIsBelow DEF OrderOf
  <2> QED
    BY Zenon, <2>1, <2>2, <2>3 DEF OrderOf
<1> QED
  BY <1>1, Invariance, PTL

\* Without deletes a file's maximum is that of its rows, so a write is in at most
\* one file, and not in memory as well once it is in one.
THEOREM NoDuplicatesWithoutDeletes ==
  ASSUME Stops = {} PROVE Spec => []PersistedOnce
<1>1. IndInv => PersistedOnce
  <2> SUFFICES ASSUME IndInv, NEW p \in Partition
               PROVE  /\ \A f, g \in files[p] : f # g => f.rows \cap g.rows = {}
                      /\ buf[p].rows \cap (FileRows(p) \cup persisting[p].rows) = {}
                      /\ task[p] # "mark" => persisting[p].rows \cap FileRows(p) = {}
    BY Zenon DEF PersistedOnce
  <2>1. OrderOf(p) /\ buf[p] \in Batch /\ persisting[p] \in Batch /\ files[p] \subseteq Batch
    BY Zenon DEF IndInv, OrderInv, TypeOK, MemoryType, DurableType
  <2>2. \A b \in Batch : b.max \in Nat /\ \A s \in b.rows : s \in Nat
    BY Zenon DEF Batch
  <2>3. \A s \in FileRows(p) : \E f \in files[p] : s \in f.rows
    BY Zenon DEF FileRows
  <2>4. MaxOfAll(persisting[p]) /\ \A f \in files[p] : MaxOfAll(f) /\ Covered(f) = f.rows
    BY ZenonT(30), <2>1 DEF OrderOf, MaxOfAll, Covered
  <2>5. \A s \in buf[p].rows : s \notin FileRows(p) /\ s \notin persisting[p].rows
    BY SMTT(30), <2>1, <2>2, <2>3, <2>4 DEF OrderOf, MaxOfAll
  <2>6. task[p] # "mark" => \A s \in persisting[p].rows : s \notin FileRows(p)
    BY <2>1, <2>2, <2>3, <2>4 DEF OrderOf, MaxOfAll
  <2>7. \A f, g \in files[p] : f # g => f.rows \cap g.rows = {}
    BY Zenon, <2>1, <2>4 DEF OrderOf
  <2> QED
    BY Zenon, <2>5, <2>6, <2>7
<1> QED
  BY <1>1, Invariance, PTL

\* The panics of snapshot_to_persisting and of persist's lookups are unreachable.
THEOREM PersistNeverPanics == Spec => []NoPersistPanic
<1>1. IndInv => NoPersistPanic
  BY Zenon DEF IndInv, TaskInv, NoPersistPanic
<1> QED
  BY <1>1, Invariance, PTL

\* update_min_unpersisted_sequence_number never moves the replay position back.
THEOREM PositionNeverRetreats == Spec => MinUnpersistedNeverRetreats
<1> DEFINE Forward == \A k \in Sequencer : minUnpersisted'[k] >= minUnpersisted[k]
<1>1. IndInv /\ [Next]_vars => [Forward]_vars
  <2> SUFFICES ASSUME IndInv, Next PROVE Forward
    BY Zenon
  <2>1. \A k \in Sequencer : minUnpersisted[k] \in Nat
    BY Zenon DEF IndInv, TypeOK, DurableType
  <2>2. ASSUME NEW k \in Sequencer, UpdateMinUnpersisted(k) PROVE Forward
    <3>1. target[k] # 0 /\ minUnpersisted' = [minUnpersisted EXCEPT ![k] = target[k]]
      BY Zenon, <2>2 DEF UpdateMinUnpersisted
    <3>2. minUnpersisted[k] <= target[k] /\ target[k] \in Nat
      BY Zenon, <3>1 DEF IndInv, PositionsInv, PositionsOf, TypeOK, ManagerType, DurableType
    <3> QED
      BY <2>1, <3>1, <3>2 DEF IndInv, TypeOK, DurableType
  <2>3. ASSUME UNCHANGED minUnpersisted PROVE Forward
    BY <2>1, <2>3
  <2>4. ASSUME NEW k \in Sequencer, StreamStep(k) \/ StreamError(k) \/ Resume(k)
        PROVE  UNCHANGED minUnpersisted
    BY Zenon, <2>4 DEF StreamStep, StreamError, Receive, SkipWrite, LogWrite, BufferWrite, ApplyDelete,
       BufferWriteError, CatalogError, DropOperation, Resume, durableVars
  <2>5. ASSUME NEW p \in Partition, SpawnPersist(p) \/ PersistStep(p)
        PROVE  UNCHANGED minUnpersisted
    BY Zenon, <2>5 DEF SpawnPersist, PersistStep, SnapshotToPersisting, Upload, CreateParquetFile,
       MarkPersisted, ReleaseMemory, durableVars
  <2>6. ASSUME NEW due, MaybePersist(due) PROVE UNCHANGED minUnpersisted
    BY Zenon, <2>6 DEF MaybePersist, durableVars
  <2>7. ASSUME CrashAndRestart PROVE UNCHANGED minUnpersisted
    BY Zenon, <2>7 DEF CrashAndRestart, durableVars
  <2> QED
    BY Zenon, <2>2, <2>3, <2>4, <2>5, <2>6, <2>7 DEF Next
<1> QED
  BY <1>1, Invariance, PTL DEF Spec, MinUnpersistedNeverRetreats

-------------------------------------------------------------------------------
(* The account of memory *)

\* BytesAccounted as an equation of sums.
LEMMA AccountSum == BytesAccounted <=> total = SumFunctionOnSet(bytes, Partition) + SumFunctionOnSet(usage, Partition)
BY DEF BytesAccounted, BytesOf

\* The same in the next state.
LEMMA AccountSumNext == BytesAccounted' <=> total' = SumFunctionOnSet(bytes', Partition) + SumFunctionOnSet(usage', Partition)
BY DEF BytesAccounted, BytesOf

\* The stats and what persist tasks hold are functions into the integers with a sum.
LEMMA AccountTypes ==
  ASSUME TypeOK
  PROVE  /\ bytes \in [Partition -> Int] /\ usage \in [Partition -> Int] /\ total \in Int
         /\ SumFunctionOnSet(bytes, Partition) \in Int /\ SumFunctionOnSet(usage, Partition) \in Int
<1>1. /\ bytes \in [Partition -> Int] /\ usage \in [Partition -> Int] /\ total \in Int
  BY DEF TypeOK, StatsType, ManagerType
<1> QED
  BY <1>1, SumType, FiniteAssumption

\* Nothing is accounted for at the start.
LEMMA AccountInit == Init => AccountInv
<1> SUFFICES ASSUME Init PROVE AccountInv
  BY Zenon
<1>1. bytes = [p \in Partition |-> 0] /\ usage = [p \in Partition |-> 0] /\ total = 0
  BY Zenon DEF Init
<1>2. BytesAccounted
  BY <1>1, SumZero, FiniteAssumption, AccountSum
<1> QED
  BY Zenon, <1>1, <1>2 DEF AccountInv, UsageInv

\* Steps that touch neither the stats nor the tasks.
LEMMA AccountFrame ==
  ASSUME AccountInv, UNCHANGED <<bytes, total, usage>>,
         \A p \in Partition : task'[p] = "none" => task[p] = "none"
  PROVE  AccountInv'
<1>1. BytesAccounted'
  BY Zenon, AccountSum, AccountSumNext DEF AccountInv
<1> QED
  BY Zenon, <1>1 DEF AccountInv, UsageInv

\* log_write adds the size of a write to its entry and to the total.
LEMMA LogWriteAccount ==
  ASSUME AccountInv, IndInv, NEW k \in Sequencer, NEW p \in Partition, LogWrite(k, p)
  PROVE  AccountInv'
<1>1. /\ bytes' = [bytes EXCEPT ![p] = @ + CurOp(k).size] /\ total' = total + CurOp(k).size
      /\ UNCHANGED <<usage, task>> /\ p \in remaining[k]
  BY Zenon DEF LogWrite, AtTable, managerVars
<1>2. CurOp(k).size \in Nat
  <2>1. Cur(k) \in 1 .. Len(log[k]) /\ log[k] \in Seq(OpType)
    BY Zenon, <1>1 DEF IndInv, PositionsInv, PositionsOf, TypeOK, StreamType
  <2>2. CurOp(k) \in OpType
    BY <2>1 DEF CurOp
  <2> QED
    BY Zenon, <2>2 DEF OpType
<1>3. TypeOK
  BY Zenon DEF IndInv
<1> DEFINE n == CurOp(k).size
<1> HIDE DEF n
<1>4. n \in Nat /\ bytes[p] \in Int /\ bytes' = [bytes EXCEPT ![p] = bytes[p] + n] /\ total' = total + n
  BY ZenonT(30), <1>1, <1>2, <1>3, AccountTypes DEF n
<1>5. SumFunctionOnSet(bytes', Partition) = SumFunctionOnSet(bytes, Partition) - bytes[p] + (bytes[p] + n)
  <2>1. /\ bytes \in [Partition -> Int] /\ bytes' \in [Partition -> Int]
        /\ \A q \in Partition : q # p => bytes'[q] = bytes[q]
    BY <1>3, <1>4, AccountTypes
  <2>2. bytes'[p] = bytes[p] + n
    BY <1>3, <1>4, AccountTypes
  <2>3. SumFunctionOnSet(bytes', Partition) = SumFunctionOnSet(bytes, Partition) - bytes[p] + bytes'[p]
    BY ZenonT(30), <2>1, SumUpdate, FiniteAssumption
  <2> QED
    BY Zenon, <2>2, <2>3
<1>6. BytesAccounted'
  <2>1. total = SumFunctionOnSet(bytes, Partition) + SumFunctionOnSet(usage, Partition)
    BY Zenon, AccountSum DEF AccountInv
  <2>2. total' = SumFunctionOnSet(bytes', Partition) + SumFunctionOnSet(usage', Partition)
    BY SMTT(30), <1>1, <1>3, <1>4, <1>5, <2>1, AccountTypes
  <2> QED
    BY Zenon, <2>2, AccountSumNext
<1> QED
  BY Zenon, <1>1, <1>6 DEF AccountInv, UsageInv

\* maybe_persist removes the entry of a partition; the task it spawns remembers
\* the entry's bytes.
LEMMA SpawnPersistAccount ==
  ASSUME AccountInv, IndInv, NEW p \in Partition, SpawnPersist(p)
  PROVE  AccountInv'
<1>1. /\ usage' = [usage EXCEPT ![p] = bytes[p]] /\ bytes' = [bytes EXCEPT ![p] = 0]
      /\ task' = [task EXCEPT ![p] = "spawned"] /\ total' = total /\ p \in toPersist
  BY Zenon DEF SpawnPersist
<1>2. usage[p] = 0
  BY Zenon, <1>1 DEF IndInv, TaskInv, AccountInv, UsageInv
<1>3. TypeOK
  BY Zenon DEF IndInv
<1>4. bytes[p] \in Int
  BY <1>3, AccountTypes
<1>5. SumFunctionOnSet(bytes', Partition) = SumFunctionOnSet(bytes, Partition) - bytes[p] + 0
  <2>1. /\ bytes \in [Partition -> Int] /\ bytes' \in [Partition -> Int]
        /\ \A q \in Partition : q # p => bytes'[q] = bytes[q]
    BY <1>1, <1>3, AccountTypes
  <2>2. bytes'[p] = 0
    BY <1>1, <1>3, AccountTypes
  <2>3. SumFunctionOnSet(bytes', Partition) = SumFunctionOnSet(bytes, Partition) - bytes[p] + bytes'[p]
    BY Zenon, <2>1, SumUpdate, FiniteAssumption
  <2> QED
    BY Zenon, <2>2, <2>3
<1>6. SumFunctionOnSet(usage', Partition) = SumFunctionOnSet(usage, Partition) - usage[p] + bytes[p]
  <2>1. /\ usage \in [Partition -> Int] /\ usage' \in [Partition -> Int]
        /\ \A q \in Partition : q # p => usage'[q] = usage[q]
    BY ZenonT(30), <1>1, <1>3, <1>4, AccountTypes
  <2>2. usage'[p] = bytes[p]
    BY ZenonT(30), <1>1, <1>3, <1>4, AccountTypes
  <2>3. SumFunctionOnSet(usage', Partition) = SumFunctionOnSet(usage, Partition) - usage[p] + usage'[p]
    BY Zenon, <2>1, SumUpdate, FiniteAssumption
  <2> QED
    BY Zenon, <2>2, <2>3
<1>7. BytesAccounted'
  <2>1. total = SumFunctionOnSet(bytes, Partition) + SumFunctionOnSet(usage, Partition)
    BY Zenon, AccountSum DEF AccountInv
  <2>2. total' = SumFunctionOnSet(bytes', Partition) + SumFunctionOnSet(usage', Partition)
    BY SMTT(30), <1>1, <1>2, <1>3, <1>4, <1>5, <1>6, <2>1, AccountTypes
  <2> QED
    BY Zenon, <2>2, AccountSumNext
<1>8. UsageInv'
  <2>1. task \in [Partition -> TaskState] /\ usage \in [Partition -> Int]
    BY Zenon, <1>3, AccountTypes DEF TypeOK, ManagerType
  <2>2. \A q \in Partition : task'[q] = "none" => q # p /\ usage'[q] = usage[q] /\ task'[q] = task[q]
    BY ZenonT(30), <1>1, <2>1
  <2> QED
    BY Zenon, <2>2 DEF AccountInv, UsageInv
<1> QED
  BY Zenon, <1>7, <1>8 DEF AccountInv

\* A persist task gives back the bytes of the entry it was spawned with.
LEMMA ReleaseMemoryAccount ==
  ASSUME AccountInv, IndInv, NEW p \in Partition, ReleaseMemory(p)
  PROVE  AccountInv'
<1>1. /\ usage' = [usage EXCEPT ![p] = 0] /\ bytes' = bytes
      /\ task' = [task EXCEPT ![p] = "none"] /\ total' = total - usage[p]
  BY Zenon DEF ReleaseMemory
<1>2. TypeOK
  BY Zenon DEF IndInv
<1>3. SumFunctionOnSet(usage', Partition) = SumFunctionOnSet(usage, Partition) - usage[p] + 0
  <2>1. /\ usage \in [Partition -> Int] /\ usage' \in [Partition -> Int]
        /\ \A q \in Partition : q # p => usage'[q] = usage[q]
    BY <1>1, <1>2, AccountTypes
  <2>2. usage'[p] = 0
    BY ZenonT(30), <1>1, <1>2, AccountTypes
  <2>3. SumFunctionOnSet(usage', Partition) = SumFunctionOnSet(usage, Partition) - usage[p] + usage'[p]
    BY Zenon, <2>1, SumUpdate, FiniteAssumption
  <2> QED
    BY Zenon, <2>2, <2>3
<1>4. BytesAccounted'
  <2>1. total = SumFunctionOnSet(bytes, Partition) + SumFunctionOnSet(usage, Partition)
    BY Zenon, AccountSum DEF AccountInv
  <2>2. usage[p] \in Int
    BY <1>2, AccountTypes
  <2>3. total' = SumFunctionOnSet(bytes', Partition) + SumFunctionOnSet(usage', Partition)
    BY SMTT(30), <1>1, <1>2, <1>3, <2>1, <2>2, AccountTypes
  <2> QED
    BY Zenon, <2>3, AccountSumNext
<1>5. UsageInv'
  <2>1. task \in [Partition -> TaskState] /\ usage \in [Partition -> Int]
    BY Zenon, <1>2, AccountTypes DEF TypeOK, ManagerType
  <2>2. \A q \in Partition : usage'[q] = 0 \/ (usage'[q] = usage[q] /\ task'[q] = task[q])
    BY <1>1, <2>1
  <2> QED
    BY Zenon, <2>2 DEF AccountInv, UsageInv
<1> QED
  BY Zenon, <1>4, <1>5 DEF AccountInv

\* A restart forgets all of it.
LEMMA CrashAccount ==
  ASSUME CrashAndRestart
  PROVE  AccountInv'
<1>1. bytes' = [p \in Partition |-> 0] /\ usage' = [p \in Partition |-> 0] /\ total' = 0
  BY Zenon DEF CrashAndRestart
<1>2. total' = SumFunctionOnSet(bytes', Partition) + SumFunctionOnSet(usage', Partition)
  BY <1>1, SumZero, FiniteAssumption
<1>3. BytesAccounted'
  BY Zenon, <1>2, AccountSumNext
<1> QED
  BY Zenon, <1>1, <1>3 DEF AccountInv, UsageInv

\* Every step keeps the account.
LEMMA AccountNext == IndInv /\ AccountInv /\ [Next]_vars => AccountInv'
<1> SUFFICES ASSUME IndInv, AccountInv, [Next]_vars PROVE AccountInv'
  BY Zenon
<1>1. ASSUME UNCHANGED <<bytes, total, usage, task>> PROVE AccountInv'
  BY Zenon, <1>1, AccountFrame
<1>2. ASSUME NEW k \in Sequencer, StreamStep(k) \/ StreamError(k) \/ Resume(k) PROVE AccountInv'
  <2>1. ASSUME NEW p \in PartitionsOf(k), LogWrite(k, p) PROVE AccountInv'
    BY Zenon, <2>1, LogWriteAccount DEF PartitionsOf
  <2>2. CASE \A p \in PartitionsOf(k) : ~LogWrite(k, p)
    BY Zenon, <1>1, <1>2, <2>2 DEF StreamStep, StreamError, Receive, SkipWrite, BufferWrite, ApplyDelete,
       BufferWriteError, CatalogError, DropOperation, Resume, statsVars, managerVars
  <2> QED
    BY Zenon, <2>1, <2>2
<1>3. ASSUME NEW p \in Partition, PersistStep(p) PROVE AccountInv'
  <2>1. CASE ~ReleaseMemory(p)
    <3>1. /\ UNCHANGED <<bytes, total, usage>>
          /\ \E w \in {"release", "upload", "catalog", "mark"} : task' = [task EXCEPT ![p] = w]
      BY Zenon, <1>3, <2>1 DEF PersistStep, SnapshotToPersisting, Upload, CreateParquetFile, MarkPersisted, statsVars
    <3>2. task \in [Partition -> TaskState]
      BY Zenon DEF IndInv, TypeOK, ManagerType
    <3>3. \A q \in Partition : task'[q] = "none" => task[q] = "none"
      BY <3>1, <3>2
    <3> QED
      BY Zenon, <3>1, <3>3, AccountFrame
  <2> QED
    BY Zenon, <2>1, ReleaseMemoryAccount
<1>4. ASSUME NEW due, MaybePersist(due) PROVE AccountInv'
  BY Zenon, <1>1, <1>4 DEF MaybePersist, statsVars
<1>5. ASSUME NEW k \in Sequencer, UpdateMinUnpersisted(k) PROVE AccountInv'
  BY Zenon, <1>1, <1>5 DEF UpdateMinUnpersisted, statsVars
<1>6. CASE UNCHANGED vars
  BY Zenon, <1>1, <1>6 DEF vars, statsVars, managerVars
<1> QED
  BY Zenon, <1>2, <1>3, <1>4, <1>5, <1>6, SpawnPersistAccount, CrashAccount DEF Next

\* total_bytes is always what the stats entries and the persist tasks account for.
THEOREM MemoryIsAccounted == Spec => []BytesAccounted
<1>1. AccountInv => BytesAccounted
  BY Zenon DEF AccountInv
<1> QED
  BY <1>1, AccountInit, AccountNext, Invariance, PTL DEF Spec

\* ReleaseMemory's subtraction from total_bytes never wraps below zero.
THEOREM ReleaseNeverWraps == Spec => []NeverWraps
<1>1. TypeOK /\ BytesAccounted => NeverWraps
  <2> SUFFICES ASSUME TypeOK, BytesAccounted PROVE NeverWraps
    BY Zenon
  <2>1. /\ \A p \in Partition : bytes[p] \in Nat
        /\ \A p \in Partition : usage[p] \in Nat
    BY DEF TypeOK, StatsType, ManagerType
  <2>2. /\ SumFunctionOnSet(bytes, Partition) \in Nat
        /\ SumFunctionOnSet(usage, Partition) \in Nat
    BY Zenon, <2>1, SumNat, FiniteAssumption
  <2>3. \A p \in Partition : usage[p] <= SumFunctionOnSet(usage, Partition)
    BY Zenon, <2>1, SumBound, FiniteAssumption
  <2>4. total = SumFunctionOnSet(bytes, Partition) + SumFunctionOnSet(usage, Partition)
    BY Zenon, AccountSum
  <2> QED
    BY SMTT(30), <2>1, <2>2, <2>3, <2>4 DEF NeverWraps
<1> QED
  BY <1>1, TypeCorrect, MemoryIsAccounted, PTL

-------------------------------------------------------------------------------
(* Where rows come from *)

\* There are no rows at the start.
LEMMA RowsInit == Init => RowsInv
<1> SUFFICES ASSUME Init PROVE RowsInv
  BY Zenon
<1>1. NoBatch.rows = {}
  BY Zenon DEF NoBatch
<1> QED
  BY Zenon, <1>1 DEF Init, RowsInv, FileRows

\* Steps that read nothing new from the write buffer, and neither persist a row
\* nor give one up.
LEMMA RowsFrame ==
  ASSUME RowsInv, UNCHANGED <<log, files, gone>>,
         \A p \in Partition : persisting'[p].rows \subseteq persisting[p].rows,
         \A p \in Partition : buf'[p].rows \subseteq buf[p].rows
  PROVE  RowsInv'
BY Zenon DEF RowsInv, FileRows, Hit

\* A row of the log stays a row of the log.
LEMMA HitStays ==
  ASSUME IndInv, NEW k \in Sequencer, NEW op \in Operation(k), Receive(k, op)
  PROVE  \A p \in Partition : \A s : Hit(s, p) => Hit(s, p)'
<1>1. \/ log' = log
      \/ log' = [log EXCEPT ![k] = Append(@, op)]
  BY Zenon DEF Receive
<1>2. log \in [Sequencer -> Seq(OpType)] /\ op \in OpType
  BY Zenon, OperationType DEF IndInv, TypeOK, StreamType
<1>3. CASE log' = log
  BY Zenon, <1>3 DEF Hit
<1>4. CASE log' = [log EXCEPT ![k] = Append(@, op)]
  <2>1. \A j \in Sequencer : j # k => log'[j] = log[j]
    BY Zenon, <1>2, <1>4
  <2>2. log'[k] = Append(log[k], op) /\ log[k] \in Seq(OpType)
    BY Zenon, <1>2, <1>4
  <2>3. \A s \in 1 .. Len(log[k]) : s \in 1 .. Len(log'[k]) /\ log'[k][s] = log[k][s]
    BY <1>2, <2>2
  <2> SUFFICES ASSUME NEW p \in Partition, NEW s, Hit(s, p) PROVE Hit(s, p)'
    BY Zenon
  <2> QED
    BY Zenon, <2>1, <2>3, ShardingAssumption DEF Hit
<1> QED
  BY Zenon, <1>1, <1>3, <1>4

\* SequencedStreamHandler reads an operation.
LEMMA ReceiveRows ==
  ASSUME IndInv, RowsInv, NEW k \in Sequencer, NEW op \in Operation(k), Receive(k, op)
  PROVE  RowsInv'
<1>1. UNCHANGED <<files, persisting, buf, gone>>
  BY Zenon DEF Receive, memoryVars, durableVars, historyVars
<1> QED
  BY Zenon, <1>1, HitStays DEF RowsInv, FileRows

\* The row being applied is a row of the log.
LEMMA CurrentRow ==
  ASSUME IndInv, NEW k \in Sequencer, NEW p \in remaining[k], CurOp(k).kind = "write"
  PROVE  p \in Partition /\ SequencerOf[p] = k /\ Hit(Cur(k), p) /\ Cur(k) \in Nat \ {0}
<1>1. PositionsOf(k) /\ next[k] \in Nat
  BY Zenon DEF IndInv, PositionsInv, TypeOK, StreamType
<1>2. Cur(k) \in 1 .. Len(log[k]) /\ p \in CurOp(k).parts
  BY Zenon, <1>1 DEF PositionsOf
<1>3. p \in PartitionsOf(k)
  BY Zenon, <1>1, <1>2 DEF PositionsOf, CurOp
<1>4. Cur(k) \in Nat \ {0}
  BY <1>1, <1>2 DEF Cur
<1> QED
  BY Zenon, <1>2, <1>3, <1>4 DEF Hit, CurOp, PartitionsOf

\* buffer_write adds the row of the current operation.
LEMMA BufferWriteRows ==
  ASSUME IndInv, RowsInv, NEW k \in Sequencer, NEW p \in PartitionsOf(k), BufferWrite(k, p)
  PROVE  RowsInv'
<1>1. /\ p \in logged /\ p \in remaining[k] /\ UNCHANGED <<log, files, persisting, gone>>
      /\ buf' = [buf EXCEPT ![p] = [rows |-> @.rows \cup {Cur(k)}, max |-> Raised(@, Cur(k)),
                                     snapped |-> @.snapped]]
  BY Zenon DEF BufferWrite, durableVars, historyVars
<1>2. p \in Partition /\ SequencerOf[p] = k /\ buf \in [Partition -> Batch]
  BY Zenon DEF PartitionsOf, IndInv, TypeOK, MemoryType
<1>3. Hit(Cur(k), p)
  BY Zenon, <1>1, <1>2, CurrentRow DEF IndInv, LoggedInv
<1>4. /\ \A q \in Partition : q # p => buf'[q] = buf[q]
      /\ buf'[p].rows = buf[p].rows \cup {Cur(k)}
  <2>1. buf'[p] = [rows |-> buf[p].rows \cup {Cur(k)}, max |-> Raised(buf[p], Cur(k)),
                   snapped |-> buf[p].snapped]
    BY Zenon, <1>1, <1>2
  <2>2. buf'[p].rows = buf[p].rows \cup {Cur(k)}
    BY <2>1
  <2> QED
    BY Zenon, <1>1, <1>2, <2>2
<1>5. \A q \in Partition : \A s : Hit(s, q)' = Hit(s, q)
  BY Zenon, <1>1 DEF Hit
<1>6. \A q \in Partition : \A s \in buf'[q].rows : Hit(s, q)
  BY Zenon, <1>3, <1>4 DEF RowsInv
<1> QED
  BY Zenon, <1>1, <1>5, <1>6 DEF RowsInv, FileRows

\* What DropOperation gives up was to be written.
LEMMA DroppedRows ==
  ASSUME IndInv, NEW k \in Sequencer, DropOperation(k), NEW p \in Partition, NEW s \in Nat \ {0},
         <<s, p>> \in gone'
  PROVE  <<s, p>> \in gone \/ Hit(s, p)
<1>1. gone' = gone \cup {<<Cur(k), q>> : q \in {r \in remaining[k] : CurOp(k).kind = "write"}}
  BY Zenon DEF DropOperation
<1>2. CASE <<s, p>> \notin gone
  <2>1. PICK q \in remaining[k] : <<s, p>> = <<Cur(k), q>> /\ CurOp(k).kind = "write"
    BY Zenon, <1>1, <1>2
  <2>2. s = Cur(k) /\ p = q
    BY Zenon, <2>1
  <2> QED
    BY Zenon, <2>1, <2>2, CurrentRow
<1> QED
  BY Zenon, <1>2

\* An operation that fails is dropped with the rows still to be written.
LEMMA StreamErrorRows ==
  ASSUME IndInv, RowsInv, NEW k \in Sequencer, StreamError(k)
  PROVE  RowsInv'
<1>1. DropOperation(k)
  BY Zenon DEF StreamError, BufferWriteError, CatalogError
<1>2. UNCHANGED <<log, files, persisting>>
  BY Zenon, <1>1 DEF DropOperation, durableVars
<1>3. \A q \in Partition : buf'[q].rows = buf[q].rows
  <2>1. ASSUME NEW p \in PartitionsOf(k), BufferWriteError(k, p) PROVE \A q \in Partition : buf'[q].rows = buf[q].rows
    <3>1. buf' = [buf EXCEPT ![p].max = Raised(buf[p], Cur(k))] /\ buf \in [Partition -> Batch]
      BY Zenon, <2>1 DEF BufferWriteError, IndInv, TypeOK, MemoryType
    <3> QED
      BY <3>1 DEF Batch
  <2> QED
    BY Zenon, <2>1 DEF StreamError, CatalogError
<1>4. \A q \in Partition : \A s : Hit(s, q)' = Hit(s, q)
  BY Zenon, <1>2 DEF Hit
<1>5. \A q \in Partition : \A s \in Nat \ {0} : <<s, q>> \in gone' => Hit(s, q)
  BY Zenon, <1>1, DroppedRows DEF RowsInv
<1> QED
  BY Zenon, <1>2, <1>3, <1>4, <1>5 DEF RowsInv, FileRows

\* buffer_delete gives up rows that were in the buffer.
LEMMA ApplyDeleteRows ==
  ASSUME IndInv, RowsInv, NEW k \in Sequencer, ApplyDelete(k)
  PROVE  RowsInv'
<1>1. /\ buf' = [p \in Partition |-> AfterDelete(k, p)]
      /\ gone' = gone \cup UNION {{<<s, p>> : s \in Matched(k, p)} : p \in Partition}
      /\ UNCHANGED <<log, files, persisting>>
  BY Zenon DEF ApplyDelete, durableVars
<1>2. \A q \in Partition : Matched(k, q) \subseteq buf[q].rows
  BY Zenon DEF Matched
<1>3. NoBatch.rows = {}
  BY Zenon DEF NoBatch
<1>4. \A q \in Partition : buf'[q].rows \subseteq buf[q].rows
  <2> SUFFICES ASSUME NEW q \in Partition PROVE AfterDelete(k, q).rows \subseteq buf[q].rows
    BY Zenon, <1>1
  <2>1. \/ AfterDelete(k, q) = buf[q] \/ AfterDelete(k, q) = NoBatch
        \/ AfterDelete(k, q) = [rows |-> buf[q].rows \ Matched(k, q), max |-> Cur(k), snapped |-> TRUE]
    BY Zenon DEF AfterDelete
  <2> QED
    BY <1>3, <2>1
<1>5. \A q \in Partition : \A s : Hit(s, q)' = Hit(s, q)
  BY Zenon, <1>1 DEF Hit
<1>6. ASSUME NEW q \in Partition, NEW s \in Nat \ {0}, <<s, q>> \in gone' PROVE Hit(s, q)
  <2>1. CASE <<s, q>> \in gone
    BY Zenon, <2>1 DEF RowsInv
  <2>2. CASE <<s, q>> \notin gone
    <3>1. PICK p \in Partition : \E n \in Matched(k, p) : <<s, q>> = <<n, p>>
      BY Zenon, <1>1, <1>6, <2>2
    <3>2. PICK n \in Matched(k, p) : <<s, q>> = <<n, p>>
      BY Zenon, <3>1
    <3>3. s = n /\ q = p
      BY Zenon, <3>2
    <3> QED
      BY Zenon, <1>2, <3>2, <3>3 DEF RowsInv
  <2> QED
    BY Zenon, <2>1, <2>2
<1> QED
  BY Zenon, <1>1, <1>4, <1>5, <1>6 DEF RowsInv, FileRows

\* A persist task moves rows from the buffer to the persisting batch and on to a
\* file.
LEMMA PersistRows ==
  ASSUME IndInv, RowsInv, NEW p \in Partition, PersistStep(p)
  PROVE  RowsInv'
<1> USE DEF streamVars, memoryVars, durableVars, historyVars
<1>1. NoBatch.rows = {} /\ buf \in [Partition -> Batch] /\ persisting \in [Partition -> Batch]
      /\ files \in [Partition -> SUBSET Batch]
  BY DEF NoBatch, IndInv, TypeOK, MemoryType, DurableType
<1>2. CASE SnapshotToPersisting(p)
  <2>1. /\ persisting' = [persisting EXCEPT ![p] = Snapshots(buf[p])]
        /\ buf' = [buf EXCEPT ![p] = NoBatch] /\ UNCHANGED <<log, files, gone>>
    BY Zenon, <1>2 DEF SnapshotToPersisting
  <2>2. Snapshots(buf[p]).rows = buf[p].rows
    BY <1>1 DEF Snapshots, Batch
  <2>3. \A q \in Partition : /\ buf'[q] = buf[q] \/ buf'[q] = NoBatch
                             /\ persisting'[q].rows = persisting[q].rows \/ persisting'[q].rows = buf[q].rows
    BY Zenon, <1>1, <2>1, <2>2
  <2>4. \A q \in Partition : \A s : Hit(s, q)' = Hit(s, q)
    BY Zenon, <2>1 DEF Hit
  <2>5. \A q \in Partition : \A s \in buf'[q].rows \cup persisting'[q].rows : s \in persisting[q].rows \cup buf[q].rows
    BY Zenon, <1>1, <2>3
  <2>6. \A q \in Partition : FileRows(q)' = FileRows(q)
    BY Zenon, <2>1 DEF FileRows
  <2> QED
    BY ZenonT(30), <2>1, <2>4, <2>5, <2>6 DEF RowsInv
<1>3. CASE Upload(p) \/ ReleaseMemory(p)
  BY Zenon, <1>3, RowsFrame DEF Upload, ReleaseMemory
<1>4. CASE CreateParquetFile(p)
  <2>1. files' = [files EXCEPT ![p] = @ \cup {persisting[p]}] /\ UNCHANGED <<log, gone, persisting, buf>>
    BY Zenon, <1>4 DEF CreateParquetFile
  <2>2. \A q \in Partition : files'[q] \subseteq files[q] \cup {persisting[q]}
    BY Zenon, <1>1, <2>1
  <2>3. \A q \in Partition : FileRows(q)' \subseteq FileRows(q) \cup persisting[q].rows
    BY Zenon, <2>2 DEF FileRows
  <2>4. \A q \in Partition : \A s : Hit(s, q)' = Hit(s, q)
    BY Zenon, <2>1 DEF Hit
  <2> QED
    BY Zenon, <2>1, <2>3, <2>4 DEF RowsInv
<1>5. CASE MarkPersisted(p)
  <2>1. persisting' = [persisting EXCEPT ![p] = NoBatch] /\ UNCHANGED <<log, files, gone, buf>>
    BY Zenon, <1>5 DEF MarkPersisted
  <2>2. \A q \in Partition : persisting'[q].rows \subseteq persisting[q].rows
    BY Zenon, <1>1, <2>1
  <2> QED
    BY Zenon, <2>1, <2>2, RowsFrame
<1> QED
  BY ZenonT(30), <1>2, <1>3, <1>4, <1>5 DEF PersistStep

\* Every step keeps RowsInv.
LEMMA RowsNext == IndInv /\ RowsInv /\ [Next]_vars => RowsInv'
<1> SUFFICES ASSUME IndInv, RowsInv, [Next]_vars PROVE RowsInv'
  BY Zenon
<1> USE DEF streamVars, memoryVars, durableVars, historyVars
<1>1. ASSUME UNCHANGED <<log, files, gone, persisting, buf>> PROVE RowsInv'
  BY Zenon, <1>1, RowsFrame
<1>2. ASSUME NEW k \in Sequencer, StreamStep(k) PROVE RowsInv'
  BY Zenon, <1>1, <1>2, ReceiveRows, BufferWriteRows, ApplyDeleteRows DEF StreamStep, SkipWrite, LogWrite
<1>3. ASSUME NEW k \in Sequencer, Resume(k) \/ UpdateMinUnpersisted(k) PROVE RowsInv'
  BY Zenon, <1>1, <1>3 DEF Resume, UpdateMinUnpersisted
<1>4. ASSUME NEW due, MaybePersist(due) PROVE RowsInv'
  BY Zenon, <1>1, <1>4 DEF MaybePersist
<1>5. ASSUME NEW p \in Partition, SpawnPersist(p) PROVE RowsInv'
  BY Zenon, <1>1, <1>5 DEF SpawnPersist
<1>6. CASE CrashAndRestart
  <2>1. /\ buf' = [p \in Partition |-> NoBatch] /\ persisting' = [p \in Partition |-> NoBatch]
        /\ UNCHANGED <<log, files, gone>>
    BY Zenon, <1>6 DEF CrashAndRestart
  <2>2. NoBatch.rows = {}
    BY Zenon DEF NoBatch
  <2>3. \A q \in Partition : persisting'[q].rows = {} /\ buf'[q].rows = {}
    BY Zenon, <2>1, <2>2
  <2> QED
    BY Zenon, <2>1, <2>3, RowsFrame
<1>7. CASE UNCHANGED vars
  BY Zenon, <1>1, <1>7 DEF vars
<1> QED
  BY ZenonT(30), <1>2, <1>3, <1>4, <1>5, <1>6, <1>7, PersistRows, StreamErrorRows DEF Next

-------------------------------------------------------------------------------
(* The refinement of DurableIngest *)

\* What the two sets of the refinement mapping contain.
LEMMA Mapped ==
  /\ \A r \in WrittenRows : \E p \in Partition : \E s : Hit(s, p) /\ r = <<s, p>>
  /\ \A p \in Partition : \A s : Hit(s, p) => <<s, p>> \in WrittenRows
  /\ \A r \in DurableRows : \E p \in Partition : \E s \in FileRows(p) : r = <<s, p>>
  /\ \A p \in Partition : \A s \in FileRows(p) : <<s, p>> \in DurableRows
<1>1. \A r \in WrittenRows : \E p \in Partition : \E s : Hit(s, p) /\ r = <<s, p>>
  BY Zenon DEF WrittenRows
<1>2. ASSUME NEW p \in Partition, NEW s, Hit(s, p) PROVE <<s, p>> \in WrittenRows
  <2>1. s \in {n \in 1 .. Len(log[SequencerOf[p]]) : Hit(n, p)}
    BY Zenon, <1>2 DEF Hit
  <2>2. <<s, p>> \in {<<m, p>> : m \in {n \in 1 .. Len(log[SequencerOf[p]]) : Hit(n, p)}}
    BY Zenon, <2>1
  <2> QED
    BY Zenon, <2>2 DEF WrittenRows
<1>3. \A r \in DurableRows : \E p \in Partition : \E s \in FileRows(p) : r = <<s, p>>
  BY Zenon DEF DurableRows
<1>4. ASSUME NEW p \in Partition, NEW s \in FileRows(p) PROVE <<s, p>> \in DurableRows
  <2>1. <<s, p>> \in {<<n, p>> : n \in FileRows(p)}
    BY Zenon
  <2> QED
    BY Zenon, <2>1 DEF DurableRows
<1> QED
  BY Zenon, <1>1, <1>2, <1>3, <1>4

\* The same in the next state.
LEMMA MappedNext ==
  /\ \A r \in WrittenRows' : \E p \in Partition : \E s : Hit(s, p)' /\ r = <<s, p>>
  /\ \A p \in Partition : \A s : Hit(s, p)' => <<s, p>> \in WrittenRows'
  /\ \A r \in DurableRows' : \E p \in Partition : \E s \in FileRows(p)' : r = <<s, p>>
  /\ \A p \in Partition : \A s \in FileRows(p)' : <<s, p>> \in DurableRows'
<1>1. \A r \in WrittenRows' : \E p \in Partition : \E s : Hit(s, p)' /\ r = <<s, p>>
  BY Zenon DEF WrittenRows
<1>2. ASSUME NEW p \in Partition, NEW s, Hit(s, p)' PROVE <<s, p>> \in WrittenRows'
  <2>1. s \in {n \in 1 .. Len(log'[SequencerOf[p]]) : Hit(n, p)'}
    BY Zenon, <1>2 DEF Hit
  <2>2. <<s, p>> \in {<<m, p>> : m \in {n \in 1 .. Len(log'[SequencerOf[p]]) : Hit(n, p)'}}
    BY Zenon, <2>1
  <2> QED
    BY Zenon, <2>2 DEF WrittenRows
<1>3. \A r \in DurableRows' : \E p \in Partition : \E s \in FileRows(p)' : r = <<s, p>>
  BY Zenon DEF DurableRows
<1>4. ASSUME NEW p \in Partition, NEW s \in FileRows(p)' PROVE <<s, p>> \in DurableRows'
  <2>1. <<s, p>> \in {<<n, p>> : n \in FileRows(p)'}
    BY Zenon
  <2> QED
    BY Zenon, <2>1 DEF DurableRows
<1> QED
  BY Zenon, <1>1, <1>2, <1>3, <1>4

\* The rows that files cover, now and in the next state.
LEMMA SealedMapped ==
  /\ \A r \in SealedRows : \E p \in Partition : \E f \in files[p] : \E s \in Covered(f) : r = <<s, p>>
  /\ \A p \in Partition : \A f \in files[p] : \A s \in Covered(f) : <<s, p>> \in SealedRows
<1>1. \A r \in SealedRows : \E p \in Partition : \E f \in files[p] : \E s \in Covered(f) : r = <<s, p>>
  BY Zenon DEF SealedRows
<1>2. ASSUME NEW p \in Partition, NEW f \in files[p], NEW s \in Covered(f) PROVE <<s, p>> \in SealedRows
  <2>1. s \in UNION {Covered(g) : g \in files[p]}
    BY Zenon
  <2>2. <<s, p>> \in {<<n, p>> : n \in UNION {Covered(g) : g \in files[p]}}
    BY Zenon, <2>1
  <2> QED
    BY Zenon, <2>2 DEF SealedRows
<1> QED
  BY Zenon, <1>1, <1>2

\* The same in the next state.
LEMMA SealedMappedNext ==
  /\ \A r \in SealedRows' : \E p \in Partition : \E f \in files'[p] : \E s \in Covered(f) : r = <<s, p>>
  /\ \A p \in Partition : \A f \in files'[p] : \A s \in Covered(f) : <<s, p>> \in SealedRows'
<1>1. \A r \in SealedRows' : \E p \in Partition : \E f \in files'[p] : \E s \in Covered(f) : r = <<s, p>>
  BY Zenon DEF SealedRows
<1>2. ASSUME NEW p \in Partition, NEW f \in files'[p], NEW s \in Covered(f) PROVE <<s, p>> \in SealedRows'
  <2>1. s \in UNION {Covered(g) : g \in files'[p]}
    BY Zenon
  <2>2. <<s, p>> \in {<<n, p>> : n \in UNION {Covered(g) : g \in files'[p]}}
    BY Zenon, <2>1
  <2> QED
    BY Zenon, <2>2 DEF SealedRows
<1> QED
  BY Zenon, <1>1, <1>2

\* They change only with the log and with the files.
LEMMA SameRows ==
  /\ UNCHANGED log => WrittenRows' = WrittenRows
  /\ UNCHANGED files => DurableRows' = DurableRows /\ SealedRows' = SealedRows
<1>1. ASSUME UNCHANGED log PROVE WrittenRows' = WrittenRows
  <2>1. \A p \in Partition : \A s : Hit(s, p)' <=> Hit(s, p)
    BY Zenon, <1>1 DEF Hit
  <2>2. WrittenRows \subseteq WrittenRows'
    <3> SUFFICES ASSUME NEW r \in WrittenRows PROVE r \in WrittenRows'
      BY Zenon
    <3>1. PICK q \in Partition : \E s : Hit(s, q) /\ r = <<s, q>>
      BY Zenon, Mapped
    <3> QED
      BY Zenon, <2>1, <3>1, MappedNext
  <2>3. WrittenRows' \subseteq WrittenRows
    <3> SUFFICES ASSUME NEW r \in WrittenRows' PROVE r \in WrittenRows
      BY Zenon
    <3>1. PICK q \in Partition : \E s : Hit(s, q)' /\ r = <<s, q>>
      BY Zenon, MappedNext
    <3> QED
      BY Zenon, <2>1, <3>1, Mapped
  <2> QED
    BY Zenon, <2>2, <2>3
<1>2. ASSUME UNCHANGED files PROVE DurableRows' = DurableRows
  <2>1. \A p \in Partition : FileRows(p)' = FileRows(p)
    BY Zenon, <1>2 DEF FileRows
  <2>2. DurableRows \subseteq DurableRows'
    <3> SUFFICES ASSUME NEW r \in DurableRows PROVE r \in DurableRows'
      BY Zenon
    <3>1. PICK q \in Partition : \E s \in FileRows(q) : r = <<s, q>>
      BY Zenon, Mapped
    <3> QED
      BY ZenonT(30), <2>1, <3>1, MappedNext
  <2>3. DurableRows' \subseteq DurableRows
    <3> SUFFICES ASSUME NEW r \in DurableRows' PROVE r \in DurableRows
      BY Zenon
    <3>1. PICK q \in Partition : \E s \in FileRows(q)' : r = <<s, q>>
      BY Zenon, MappedNext
    <3> QED
      BY ZenonT(30), <2>1, <3>1, Mapped
  <2> QED
    BY Zenon, <2>2, <2>3
<1>3. ASSUME UNCHANGED files PROVE SealedRows' = SealedRows
  <2>1. ASSUME NEW r \in SealedRows PROVE r \in SealedRows'
    <3>1. PICK q \in Partition : \E f \in files[q] : \E s \in Covered(f) : r = <<s, q>>
      BY Zenon, SealedMapped
    <3>2. PICK f \in files[q] : \E s \in Covered(f) : r = <<s, q>>
      BY Zenon, <3>1
    <3>3. f \in files'[q]
      BY Zenon, <1>3
    <3> QED
      BY Zenon, <3>2, <3>3, SealedMappedNext
  <2>2. ASSUME NEW r \in SealedRows' PROVE r \in SealedRows
    <3>1. PICK q \in Partition : \E f \in files'[q] : \E s \in Covered(f) : r = <<s, q>>
      BY Zenon, SealedMappedNext
    <3>2. PICK f \in files'[q] : \E s \in Covered(f) : r = <<s, q>>
      BY Zenon, <3>1
    <3>3. f \in files[q]
      BY Zenon, <1>3
    <3> QED
      BY Zenon, <3>2, <3>3, SealedMapped
  <2> QED
    BY Zenon, <2>1, <2>2
<1> QED
  BY Zenon, <1>1, <1>2, <1>3

\* The log and the catalog are empty at the start.
LEMMA InitMapped == Init => Durable!Init
<1> SUFFICES ASSUME Init PROVE Durable!Init
  BY Zenon
<1>1. \A p \in Partition : log[SequencerOf[p]] = <<>> /\ files[p] = {}
  BY Zenon, ShardingAssumption DEF Init
<1>2. \A p \in Partition : FileRows(p) = {}
  BY ZenonT(30), <1>1 DEF FileRows
<1>3. \A p \in Partition : \A s : ~Hit(s, p)
  BY Zenon, <1>1, NothingInEmpty DEF Hit
<1>4. WrittenRows = {}
  BY Zenon, <1>3, Mapped
<1>5. SealedRows = {}
  BY Zenon, <1>1, SealedMapped
<1>6. DOMAIN copies = {}
  BY DEF Init
<1> QED
  BY Zenon, <1>4, <1>5, <1>6 DEF Init, Durable!Init, Durable!durable

\* A step that reads nothing new and neither persists, gives up nor moves a
\* replay position is no step of DurableIngest.
LEMMA Stutters ==
  ASSUME UNCHANGED <<log, files, gone, copies, minUnpersisted>>
  PROVE  UNCHANGED Durable!vars
BY Zenon, SameRows DEF Durable!vars

\* Reading an operation the ingester has not seen makes its rows written: they are
\* at or after the replay position.
LEMMA ReceiveArrives ==
  ASSUME IndInv, NEW k \in Sequencer, NEW op \in Operation(k), Receive(k, op)
  PROVE  Durable!Arrive
<1>1. /\ UNCHANGED <<files, gone, copies, minUnpersisted>>
      /\ \/ log' = log
         \/ next[k] = Len(log[k]) + 1 /\ log' = [log EXCEPT ![k] = Append(@, op)]
  BY Zenon DEF Receive, durableVars, historyVars
<1>2. SealedRows' = SealedRows
  BY Zenon, <1>1, SameRows
<1>3. WrittenRows \subseteq WrittenRows'
  <2> SUFFICES ASSUME NEW r \in WrittenRows PROVE r \in WrittenRows'
    BY Zenon
  <2>1. PICK q \in Partition : \E s : Hit(s, q) /\ r = <<s, q>>
    BY Zenon, Mapped
  <2> QED
    BY Zenon, HitStays, <2>1, MappedNext
<1>4. WrittenRows' \in SUBSET Durable!Row
  <2>0. \A n : \A s \in 1 .. n : s \in Nat \ {0}
    OBVIOUS
  <2>1. \A p \in Partition : \A s : Hit(s, p)' => s \in Nat \ {0}
    BY Zenon, <2>0 DEF Hit
  <2> SUFFICES ASSUME NEW r \in WrittenRows' PROVE r \in Durable!Row
    BY Zenon
  <2>2. PICK p \in Partition : \E s : Hit(s, p)' /\ r = <<s, p>>
    BY Zenon, MappedNext
  <2>3. \E s \in Nat \ {0} : r = <<s, p>>
    BY Zenon, <2>1, <2>2
  <2> QED
    BY <2>2, <2>3 DEF Durable!Row
<1>5. ASSUME NEW r \in WrittenRows' \ WrittenRows
      PROVE  Durable!Number(r) >= minUnpersisted[Durable!Source(r)]
  <2>0. PICK p \in Partition : \E s : Hit(s, p)' /\ r = <<s, p>>
    BY Zenon, MappedNext
  <2>1. PICK s : Hit(s, p)' /\ r = <<s, p>>
    BY Zenon, <2>0
  <2>2. ~Hit(s, p)
    BY Zenon, <2>1, Mapped
  <2>3. log' # log
    BY Zenon, <2>1, <2>2 DEF Hit
  <2>4. /\ log \in [Sequencer -> Seq(OpType)] /\ op \in OpType /\ PositionsOf(k)
        /\ SequencerOf[p] \in Sequencer /\ minUnpersisted[k] \in Nat
    BY Zenon, OperationType, ShardingAssumption DEF IndInv, PositionsInv, TypeOK, StreamType, DurableType
  <2>5. log'[k] = Append(log[k], op) /\ log[k] \in Seq(OpType)
        /\ \A j \in Sequencer : j # k => log'[j] = log[j]
    BY Zenon, <1>1, <2>3, <2>4
  <2>6. SequencerOf[p] = k
    BY ZenonT(30), <2>1, <2>2, <2>4, <2>5 DEF Hit
  <2>7. \A n \in 1 .. Len(log'[k]) : n = Len(log[k]) + 1 \/ (n \in 1 .. Len(log[k]) /\ log'[k][n] = log[k][n])
    BY <2>4, <2>5
  <2>8. s \in 1 .. Len(log'[k])
    BY Zenon, <2>1, <2>6 DEF Hit
  <2>9. s = Len(log[k]) + 1
    BY Zenon, <2>1, <2>2, <2>6, <2>7, <2>8 DEF Hit
  <2>10. minUnpersisted[k] <= next[k] /\ next[k] = Len(log[k]) + 1
    BY Zenon, <1>1, <2>3, <2>4 DEF PositionsOf
  <2>11. s >= minUnpersisted[k]
    BY Zenon, <2>9, <2>10
  <2>12. r[1] = s /\ r[2] = p
    BY Zenon, <2>1
  <2> QED
    BY Zenon, <2>6, <2>11, <2>12 DEF Durable!Number, Durable!Source
<1> QED
  BY Zenon, <1>1, <1>2, <1>3, <1>4, <1>5 DEF Durable!Arrive

\* The transaction of a persist task makes rows durable: none of them is covered by
\* an earlier file, and the new one covers at least the first of them.
LEMMA CreatePersists ==
  ASSUME IndInv, RowsInv, NEW p \in Partition, CreateParquetFile(p)
  PROVE  Durable!Persist
<1> DEFINE b == persisting[p]
           F == {<<s, p>> : s \in b.rows}
           C == {<<s, p>> : s \in Covered(b)}
<1>1. /\ task[p] = "catalog" /\ files' = [files EXCEPT ![p] = @ \cup {b}]
      /\ copies' = OneMore(F)
      /\ UNCHANGED <<log, gone, minUnpersisted>>
  BY Zenon DEF CreateParquetFile, streamVars
<1>2. files'[p] = files[p] \cup {b} /\ \A q \in Partition : q # p => files'[q] = files[q]
  BY Zenon, <1>1 DEF IndInv, TypeOK, DurableType
<1>3. OrderOf(p) /\ b \in Batch /\ files[p] \subseteq Batch
  BY Zenon DEF IndInv, OrderInv, TypeOK, MemoryType, DurableType
<1>4. b # NoBatch
  BY Zenon, <1>1 DEF IndInv, TaskInv
<1>5. Covered(b) # {} /\ Covered(b) \subseteq b.rows
  BY Zenon, <1>3, <1>4 DEF OrderOf, Covered
<1>6. F \in SUBSET WrittenRows
  <2>1. \A s \in b.rows : Hit(s, p)
    BY Zenon DEF RowsInv
  <2>2. \A s \in b.rows : <<s, p>> \in WrittenRows
    BY Zenon, <2>1, Mapped
  <2> QED
    BY Zenon, <2>2
<1>7. ASSUME NEW r \in F, r \in SealedRows PROVE FALSE
  <2>1. PICK q \in Partition : \E f \in files[q] : \E s \in Covered(f) : r = <<s, q>>
    BY Zenon, <1>7, SealedMapped
  <2>2. PICK f \in files[q] : \E s \in Covered(f) : r = <<s, q>>
    BY Zenon, <2>1
  <2>3. PICK s \in Covered(f) : r = <<s, q>>
    BY Zenon, <2>2
  <2>4. q = p /\ s \in b.rows
    BY <1>7, <2>3
  <2>5. f.max < s
    BY Zenon, <1>1, <1>3, <2>2, <2>4 DEF OrderOf
  <2>6. s <= f.max /\ s \in Nat /\ f.max \in Nat
    BY Zenon, <1>3, <2>2, <2>3, <2>4 DEF Covered, Batch
  <2> QED
    BY <2>5, <2>6
<1>8. SealedRows' = SealedRows \cup C
  <2>1. ASSUME NEW r \in SealedRows' PROVE r \in SealedRows \cup C
    <3>1. PICK q \in Partition : \E f \in files'[q] : \E s \in Covered(f) : r = <<s, q>>
      BY Zenon, SealedMappedNext
    <3>2. PICK f \in files'[q] : \E s \in Covered(f) : r = <<s, q>>
      BY Zenon, <3>1
    <3>3. PICK s \in Covered(f) : r = <<s, q>>
      BY Zenon, <3>2
    <3>4. CASE f \in files[q]
      BY Zenon, <3>3, <3>4, SealedMapped
    <3>5. CASE q = p /\ f = b
      BY Zenon, <3>3, <3>5
    <3> QED
      BY Zenon, <1>2, <3>2, <3>4, <3>5
  <2>2. ASSUME NEW r \in SealedRows PROVE r \in SealedRows'
    <3>1. PICK q \in Partition : \E f \in files[q] : \E s \in Covered(f) : r = <<s, q>>
      BY Zenon, SealedMapped
    <3>2. PICK f \in files[q] : \E s \in Covered(f) : r = <<s, q>>
      BY Zenon, <3>1
    <3>3. f \in files'[q]
      BY Zenon, <1>2, <3>2
    <3> QED
      BY Zenon, <3>2, <3>3, SealedMappedNext
  <2>3. C \subseteq SealedRows'
    <3>1. b \in files'[p]
      BY Zenon, <1>2
    <3>2. \A s \in Covered(b) : <<s, p>> \in SealedRows'
      BY Zenon, <3>1, SealedMappedNext
    <3> QED
      BY Zenon, <3>2
  <2> QED
    BY Zenon, <2>1, <2>2, <2>3
<1>9. C \in SUBSET F /\ C # {}
  BY Zenon, <1>5
<1>10. Stops = {} => C = F
  BY Zenon, <1>3 DEF OrderOf, MaxOfAll, Covered
<1>11. WrittenRows' = WrittenRows
  BY Zenon, <1>1, SameRows
<1>12. copies \in [DOMAIN copies -> Nat \ {0}]
  BY Zenon DEF IndInv, TypeOK, HistoryType
<1> HIDE DEF F, C
<1>13. F \in SUBSET (WrittenRows \ SealedRows)
  BY Zenon, <1>6, <1>7
<1>14. /\ Durable!durable' = Durable!durable \cup F
       /\ \A r \in Durable!durable' : copies'[r] = Durable!CopiesOf(r) + (IF r \in F THEN 1 ELSE 0)
  BY Zenon, <1>1, <1>12, OneFileMore DEF Durable!durable, Durable!CopiesOf
<1> QED
  BY Zenon, <1>1, <1>8, <1>10, <1>9, <1>11, <1>13, <1>14 DEF Durable!Persist

\* Deletes and errors give up rows that were written.
LEMMA GivesUp ==
  ASSUME RowsInv', TypeOK', UNCHANGED <<log, files, copies, minUnpersisted>>, gone \subseteq gone'
  PROVE  Durable!GiveUp
<1>1. \A q \in Partition : FileRows(q)' = FileRows(q) /\ \A s : Hit(s, q)' = Hit(s, q)
  BY Zenon DEF Hit, FileRows
<1>2. WrittenRows' = WrittenRows /\ SealedRows' = SealedRows
  BY Zenon, SameRows
<1>3. gone' \subseteq WrittenRows
  <2> SUFFICES ASSUME NEW r \in gone' PROVE r \in WrittenRows
    BY Zenon
  <2>1. r \in (Nat \ {0}) \X Partition
    BY Zenon DEF TypeOK, HistoryType
  <2>2. PICK s \in Nat \ {0}, q \in Partition : r = <<s, q>>
    BY <2>1
  <2>3. Hit(s, q)
    BY Zenon, <1>1, <2>2 DEF RowsInv
  <2> QED
    BY Zenon, <2>2, <2>3, Mapped
<1> QED
  BY Zenon, <1>2, <1>3 DEF Durable!GiveUp

\* update_min_unpersisted_sequence_number passes rows only if they are durable or
\* given up, by Recoverable in the next state.
LEMMA UpdateAdvances ==
  ASSUME IndInv, IndInv', CopiesInv, NEW k \in Sequencer, UpdateMinUnpersisted(k)
  PROVE  Durable!Advance(k) \/ UNCHANGED Durable!vars
<1>1. /\ target[k] # 0 /\ minUnpersisted' = [minUnpersisted EXCEPT ![k] = target[k]]
      /\ UNCHANGED <<log, files, gone, copies>>
  BY Zenon DEF UpdateMinUnpersisted, streamVars, historyVars
<1>2. /\ minUnpersisted \in [Sequencer -> Nat \ {0}] /\ target[k] \in Nat /\ minUnpersisted[k] <= target[k]
      /\ minUnpersisted' \in [Sequencer -> Nat \ {0}]
  BY Zenon, <1>1 DEF IndInv, PositionsInv, PositionsOf, TypeOK, ManagerType, DurableType
<1>3. \A p \in Partition : FileRows(p)' = FileRows(p) /\ \A s : Hit(s, p)' = Hit(s, p)
  BY Zenon, <1>1 DEF FileRows, Hit
<1>4. WrittenRows' = WrittenRows /\ SealedRows' = SealedRows
  BY Zenon, <1>1, SameRows
<1>5. CASE minUnpersisted[k] = target[k]
  <2>1. minUnpersisted' = minUnpersisted
    BY Zenon, <1>1, <1>2, <1>5
  <2> QED
    BY Zenon, <1>1, <1>4, <2>1 DEF Durable!vars
<1>6. CASE minUnpersisted[k] # target[k]
  <2>1. /\ minUnpersisted'[k] = target[k] /\ minUnpersisted'[k] > minUnpersisted[k]
        /\ minUnpersisted' \in [Sequencer -> Nat]
        /\ \A j \in Sequencer \ {k} : minUnpersisted'[j] = minUnpersisted[j]
    BY <1>1, <1>2, <1>6
  <2>2. ASSUME NEW r \in WrittenRows, Durable!Source(r) = k, Durable!Number(r) < minUnpersisted'[k]
        PROVE  r \in Durable!durable \cup gone
    <3>0. PICK p \in Partition : \E s : Hit(s, p) /\ r = <<s, p>>
      BY Zenon, Mapped
    <3>1. PICK s : Hit(s, p) /\ r = <<s, p>>
      BY Zenon, <3>0
    <3>2. SequencerOf[p] = k /\ s < minUnpersisted'[k]
      <4>1. r[1] = s /\ r[2] = p
        BY Zenon, <3>1
      <4> QED
        BY Zenon, <2>2, <4>1 DEF Durable!Source, Durable!Number
    <3>3. s \in 1 .. Len(log[k]) /\ s \in Nat
      <4>1. s \in 1 .. Len(log[k])
        BY Zenon, <3>1, <3>2 DEF Hit
      <4> QED
        BY <4>1
    <3>4. ~ (s >= minUnpersisted'[k])
      BY SMTT(30), <1>2, <2>1, <3>2, <3>3
    <3>5. <<s, p>> \in gone \/ s \in FileRows(p)
      BY ZenonT(30), <1>1, <1>3, <3>1, <3>2, <3>3, <3>4 DEF IndInv, Recoverable
    <3> QED
      BY Zenon, <3>1, <3>5, Mapped DEF CopiesInv, Durable!durable
  <2> QED
    BY ZenonT(30), <1>1, <1>4, <2>1, <2>2 DEF Durable!Advance
<1> QED
  BY Zenon, <1>5, <1>6

\* Files and copies are counted together, by the catalog insert alone.
LEMMA CopiesNext == IndInv /\ CopiesInv /\ [Next]_vars => CopiesInv'
<1> SUFFICES ASSUME IndInv, CopiesInv, [Next]_vars PROVE CopiesInv'
  BY Zenon
<1>1. ASSUME UNCHANGED <<files, copies>> PROVE CopiesInv'
  BY Zenon, <1>1, SameRows DEF CopiesInv
<1>2. ASSUME NEW p \in Partition, CreateParquetFile(p) PROVE CopiesInv'
  <2> DEFINE b == persisting[p]
             F == {<<s, p>> : s \in b.rows}
  <2>1. files' = [files EXCEPT ![p] = @ \cup {b}] /\ copies' = OneMore(F)
    BY Zenon, <1>2 DEF CreateParquetFile
  <2>2. files'[p] = files[p] \cup {b} /\ \A q \in Partition : q # p => files'[q] = files[q]
    BY Zenon, <2>1 DEF IndInv, TypeOK, DurableType
  <2>3. \A q \in Partition : \A s : s \in FileRows(q)' <=> s \in FileRows(q) \/ (q = p /\ s \in b.rows)
    <3>1. \A s : s \in FileRows(p)' <=> s \in FileRows(p) \/ s \in b.rows
      BY Zenon, <2>2 DEF FileRows
    <3>2. \A q \in Partition : q # p => FileRows(q)' = FileRows(q)
      BY Zenon, <2>2 DEF FileRows
    <3> QED
      BY Zenon, <3>1, <3>2
  <2>4. ASSUME NEW r \in DurableRows' PROVE r \in DurableRows \cup F
    <3>1. PICK q \in Partition : \E s \in FileRows(q)' : r = <<s, q>>
      BY Zenon, MappedNext
    <3>2. PICK s \in FileRows(q)' : r = <<s, q>>
      BY Zenon, <3>1
    <3>3. s \in FileRows(q) \/ (q = p /\ s \in b.rows)
      BY Zenon, <2>3
    <3> QED
      BY Zenon, <3>2, <3>3, Mapped
  <2>5. ASSUME NEW r \in DurableRows PROVE r \in DurableRows'
    <3>1. PICK q \in Partition : \E s \in FileRows(q) : r = <<s, q>>
      BY Zenon, Mapped
    <3>2. PICK s \in FileRows(q) : r = <<s, q>>
      BY Zenon, <3>1
    <3>3. s \in FileRows(q)'
      BY Zenon, <2>3
    <3> QED
      BY Zenon, <3>2, <3>3, MappedNext
  <2>6. F \subseteq DurableRows'
    <3>1. \A s \in b.rows : s \in FileRows(p)'
      BY Zenon, <2>3
    <3>2. \A s \in b.rows : <<s, p>> \in DurableRows'
      BY Zenon, <3>1, MappedNext
    <3> QED
      BY Zenon, <3>2
  <2>7. DOMAIN copies' = DOMAIN copies \cup F
    <3>1. copies \in [DOMAIN copies -> Nat \ {0}]
      BY Zenon DEF IndInv, TypeOK, HistoryType
    <3> HIDE DEF F
    <3> QED
      BY Zenon, <2>1, <3>1, OneFileMore
  <2> HIDE DEF F
  <2> QED
    BY Zenon, <2>4, <2>5, <2>6, <2>7 DEF CopiesInv
<1> USE DEF durableVars, historyVars
<1>3. ASSUME NEW k \in Sequencer, StreamStep(k) \/ StreamError(k) \/ Resume(k) PROVE CopiesInv'
  <2>1. CASE StreamStep(k)
    BY Zenon, <1>1, <2>1 DEF StreamStep, Receive, SkipWrite, LogWrite, BufferWrite, ApplyDelete
  <2>2. CASE StreamError(k)
    BY Zenon, <1>1, <2>2 DEF StreamError, BufferWriteError, CatalogError, DropOperation
  <2>3. CASE Resume(k)
    BY Zenon, <1>1, <2>3 DEF Resume
  <2> QED
    BY Zenon, <1>3, <2>1, <2>2, <2>3
<1>4. ASSUME NEW due, MaybePersist(due) PROVE CopiesInv'
  BY Zenon, <1>1, <1>4 DEF MaybePersist
<1>5. ASSUME NEW p \in Partition, SpawnPersist(p) \/ PersistStep(p) PROVE CopiesInv'
  BY Zenon, <1>1, <1>2, <1>5 DEF SpawnPersist, PersistStep, SnapshotToPersisting, Upload, MarkPersisted, ReleaseMemory
<1>6. ASSUME NEW k \in Sequencer, UpdateMinUnpersisted(k) PROVE CopiesInv'
  BY Zenon, <1>1, <1>6 DEF UpdateMinUnpersisted
<1>7. ASSUME CrashAndRestart PROVE CopiesInv'
  BY Zenon, <1>1, <1>7 DEF CrashAndRestart
<1>8. ASSUME UNCHANGED vars PROVE CopiesInv'
  BY Zenon, <1>1, <1>8 DEF vars
<1> QED
  BY ZenonT(30), <1>3, <1>4, <1>5, <1>6, <1>7, <1>8 DEF Next

\* No file at the start, and no copy.
LEMMA CopiesInit == Init => CopiesInv
<1> SUFFICES ASSUME Init PROVE CopiesInv
  BY Zenon
<1>1. \A p \in Partition : files[p] = {}
  BY Zenon DEF Init
<1>2. \A p \in Partition : FileRows(p) = {}
  BY ZenonT(30), <1>1 DEF FileRows
<1>3. DurableRows = {}
  BY Zenon, <1>2, Mapped
<1>4. DOMAIN copies = {}
  BY DEF Init
<1> QED
  BY Zenon, <1>3, <1>4 DEF CopiesInv

\* Every step is a step of DurableIngest or none.
LEMMA StepMapped ==
  IndInv /\ RowsInv /\ CopiesInv /\ IndInv' /\ RowsInv' /\ [Next]_vars => [Durable!Next]_(Durable!vars)
<1> SUFFICES ASSUME IndInv, RowsInv, CopiesInv, IndInv', RowsInv', [Next]_vars
             PROVE  Durable!Next \/ UNCHANGED Durable!vars
  BY Zenon
<1> USE DEF streamVars, durableVars, historyVars
<1>1. ASSUME UNCHANGED <<log, files, gone, copies, minUnpersisted>> PROVE UNCHANGED Durable!vars
  BY Zenon, <1>1, Stutters
<1>2. ASSUME NEW k \in Sequencer, StreamStep(k) PROVE Durable!Next \/ UNCHANGED Durable!vars
  <2>1. CASE ApplyDelete(k)
    <3>1. UNCHANGED <<log, files, copies, minUnpersisted>> /\ gone \subseteq gone'
      BY Zenon, <2>1 DEF ApplyDelete
    <3> QED
      BY Zenon, <3>1, GivesUp DEF Durable!Next, IndInv
  <2>2. CASE \E op \in Operation(k) : Receive(k, op)
    BY Zenon, <2>2, ReceiveArrives DEF Durable!Next
  <2>3. CASE \E p \in PartitionsOf(k) : SkipWrite(k, p) \/ LogWrite(k, p) \/ BufferWrite(k, p)
    BY Zenon, <1>1, <2>3 DEF SkipWrite, LogWrite, BufferWrite
  <2> QED
    BY Zenon, <1>2, <2>1, <2>2, <2>3 DEF StreamStep
<1>3. ASSUME NEW k \in Sequencer, StreamError(k) PROVE Durable!Next
  <2>1. DropOperation(k)
    BY Zenon, <1>3 DEF StreamError, BufferWriteError, CatalogError
  <2>2. UNCHANGED <<log, files, copies, minUnpersisted>> /\ gone \subseteq gone'
    BY Zenon, <2>1 DEF DropOperation
  <2> QED
    BY Zenon, <2>2, GivesUp DEF Durable!Next, IndInv
<1>4. ASSUME NEW k \in Sequencer, Resume(k) PROVE UNCHANGED Durable!vars
  BY Zenon, <1>1, <1>4 DEF Resume
<1>5. ASSUME NEW due, MaybePersist(due) PROVE UNCHANGED Durable!vars
  BY Zenon, <1>1, <1>5 DEF MaybePersist
<1>6. ASSUME NEW p \in Partition, SpawnPersist(p) \/ PersistStep(p)
      PROVE  Durable!Next \/ UNCHANGED Durable!vars
  <2>1. CASE CreateParquetFile(p)
    BY Zenon, <2>1, CreatePersists DEF Durable!Next
  <2>2. CASE ~CreateParquetFile(p)
    BY Zenon, <1>1, <1>6, <2>2 DEF SpawnPersist, PersistStep, SnapshotToPersisting, Upload, MarkPersisted, ReleaseMemory
  <2> QED
    BY Zenon, <2>1, <2>2
<1>7. ASSUME NEW k \in Sequencer, UpdateMinUnpersisted(k) PROVE Durable!Next \/ UNCHANGED Durable!vars
  BY Zenon, <1>7, UpdateAdvances DEF Durable!Next
<1>8. ASSUME CrashAndRestart PROVE UNCHANGED Durable!vars
  BY Zenon, <1>1, <1>8 DEF CrashAndRestart
<1>9. ASSUME UNCHANGED vars PROVE UNCHANGED Durable!vars
  BY Zenon, <1>1, <1>9 DEF vars
<1> QED
  BY ZenonT(30), <1>2, <1>3, <1>4, <1>5, <1>6, <1>7, <1>8, <1>9 DEF Next

\* No row is invented: what files and buffers hold was read from the write buffer.
THEOREM RowsComeFromTheLog == Spec => []RowsInv
BY RowsInit, RowsNext, Invariance, PTL DEF Spec

\* What the copies count are the rows in the catalog's parquet files.
THEOREM CopiesAreCounted == Spec => []CopiesInv
BY CopiesInit, CopiesNext, Invariance, PTL DEF Spec

\* The ingester implements DurableIngest: a row read from the write buffer is made
\* durable or given up before the replay position passes it; a row that a file's
\* max_sequence_number covers goes into no further file, and without deletes no row
\* goes into two.
THEOREM IngestIsDurable == Spec => ImplementsDurableIngest
BY InitMapped, StepMapped, RowsComeFromTheLog, CopiesAreCounted, Invariance, PTL DEF Spec, ImplementsDurableIngest, Durable!Spec

=============================================================================
