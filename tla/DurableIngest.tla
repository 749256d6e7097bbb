----------------------------- MODULE DurableIngest -----------------------------
(***************************************************************************)
(* What an ingester promises to the write buffer and to readers of the     *)
(* catalog, without buffers, tasks or crashes: rows arrive and become      *)
(* durable, a row that a file accounts for is in no later file, and the    *)
(* replay position of a sequencer only moves forward, and only over rows   *)
(* that need no replay.                                                    *)
(***************************************************************************)
EXTENDS Integers

CONSTANTS
  Sequencer,
  Partition,
  SequencerOf,    \* the sequencer whose writes go to a partition
  Exact           \* a file accounts for all its rows

VARIABLES
  written,        \* rows of the write buffer
  copies,         \* of the durable rows: how many parquet files hold the row
  sealed,         \* rows some file accounts for: they need no replay
  lost,           \* rows given up: dropped by an error or erased by a delete
  position        \* per sequencer, where a restart starts reading

\* What a write leaves in a partition: its sequence number names it there.
Row == (Nat \ {0}) \X Partition
Number(r) == r[1]
Source(r) == SequencerOf[r[2]]

durable == DOMAIN copies
CopiesOf(r) == IF r \in durable THEN copies[r] ELSE 0

vars == <<written, copies, sealed, lost, position>>

Init ==
  /\ written = {} /\ durable = {} /\ sealed = {} /\ lost = {}
  /\ position = [k \in Sequencer |-> 1]

\* New rows lie beyond every replay position.
Arrive ==
  /\ written' \in SUBSET Row /\ written \subseteq written'
  /\ \A r \in written' \ written : Number(r) >= position[Source(r)]
  /\ UNCHANGED <<copies, sealed, lost, position>>

\* A parquet file holds one more copy of some rows, none of which an earlier file
\* accounts for, and accounts for some of them, for all if it is exact.
Persist ==
  /\ \E F \in SUBSET (written \ sealed) :
       /\ durable' = durable \cup F
       /\ \A r \in durable' : copies'[r] = CopiesOf(r) + (IF r \in F THEN 1 ELSE 0)
       /\ \E C \in SUBSET F : /\ C # {} /\ (Exact => C = F)
                              /\ sealed' = sealed \cup C
  /\ UNCHANGED <<written, lost, position>>

GiveUp ==
  /\ lost \subseteq lost' /\ lost' \subseteq written
  /\ UNCHANGED <<written, copies, sealed, position>>

Advance(k) ==
  /\ position'[k] > position[k]
  /\ position' \in [Sequencer -> Nat]
  /\ \A j \in Sequencer \ {k} : position'[j] = position[j]
  /\ \A r \in written : Source(r) = k /\ Number(r) < position'[k] => r \in durable \cup lost
  /\ UNCHANGED <<written, copies, sealed, lost>>

Next ==
  \/ Arrive
  \/ Persist
  \/ GiveUp
  \/ \E k \in Sequencer : Advance(k)

Spec == Init /\ [][Next]_vars

=============================================================================
