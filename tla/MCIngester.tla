------------------------------ MODULE MCIngester ------------------------------
(* Small instances of Ingester for TLC. *)
EXTENDS IngesterInv, TLC

CONSTANTS k1, k2, t1, t2, p1, p2

\* One sequencer, two tables with one partition each: a write may span both.
OneSequencer == [p \in {p1, p2} |-> k1]
TwoTables == p1 :> t1 @@ p2 :> t2

\* Two sequencers with one partition each, of the same table.
TwoSequencers == p1 :> k1 @@ p2 :> k2
OneTable == [p \in {p1, p2} |-> t1]

\* The two partitions of OneSequencer are interchangeable: the state holds no
\* table, and the specification only asks whether two tables are the same.
Renaming == Permutations({p1, p2})

=============================================================================
