---------------------------- MODULE MCWriteProgress ----------------------------
(* Two tables of one partition each. *)
EXTENDS WriteProgress, TLC

CONSTANTS a, b

TwoTables == (a :> 1) @@ (b :> 2)

=============================================================================
