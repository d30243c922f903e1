--------------------------- MODULE MCCheckpointer ---------------------------
(* Small instances of Checkpointer for TLC.                                *)
EXTENDS Checkpointer, TLC

CONSTANTS t1, t2

MCTopics == <<t1, t2>>
Symmetry == Permutations(Connection)
=============================================================================
