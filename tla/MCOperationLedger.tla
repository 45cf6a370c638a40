------------------------- MODULE MCOperationLedger --------------------------
(* The ledger with room for two entries and four operations to start, so   *)
(* that entries are trimmed while late tasks and manual blocks are about.   *)
EXTENDS OperationLedger, TLC

Symmetry == Permutations(Ids \ {MigrationId})
=============================================================================
