--------------------------- MODULE MCRemoteChanges --------------------------
(* Symmetry for the TLC runs of RemoteChanges. *)
EXTENDS RemoteChanges, TLC

Symmetry == Permutations(Machines) \cup Permutations(Configs) \cup Permutations(Values)
            \cup Permutations(Plans) \cup Permutations(Calls)
=============================================================================
