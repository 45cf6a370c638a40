-------------------------- MODULE MCManagedServices --------------------------
(* Machines of the items, and symmetry, for the TLC runs of ManagedServices. *)
EXTENDS ManagedServices, TLC

CONSTANTS m1, m2, a, b

\* Two models on one of two machines.
TwoModels == (a :> m1) @@ (b :> m1)

Symmetric == Permutations(Items) \cup Permutations(Templates) \cup Permutations(Digests) \cup Permutations(Plans)
             \cup Permutations(Requests) \cup Permutations(Slots)
=============================================================================
