-------------------------- MODULE MCServiceControl --------------------------
(* Local service control on small instances.  The identifier of the ledger's *)
(* migration block is one more element of Ids; the calls are interchangeable, *)
(* and so are the plans.                                                      *)
EXTENDS ServiceControl, TLC

Symmetry == Permutations(Calls) \cup Permutations(Plans)

\* The targets differ in their names only: one stands for all as the first one.
StartOnOne == Init /\ active = CHOOSE context \in Contexts : TRUE

FromOneTarget == StartOnOne /\ [][Next]_vars /\ Fairness
=============================================================================
