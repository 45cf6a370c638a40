--------------------------- MODULE MCControlPages ---------------------------
(* Small instances of ControlPages. *)
EXTENDS ControlPages

\* No draft is registered yet.
Start == Init /\ registered = {}

FromTheBeginning == Start /\ [][Next]_vars
Fairly == FromTheBeginning /\ Fairness
=============================================================================
