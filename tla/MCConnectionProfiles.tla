------------------------ MODULE MCConnectionProfiles ------------------------
(* Small instances of ConnectionProfiles.  Profiles, calls and requests to   *)
(* the catalog are interchangeable.                                          *)
EXTENDS ConnectionProfiles, TLC

Symmetry == Permutations(Ids) \cup Permutations(Calls) \cup Permutations(Consumers)
=============================================================================
