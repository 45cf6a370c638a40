------------------------- MODULE MCHardwareHistory -------------------------
(* A small instance of HardwareHistory. *)
EXTENDS HardwareInvariant

\* One machine's clock is ahead, and the profile of the other is active.
Start == HardwareInit /\ {p \in Profiles : ahead[p] = 0} = {active}

FairlyFromOne == Start /\ [][HardwareNext]_hardwareVars /\ HardwareFairness
=============================================================================
