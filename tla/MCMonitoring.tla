--------------------------- MODULE MCMonitoring -----------------------------
(* Small instances of Monitoring. *)
EXTENDS MonitoringInvariant

\* The machines differ in their names only: one stands for all as the first
\* active one.
Start == MonitoringInit /\ active = CHOOSE m \in Machines : TRUE

FromOneMachine == Start /\ [][MonitoringNext]_monitoringVars /\ MonitoringFairness
=============================================================================
