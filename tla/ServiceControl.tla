--------------------------- MODULE ServiceControl ---------------------------
(***************************************************************************)
(* Local service control, end to end: a plan is confirmed, the ledger      *)
(* leases the operation, a fixed script runs on the DGX, the postcondition *)
(* is read back, the ledger is closed and the audit record is appended     *)
(* (local-service-control.mjs), beside everything that runs at the same    *)
(* time in the desktop process: further confirmations, a switch of the     *)
(* active connection profile (connection-profile.mjs), a restart of the    *)
(* application core inside the process when a session preference is        *)
(* toggled (desktop main.mjs), a crash, and the person who resolves a      *)
(* recovered operation.                                                    *)
(*                                                                         *)
(* One step is what the single-threaded process does between two awaits.   *)
(* Each confirmation call starts at most one operation, so the call and    *)
(* its operation share one identifier.                                     *)
(***************************************************************************)
EXTENDS LedgerDocument

CONSTANTS
    Plans,
    ServiceKind,      \* 'service-control'
    MigrationKind,    \* 'ledger-migration': no operation here has this kind
    MigrationId,      \* the one identifier that is not a confirmation call's
    None,             \* null
    MaxCores,         \* bound: application cores ever started
    MaxCrashes,       \* bound: process crashes
    MaxSwitches,      \* bound: switches of the active profile
    MaxFaults         \* bound: ledger calls lost to a busy lock or a disk error

ASSUME ControlKinds ==
    ServiceKind \in Kinds /\ MigrationKind \in Kinds /\ ServiceKind # MigrationKind
ASSUME ControlIds == MigrationId \in Ids
ASSUME ControlBounds ==
    /\ {MaxCores, MaxCrashes, MaxSwitches, MaxFaults} \subseteq Nat
    /\ MaxCores >= 1
ASSUME ControlNone == None \notin Ids \cup Plans \cup Contexts
ASSUME ControlContexts == Contexts # {}

Calls == Ids \ {MigrationId}
Targets == Contexts      \* the verified machine stands for the whole context

VARIABLES
    doc,          \* the ledger file
    up,           \* is the process running?
    epoch,        \* cores started so far; the last one takes the requests
    running,      \* per core: runningOperationId
    plans,        \* per plan: its core, status and snapshot digest
    pc,           \* per call: where confirmPlan, then runOperation, stands
    call,         \* per call: its plan, core, digest, targets and outcome
    remote,       \* calls whose script is running on a DGX
    active,       \* target of the active connection profile
    activation,   \* an activation that has passed canActivate and not saved
    lost,         \* history: calls whose ssh client ended under their script
    audited,      \* calls with an audit record
    started,      \* history: calls whose operation was recorded
    acknowledged, \* history: operations a person has resolved
    crashes, switches, faults

ledgerVars == <<doc, started, acknowledged>>
coreVars == <<up, epoch, crashes>>
callVars == <<running, plans, pc, call>>
profileVars == <<active, activation, switches>>
remoteVars == <<remote, lost>>
vars == <<ledgerVars, coreVars, callVars, profileVars, remoteVars, audited, faults>>

\* confirmPlan, up to the ledger's answer.
Confirming == {"checking", "identity", "starting"}
\* runOperation, up to its last ledger call.
Working == {"queued", "resolving", "executing", "executed", "verifying", "closing"}
Over == {"rejected", "done", "unsettled", "gone"}
Stages == {"idle", "auditing"} \cup Confirming \cup Working \cup Over

PlanStatuses == {"none", "awaiting-confirmation", "confirmed", "expired"}

-----------------------------------------------------------------------------

Init ==
    /\ doc = EmptyDocument
    /\ up = TRUE /\ epoch = 1
    /\ running = [k \in 1 .. MaxCores |-> None]
    /\ plans = [p \in Plans |-> [core |-> 1, status |-> "none", digest |-> None]]
    /\ pc = [c \in Calls |-> "idle"]
    /\ call = [c \in Calls |-> [plan |-> None, core |-> 1, digest |-> None, bound |-> None,
                                ran |-> None, outcome |-> "failed"]]
    /\ remote = {} /\ lost = {}
    /\ active \in Targets /\ activation = None
    /\ audited = {} /\ started = {} /\ acknowledged = {}
    /\ crashes = 0 /\ switches = 0 /\ faults = 0

-----------------------------------------------------------------------------
(* Plans and confirmations. *)

\* createPlan: adapter compatibility and the snapshot's preconditions held.
CreatePlan(p) ==
    /\ up
    /\ plans[p].status = "none"
    /\ plans' = [plans EXCEPT ![p].core = epoch, ![p].status = "awaiting-confirmation"]
    /\ UNCHANGED <<ledgerVars, coreVars, profileVars, running, pc, call, remoteVars, audited, faults>>

\* The checks confirmPlan makes before its first await.
Confirm(c, p) ==
    /\ up
    /\ pc[c] = "idle"
    /\ plans[p].core = epoch
    /\ plans[p].status = "awaiting-confirmation"
    /\ running[epoch] = None
    /\ pc' = [pc EXCEPT ![c] = "checking"]
    /\ call' = [call EXCEPT ![c].plan = p, ![c].core = epoch]
    /\ UNCHANGED <<ledgerVars, coreVars, profileVars, running, plans, remoteVars, audited, faults>>

\* The plan's five minutes had passed when the confirmation came in.
ConfirmExpired(c, p) ==
    /\ up
    /\ pc[c] = "idle"
    /\ plans[p].core = epoch
    /\ plans[p].status = "awaiting-confirmation"
    /\ plans' = [plans EXCEPT ![p].status = "expired"]
    /\ pc' = [pc EXCEPT ![c] = "rejected"]
    /\ UNCHANGED <<ledgerVars, coreVars, profileVars, running, call, remoteVars, audited, faults>>

\* Adapter and snapshot are checked again.  The snapshot is a new one, or the
\* cached one the plan's digest was taken from.  The context provider then
\* loads the active profile, whose evidence the operation will be bound to.
Recheck(c) ==
    /\ pc[c] = "checking"
    /\ \E digest \in {c, plans[call[c].plan].digest} :
        /\ plans' = [plans EXCEPT ![call[c].plan].digest = digest]
        /\ call' = [call EXCEPT ![c].digest = digest, ![c].bound = active]
    /\ pc' = [pc EXCEPT ![c] = "identity"]
    /\ UNCHANGED <<ledgerVars, coreVars, profileVars, running, remoteVars, audited, faults>>

\* The profile's machine answered with the same evidence, and no concurrent
\* confirmation of the plan has replaced its digest meanwhile.
Bind(c) ==
    /\ pc[c] = "identity"
    /\ plans[call[c].plan].digest = call[c].digest
    /\ plans' = [plans EXCEPT ![call[c].plan].status = "confirmed"]
    /\ pc' = [pc EXCEPT ![c] = "starting"]
    /\ UNCHANGED <<ledgerVars, coreVars, profileVars, running, call, remoteVars, audited, faults>>

\* Any check of confirmPlan throws: the machine is unreachable, the service is
\* not idle, memory is short, evidence or digest has changed.
ConfirmFails(c) ==
    /\ pc[c] \in {"checking", "identity"}
    /\ pc' = [pc EXCEPT ![c] = "rejected"]
    /\ UNCHANGED <<ledgerVars, coreVars, profileVars, running, plans, call, remoteVars, audited, faults>>

\* A ledger call is rejected because of a busy lock or a disk error: nothing is
\* written, or only what follows the write fails (see LedgerFile).
LedgerFault ==
    /\ faults < MaxFaults
    /\ faults' = faults + 1

\* ledger.start, and what confirmPlan does with its answer.
Start(c) ==
    /\ pc[c] = "starting"
    /\ CanStart(doc, c)
    /\ doc' = Started(doc, c, ServiceKind, call[c].bound)
    /\ started' = started \cup {c}
    /\ running' = [running EXCEPT ![call[c].core] = c]
    /\ pc' = [pc EXCEPT ![c] = "queued"]
    /\ UNCHANGED <<coreVars, profileVars, plans, call, remoteVars, audited, acknowledged, faults>>

StartRejected(c) ==
    /\ pc[c] = "starting"
    /\ \/ ~CanStart(doc, c) /\ UNCHANGED <<doc, started, faults>>
       \/ LedgerFault /\ UNCHANGED <<doc, started>>
       \/ /\ LedgerFault
          /\ CanStart(doc, c)
          /\ doc' = Started(doc, c, ServiceKind, call[c].bound)
          /\ started' = started \cup {c}
    /\ pc' = [pc EXCEPT ![c] = "rejected"]
    /\ UNCHANGED <<coreVars, profileVars, running, plans, call, remoteVars, audited, acknowledged>>

-----------------------------------------------------------------------------
(* runOperation. *)

\* The catch and the synchronous part of the finally block.
Leave(c, outcome) ==
    /\ pc' = [pc EXCEPT ![c] = "closing"]
    /\ call' = [call EXCEPT ![c].outcome = outcome]
    /\ running' = [running EXCEPT ![call[c].core] = None]

\* Slip (see LedgerDocument): a refused report ends the task without its finally.
ReportWithoutCatch(c) ==
    /\ pc[c] \in {"queued", "executed"}
    /\ CanTransition(doc, c)
    /\ doc' = Progressed(doc, c)
    /\ pc' = [pc EXCEPT ![c] = IF @ = "queued" THEN "resolving" ELSE "verifying"]
    /\ UNCHANGED <<coreVars, profileVars, running, plans, call, remoteVars, audited, started,
                   acknowledged, faults>>

\* The two progress reports to the ledger, and the stage each one leads to.
Report(c) ==
    /\ pc[c] \in {"queued", "executed"}
    /\ \/ /\ CanTransition(doc, c)
          /\ doc' = Progressed(doc, c)
          /\ pc' = [pc EXCEPT ![c] = IF @ = "queued" THEN "resolving" ELSE "verifying"]
          /\ UNCHANGED <<running, call, faults>>
       \/ /\ \/ ~CanTransition(doc, c) /\ UNCHANGED <<doc, faults>>
             \/ LedgerFault /\ UNCHANGED doc
             \/ LedgerFault /\ CanTransition(doc, c) /\ doc' = Progressed(doc, c)
          /\ Leave(c, "failed")
    /\ UNCHANGED <<coreVars, profileVars, plans, remoteVars, audited, started, acknowledged>>

\* The target is read from the profile that is active now; ssh starts.
Execute(c) ==
    /\ pc[c] = "resolving"
    /\ call' = [call EXCEPT ![c].ran = active]
    /\ remote' = remote \cup {c}
    /\ pc' = [pc EXCEPT ![c] = "executing"]
    /\ UNCHANGED <<ledgerVars, coreVars, profileVars, running, plans, lost, audited, faults>>

ExecuteFails(c) ==
    /\ pc[c] = "resolving"
    /\ Leave(c, "failed")
    /\ UNCHANGED <<ledgerVars, coreVars, profileVars, plans, remoteVars, audited, faults>>

\* The script ends and its exit code comes back.
ScriptEnds(c) ==
    /\ pc[c] = "executing"
    /\ remote' = remote \ {c}
    /\ \/ pc' = [pc EXCEPT ![c] = "executed"] /\ UNCHANGED <<call, running>>
       \/ Leave(c, "failed")
    /\ UNCHANGED <<ledgerVars, coreVars, profileVars, plans, lost, audited, faults>>

\* The ssh client ends under the script: the time limit or the output limit kills
\* it, or the connection drops.  The script on the DGX may end with it or go on.
ConnectionEnds(c) ==
    /\ pc[c] = "executing"
    /\ remote' \in {remote, remote \ {c}}
    /\ lost' = lost \cup {c}
    /\ Leave(c, "failed")
    /\ UNCHANGED <<ledgerVars, coreVars, profileVars, plans, audited, faults>>

\* A script nobody waits for any more comes to its end.
DetachedScriptEnds(c) ==
    /\ c \in remote
    /\ pc[c] # "executing"
    /\ remote' = remote \ {c}
    /\ UNCHANGED <<ledgerVars, coreVars, callVars, profileVars, lost, audited, faults>>

Verify(c) ==
    /\ pc[c] = "verifying"
    /\ \E outcome \in {"succeeded", "failed"} : Leave(c, outcome)
    /\ UNCHANGED <<ledgerVars, coreVars, profileVars, plans, remoteVars, audited, faults>>

\* Slip: the last call is written whatever a restart did to the entry.
CloseAnyway(c) ==
    /\ pc[c] = "closing"
    /\ Recorded(doc, c)
    /\ doc' = Completed(doc, c, call[c].outcome)
    /\ pc' = [pc EXCEPT ![c] = "auditing"]
    /\ UNCHANGED <<coreVars, profileVars, running, plans, call, remoteVars, audited, started,
                   acknowledged, faults>>

\* The last ledger call.  When it throws, the audit below it is not reached.
Close(c) ==
    /\ pc[c] = "closing"
    /\ \/ /\ CanTransition(doc, c)
          /\ doc' = Completed(doc, c, call[c].outcome)
          /\ pc' = [pc EXCEPT ![c] = "auditing"]
          /\ UNCHANGED faults
       \/ /\ \/ ~CanTransition(doc, c) /\ UNCHANGED <<doc, faults>>
             \/ LedgerFault /\ UNCHANGED doc
             \/ /\ LedgerFault /\ CanTransition(doc, c)
                /\ doc' = Completed(doc, c, call[c].outcome)
          /\ pc' = [pc EXCEPT ![c] = "unsettled"]
    /\ UNCHANGED <<coreVars, profileVars, running, plans, call, remoteVars, audited, started,
                   acknowledged>>

Audit(c) ==
    /\ pc[c] = "auditing"
    /\ audited' = audited \cup {c}
    /\ pc' = [pc EXCEPT ![c] = "done"]
    /\ UNCHANGED <<ledgerVars, coreVars, profileVars, running, plans, call, remoteVars, faults>>

-----------------------------------------------------------------------------
(* The active profile, restarts, crashes and the person in front. *)

\* activate: canActivate has read the ledger ...
BeginActivation(target) ==
    /\ up
    /\ switches < MaxSwitches
    /\ activation = None /\ target # active
    /\ ~Blocked(doc)
    /\ activation' = target
    /\ UNCHANGED <<ledgerVars, coreVars, callVars, active, switches, remoteVars, audited, faults>>

\* ... and the new document is saved.
SaveActivation ==
    /\ activation # None
    /\ active' = activation /\ activation' = None
    /\ switches' = switches + 1
    /\ UNCHANGED <<ledgerVars, coreVars, callVars, remoteVars, audited, faults>>

\* A session preference is toggled: the old core gets no more requests, the
\* ledger is recovered and a new core starts.  Nothing stops the old core's calls.
\* A recovery that fails is not a step: the process is then without a core until
\* the next one succeeds, and nothing but the old core's calls goes on.
RestartCore ==
    /\ up
    /\ epoch < MaxCores
    /\ CanRecover(doc)
    /\ doc' = Recovered(doc)
    /\ epoch' = epoch + 1
    /\ UNCHANGED <<up, crashes, callVars, profileVars, remoteVars, audited, started, acknowledged, faults>>

Crash ==
    /\ up
    /\ crashes < MaxCrashes
    /\ crashes' = crashes + 1
    /\ up' = FALSE
    /\ pc' = [c \in Calls |-> IF pc[c] \in Over \cup {"idle"} THEN pc[c] ELSE "gone"]
    /\ activation' = None
    /\ remote' \in SUBSET remote
    /\ UNCHANGED <<ledgerVars, epoch, running, plans, call, active, switches, lost, audited,
                   faults>>

Boot ==
    /\ ~up
    /\ epoch < MaxCores
    /\ CanRecover(doc)
    /\ doc' = Recovered(doc)
    /\ up' = TRUE
    /\ epoch' = epoch + 1
    /\ UNCHANGED <<crashes, callVars, profileVars, remoteVars, audited, started, acknowledged, faults>>

\* resolveRecoveredOperation, on the person's explicit confirmation.
Resolve(c) ==
    /\ up
    /\ CanResolve(doc, c, ServiceKind)
    /\ doc' = ResolvedByHand(doc, c)
    /\ acknowledged' = acknowledged \cup {c}
    /\ UNCHANGED <<coreVars, callVars, profileVars, remoteVars, audited, started, faults>>

-----------------------------------------------------------------------------

\* What the process does by itself once a call has come in.
CallStep(c) ==
    \/ Recheck(c) \/ Bind(c) \/ ConfirmFails(c) \/ Start(c) \/ StartRejected(c)
    \/ Report(c) \/ Execute(c) \/ ExecuteFails(c) \/ ScriptEnds(c) \/ ConnectionEnds(c)
    \/ Verify(c) \/ Close(c) \/ Audit(c)

Next ==
    \/ \E p \in Plans : CreatePlan(p)
    \/ \E c \in Calls :
        \/ \E p \in Plans : Confirm(c, p) \/ ConfirmExpired(c, p)
        \/ CallStep(c)
        \/ DetachedScriptEnds(c)
        \/ Resolve(c)
    \/ \E target \in Targets : BeginActivation(target)
    \/ SaveActivation
    \/ RestartCore \/ Crash \/ Boot

Spec == Init /\ [][Next]_vars

\* Every await of a call is bounded: probes and scripts by their time limits,
\* ledger calls by the lock's hundred attempts.  People and crashes are free.
Fairness == \A c \in Calls : WF_vars(CallStep(c))

FairSpec == Spec /\ Fairness

-----------------------------------------------------------------------------

TypeOK ==
    /\ doc \in Document
    /\ up \in BOOLEAN /\ epoch \in 1 .. MaxCores
    /\ running \in [1 .. MaxCores -> Calls \cup {None}]
    /\ plans \in [Plans -> [core: 1 .. MaxCores, status: PlanStatuses,
                            digest: Calls \cup {None}]]
    /\ pc \in [Calls -> Stages]
    /\ call \in [Calls -> [plan: Plans \cup {None}, core: 1 .. MaxCores,
                           digest: Calls \cup {None}, bound: Targets \cup {None},
                           ran: Targets \cup {None}, outcome: {"succeeded", "failed"}]]
    /\ remote \in SUBSET Calls /\ lost \in SUBSET Calls
    /\ active \in Targets /\ activation \in Targets \cup {None}
    /\ audited \in SUBSET Calls /\ started \in SUBSET Calls
    /\ acknowledged \in SUBSET Calls
    /\ {crashes, switches, faults} \subseteq Nat

\* While a script runs on a DGX whose connection the program did not give up and
\* whose operation no person has resolved, the ledger blocks new work: no ending
\* of a task, restart, crash or lost ledger call opens the ledger under it.
RemoteWorkBlocks == remote \subseteq acknowledged \cup lost \/ Blocked(doc)

\* Two scripts run at once only when a person has declared one of their
\* operations over, or the ssh client of one has ended before its script
\* (operation-ledger.mjs start, transition; local-service-control.mjs runOperation).
ExclusiveExecution ==
    \A c, d \in remote \ (acknowledged \cup lost) : c = d

\* In a running process the lease belongs to a task that still works on it: no
\* stale lease locks the user out, unless a ledger call was lost to a fault.
LeaseHasTask ==
    up /\ doc.lease # NoLease /\ faults = 0 => pc[doc.lease] \in Working

\* The ledger mirrors the work: it is closed while a script runs that is not given
\* up, and in a running process no lease is left without the task that holds it.
LedgerMirrorsWork == RemoteWorkBlocks /\ LeaseHasTask

\* The ledger as its callers use it here is the ledger of OperationLedger: a
\* confirmed operation is issued with its start, its task lives until its last
\* ledger call, and every restart is a recovery.
Ledger == INSTANCE OperationLedger WITH
    live <- {c \in Calls : pc[c] \in Working},
    issued <- started \cup {MigrationId},
    MigrationContext <- CHOOSE target \in Targets : TRUE

LedgerCalls == Ledger!Spec

\* A confirmation that came in is answered and its operation brought to an end,
\* whatever fails on the way (local-service-control.mjs confirmPlan, runOperation).
EveryConfirmationEnds ==
    \A c \in Calls : pc[c] = "checking" ~> pc[c] \in Over

\* As long as no process ends and no ledger call fails, a lease is not held for
\* ever, whatever fails remotely and however many cores follow one another
\* (runOperation's finally block).
LeaseIsReleased == doc.lease # NoLease ~> doc.lease = NoLease \/ crashes > 0 \/ faults > 0

-----------------------------------------------------------------------------
(* What the documents say and the code does not do. *)

\* The action runs on the machine that was verified when it was confirmed
\* (test/local-service-control.test.mjs:78).
ExecutesOnBoundTarget ==
    \A c \in remote : pc[c] = "executing" => call[c].ran = call[c].bound

\* Operations execute mutually exclusively: no two scripts run at once unless a
\* person has declared one of them over (docs/local-service-control-runbook.md:27).
MutuallyExclusive == \A c, d \in remote \ acknowledged : c = d

\* The active profile does not change while an operation runs or waits for
\* manual recovery (connection-profile.mjs:202).
ActiveFrozenWhileBlocked == [][active' # active => ~Blocked(doc)]_vars

\* Every confirmed operation that is over has its audit record (the runbook, line 29).
EveryOperationAudited ==
    \A c \in started : pc[c] \in Over => c \in audited

\* A confirmed plan is unavailable: it starts at most one operation
\* (local-service-control.mjs:142).
PlanStartsOnce ==
    \A c, d \in started : call[c].plan = call[d].plan => c = d
=============================================================================
