---------------------------- MODULE RemoteChanges ---------------------------
(***************************************************************************)
(* Changes on the DGX that bypass the operation ledger: the start          *)
(* parameters of the NVFP4 service (nvfp4-parameter-control.mjs and its    *)
(* adapter's run.sh) and the containers of other people's models           *)
(* (external-runtime-coordinator.mjs).                                     *)
(*                                                                         *)
(* Both work alike.  A plan remembers what was found on the machine of the *)
(* active profile.  Its confirmation looks again, compares, sends a script *)
(* and reads back what the script did.  Each of these steps asks for the   *)
(* active profile anew, so each may meet another machine; the script has   *)
(* steps of its own, and may outlive the ssh client that waits for it.     *)
(* People edit the same files and containers meanwhile.                    *)
(*                                                                         *)
(* A digest stands for the text it was taken from; the start script is     *)
(* abstracted to the value of the adapter's flags and the rest of it.      *)
(***************************************************************************)
EXTENDS Naturals, FiniteSets

CONSTANTS
    Machines,     \* machines of verified profiles
    Rest,         \* what a start script holds beside the flags
    Configs,      \* configurations of a container
    Values,       \* settings of the flags
    Plans,        \* identifiers of plans; that of an apply plan names its backup too
    Calls,        \* confirmations
    None,         \* null
    MaxEdits,     \* bound: changes made by people
    MaxSwitches,  \* bound: switches of the active profile
    MaxLosses     \* bound: ssh clients that end before their script and failing audits,
                  \* and as many container changes that are not confirmed

ASSUME ChangeBounds == {MaxEdits, MaxSwitches, MaxLosses} \subseteq Nat

\* The fixed start script, and a container with its identity: the machine it is
\* on and its configuration.
Scripts == [rest : Rest, value : Values]
Runtimes == [machine : Machines, config : Configs, running : BOOLEAN]
Findings == Scripts \cup Runtimes

ASSUME ChangeNone == None \notin Plans \cup Machines \cup Findings

ScriptKinds == {"apply", "rollback"}
RuntimeKinds == {"suspend", "resume"}

VARIABLES
    script,      \* per machine: the start script
    runtime,     \* per machine: another model's container
    backup,      \* per machine: backups by the plan that made them
    installed,   \* per machine: is the parameter adapter's run.sh there?
    active,      \* machine of the active profile
    plan,        \* per plan: kind, finding, proposed value, backup, status
    pc,          \* per call: where the confirmation stands
    confirming,  \* per call: its plan
    job,         \* per call: its script's stage and machine, finding and result
    operations,  \* calls with an entry in the controller's map of operations
    audited,     \* calls with an audit record
    disturbed,   \* history: something changed after the call had compared
    doubled,     \* history: plans of which two scripts looked before either backup
    lost,        \* history: calls whose ssh client ended early, or audit failed
    unconfirmed, \* history: calls that changed a container and could not confirm it
    edits, switches

machineVars == <<script, runtime, backup, installed>>
planVars == <<plan, confirming>>
recordVars == <<operations, audited>>
historyVars == <<disturbed, doubled, lost, unconfirmed>>
boundVars == <<edits, switches>>
vars == <<machineVars, active, planVars, pc, job, recordVars, historyVars, boundVars>>

Statuses == {"none", "open", "gone"}
\* A confirmation between its comparison and its answer.
Compared == {"sending", "waiting", "verifying"}
Places == {"idle", "preparing", "comparing", "auditing", "done", "failed"} \cup Compared
JobStages == {"none", "sent", "looked", "saved", "written", "refused"}
\* A script on its machine, and one that has looked there.
Looked == {"looked", "saved"}
OnMachine == {"sent"} \cup Looked

NoPlan == [kind |-> "apply", found |-> None, value |-> None, backup |-> None, status |-> "none"]
NoJob == [stage |-> "none", machine |-> None, before |-> None, after |-> None]

Plan(c) == plan[confirming[c]]
OnScript(c) == Plan(c).kind \in ScriptKinds

\* What a plan of this kind is about, on one machine.
Resource(kind, m) == IF kind \in ScriptKinds THEN script[m] ELSE runtime[m]

-----------------------------------------------------------------------------

\* Any start scripts, containers that run; plans and operations live in memory
\* and start empty.
Init ==
    /\ script \in [Machines -> Scripts]
    /\ runtime \in {r \in [Machines -> Runtimes] :
                     \A m \in Machines : r[m].machine = m /\ r[m].running}
    /\ backup = [m \in Machines |-> [p \in Plans |-> None]]
    /\ installed \in [Machines -> BOOLEAN]
    /\ active \in Machines
    /\ plan = [p \in Plans |-> NoPlan]
    /\ pc = [c \in Calls |-> "idle"]
    /\ confirming = [c \in Calls |-> None]
    /\ job = [c \in Calls |-> NoJob]
    /\ operations = {} /\ audited = {}
    /\ disturbed = {} /\ doubled = {} /\ lost = {} /\ unconfirmed = {}
    /\ edits = 0 /\ switches = 0

-----------------------------------------------------------------------------
(* Plans. *)

\* A plan is kept in memory under a new identifier.
Keep(p, fields) ==
    /\ plan[p].status = "none"
    /\ plan' = [plan EXCEPT ![p] = fields]
    /\ UNCHANGED <<machineVars, active, confirming, pc, job, recordVars, historyVars, boundVars>>

\* createApplyPlan: the review refuses a proposal that changes nothing.
PlanApply(p, value) ==
    /\ installed[active]
    /\ value # script[active].value
    /\ Keep(p, [kind |-> "apply", found |-> script[active], value |-> value, backup |-> p,
                status |-> "open"])

\* createRollbackPlan: no look at the machine, only at the recorded operation.
PlanRollback(p, c) ==
    /\ c \in operations
    /\ Keep(p, [kind |-> "rollback", found |-> job[c].after, value |-> None,
                backup |-> Plan(c).backup, status |-> "open"])

\* plan of the coordinator.
PlanRuntime(p, kind) ==
    /\ runtime[active].running = (kind = "suspend")
    /\ Keep(p, [kind |-> kind, found |-> runtime[active], value |-> None, backup |-> None,
                status |-> "open"])

-----------------------------------------------------------------------------
(* Confirmations. *)

Goes(c, from, to) == pc[c] = from /\ pc' = [pc EXCEPT ![c] = to]

\* The plan is looked up; only the parameter plans ask for the adapter first.
Confirm(c, p) ==
    /\ plan[p].status = "open"
    /\ Goes(c, "idle", IF plan[p].kind \in ScriptKinds THEN "preparing" ELSE "comparing")
    /\ confirming' = [confirming EXCEPT ![c] = p]
    /\ UNCHANGED <<machineVars, active, plan, job, recordVars, historyVars, boundVars>>

\* Five minutes are over.  A parameter plan is dropped, a runtime plan stays.
ConfirmExpired(c, p) ==
    /\ plan[p].status = "open"
    /\ Goes(c, "idle", "failed")
    /\ confirming' = [confirming EXCEPT ![c] = p]
    /\ plan' = IF plan[p].kind \in ScriptKinds THEN [plan EXCEPT ![p].status = "gone"] ELSE plan
    /\ UNCHANGED <<machineVars, active, job, recordVars, historyVars, boundVars>>

\* The adapter is there and the service idle.
Prepare(c) ==
    /\ installed[active]
    /\ Goes(c, "preparing", "comparing")
    /\ UNCHANGED <<machineVars, active, planVars, job, recordVars, historyVars, boundVars>>

\* Slip: the second look is not compared with the first.
CompareNothing(c) ==
    /\ Goes(c, "comparing", "sending")
    /\ UNCHANGED <<machineVars, active, planVars, job, recordVars, historyVars, boundVars>>

\* The machine is as the plan found it.
Compare(c) ==
    /\ Goes(c, "comparing", "sending")
    /\ Resource(Plan(c).kind, active) = Plan(c).found
    /\ UNCHANGED <<machineVars, active, planVars, job, recordVars, historyVars, boundVars>>

\* Anything before the script fails: no adapter, a busy service, another finding,
\* no connection.
CheckFails(c) ==
    /\ \E from \in {"preparing", "comparing", "sending"} : Goes(c, from, "failed")
    /\ UNCHANGED <<machineVars, active, planVars, job, recordVars, historyVars, boundVars>>

\* The script goes to the machine that is active by now.
Send(c) ==
    /\ Goes(c, "sending", "waiting")
    /\ job' = [job EXCEPT ![c].stage = "sent", ![c].machine = active]
    /\ UNCHANGED <<machineVars, active, planVars, recordVars, historyVars, boundVars>>

\* The script's answer.
Answer(c) ==
    /\ \/ job[c].stage = "written" /\ Goes(c, "waiting", "verifying")
       \/ job[c].stage = "refused" /\ Goes(c, "waiting", "failed")
    /\ UNCHANGED <<machineVars, active, planVars, job, recordVars, historyVars, boundVars>>

Lose(c) ==
    /\ Cardinality(lost) < MaxLosses
    /\ lost' = lost \cup {c}

\* The ssh client of the script, or of the reading after it, ends first; the
\* script ends with it or goes on.
LoseClient(c, stops) ==
    /\ Lose(c)
    /\ Goes(c, "waiting", "failed") \/ Goes(c, "verifying", "failed")
    /\ job' = [job EXCEPT ![c].stage = IF stops /\ @ # "written" THEN "refused" ELSE @]
    /\ UNCHANGED <<machineVars, active, planVars, recordVars, disturbed, doubled, unconfirmed,
                   boundVars>>

\* A container was stopped or started, and the answer is an error all the same:
\* its state cannot be read after the stop, it does not become healthy in 180
\* tries, or a command of the discovery that reads back takes too long and the
\* container is missing in its list.
LeaveUnconfirmed(c) ==
    /\ job[c].stage = "written" /\ ~OnScript(c)
    /\ Goes(c, "waiting", "failed") \/ Goes(c, "verifying", "failed")
    /\ Cardinality(unconfirmed) < MaxLosses
    /\ unconfirmed' = unconfirmed \cup {c}
    /\ UNCHANGED <<machineVars, active, planVars, job, recordVars, disturbed, doubled, lost,
                   boundVars>>

\* A verified change: an operation of the parameter controller is kept and will
\* be audited; the coordinator only drops its plan.
Record(c) ==
    /\ plan' = [plan EXCEPT ![confirming[c]].status = "gone"]
    /\ IF OnScript(c)
       THEN /\ operations' = operations \cup {c}
            /\ Goes(c, "verifying", "auditing")
       ELSE /\ Goes(c, "verifying", "done")
            /\ UNCHANGED operations

\* Slip: the text read back is compared with the one before the change.
VerifyBefore(c) ==
    /\ pc[c] = "verifying"
    /\ IF Resource(Plan(c).kind, active) = job[c].before
       THEN Record(c)
       ELSE Goes(c, "verifying", "failed") /\ UNCHANGED <<plan, operations>>
    /\ UNCHANGED <<machineVars, active, confirming, job, audited, historyVars, boundVars>>

\* The result is read back, from the machine active by now; the plan of a change
\* that cannot be verified stays.
Verify(c) ==
    /\ pc[c] = "verifying"
    /\ IF Resource(Plan(c).kind, active) = job[c].after
       THEN Record(c)
       ELSE Goes(c, "verifying", "failed") /\ UNCHANGED <<plan, operations>>
    /\ UNCHANGED <<machineVars, active, confirming, job, audited, historyVars, boundVars>>

Audit(c) ==
    /\ Goes(c, "auditing", "done")
    /\ audited' = audited \cup {c}
    /\ UNCHANGED <<machineVars, active, planVars, job, operations, historyVars, boundVars>>

AuditFails(c) ==
    /\ Lose(c)
    /\ Goes(c, "auditing", "failed")
    /\ UNCHANGED <<machineVars, active, planVars, job, recordVars, disturbed, doubled, unconfirmed,
                   boundVars>>

-----------------------------------------------------------------------------
(* Scripts on a machine. *)

\* Calls between their comparison and the end of their script and answer.
UnderWay == {c \in Calls : pc[c] \in Compared \/ job[c].stage \in OnMachine}

\* Those of them that a change on this machine concerns.
Scripting(m) == {c \in UnderWay : job[c].machine \in {None, m} /\ OnScript(c)}
Containing(m) == {c \in UnderWay : job[c].machine \in {None, m} /\ ~OnScript(c)}

\* Slip: an older backup of the plan is written over.
AnyBackup(c) == TRUE

\* No backup of this plan is there yet.
NoBackupYet(c) == backup[job[c].machine][confirming[c]] = None

\* Slip: whatever text is there is changed.
LookApplyBlindly(c) ==
    LET m == job[c].machine IN
    /\ Plan(c).kind = "apply"
    /\ installed[m]
    /\ NoBackupYet(c)

\* apply: the text must be the reviewed one, and have no backup of this plan.
LookApply(c) ==
    LET m == job[c].machine IN
    /\ Plan(c).kind = "apply"
    /\ installed[m]
    /\ script[m] = Plan(c).found
    /\ NoBackupYet(c)

\* rollback: the backup must be there; nothing else is compared.
LookRollback(c) ==
    /\ Plan(c).kind = "rollback"
    /\ installed[job[c].machine]
    /\ backup[job[c].machine][Plan(c).backup] # None

\* suspend, resume: the container must be the one of the plan, in whatever state.
LookRuntime(c) ==
    LET found == Plan(c).found IN
    /\ Plan(c).kind \in RuntimeKinds
    /\ runtime[job[c].machine] \in {[found EXCEPT !.running = b] : b \in BOOLEAN}

Look(c) ==
    /\ job[c].stage = "sent"
    /\ LookApply(c) \/ LookRollback(c) \/ LookRuntime(c)
    /\ job' = [job EXCEPT ![c].stage = "looked",
                          ![c].before = Resource(Plan(c).kind, job[c].machine)]
    /\ doubled' = IF \E d \in Calls \ {c} : /\ job[d].stage = "looked"
                                            /\ job[d].machine = job[c].machine
                                            /\ confirming[d] = confirming[c]
                  THEN doubled \cup {confirming[c]} ELSE doubled
    /\ UNCHANGED <<machineVars, active, planVars, pc, recordVars, disturbed, lost, unconfirmed,
                   boundVars>>

\* apply: what was read is backed up, whether or not another script of the plan
\* has done so since the look.
SaveBackup(c) ==
    /\ job[c].stage = "looked" /\ Plan(c).kind = "apply"
    /\ backup' = [backup EXCEPT ![job[c].machine][confirming[c]] = job[c].before]
    /\ job' = [job EXCEPT ![c].stage = "saved"]
    /\ UNCHANGED <<script, runtime, installed, active, planVars, pc, recordVars, historyVars,
                   boundVars>>

\* Refused by a check, by clients of the container, or by a write or a command
\* that fails and changes nothing.
Refuse(c) ==
    /\ job[c].stage \in OnMachine
    /\ job' = [job EXCEPT ![c].stage = "refused"]
    /\ UNCHANGED <<machineVars, active, planVars, pc, recordVars, historyVars, boundVars>>

\* What the script makes of what it found.
Result(c) ==
    CASE Plan(c).kind = "apply"    -> [job[c].before EXCEPT !.value = Plan(c).value]
      [] Plan(c).kind = "rollback" -> backup[job[c].machine][Plan(c).backup]
      [] Plan(c).kind = "suspend"  -> [job[c].before EXCEPT !.running = FALSE]
      [] Plan(c).kind = "resume"   -> [job[c].before EXCEPT !.running = TRUE]

\* The script is replaced in one rename; the container is stopped or started.
Write(c) ==
    LET m == job[c].machine IN
    /\ job[c].stage \in Looked /\ (Plan(c).kind = "apply" <=> job[c].stage = "saved")
    /\ job' = [job EXCEPT ![c].stage = "written", ![c].after = Result(c)]
    /\ IF OnScript(c)
       THEN /\ script' = [script EXCEPT ![m] = Result(c)] /\ UNCHANGED runtime
            /\ disturbed' = disturbed \cup (Scripting(m) \ {c})
       ELSE /\ runtime' = [runtime EXCEPT ![m] = Result(c)] /\ UNCHANGED script
            /\ disturbed' = disturbed \cup (Containing(m) \ {c})
    /\ UNCHANGED <<backup, installed, active, planVars, pc, recordVars, doubled, lost,
                   unconfirmed, boundVars>>

-----------------------------------------------------------------------------
(* Everyone else. *)

Edited ==
    /\ edits < MaxEdits
    /\ edits' = edits + 1
    /\ UNCHANGED <<backup, active, planVars, pc, job, recordVars, doubled, lost, unconfirmed,
                   switches>>

\* A person edits the start script, or starts, stops or reconfigures a container.
EditScript(m, text) ==
    /\ Edited
    /\ text # script[m]
    /\ script' = [script EXCEPT ![m] = text]
    /\ disturbed' = disturbed \cup Scripting(m)
    /\ UNCHANGED <<runtime, installed>>

EditRuntime(m, container) ==
    /\ Edited
    /\ container.machine = m /\ container # runtime[m]
    /\ runtime' = [runtime EXCEPT ![m] = container]
    /\ disturbed' = disturbed \cup Containing(m)
    /\ UNCHANGED <<script, installed>>

Switch(m) ==
    /\ switches < MaxSwitches
    /\ m # active
    /\ active' = m
    /\ switches' = switches + 1
    /\ disturbed' = disturbed \cup UnderWay
    /\ UNCHANGED <<machineVars, planVars, pc, job, recordVars, doubled, lost, unconfirmed,
                   edits>>

\* A confirmed deployment plan: the adapter is written and verified.  What its
\* status said before does not matter to what is written.
Deploy ==
    /\ ~installed[active]
    /\ installed' = [installed EXCEPT ![active] = TRUE]
    /\ UNCHANGED <<script, runtime, backup, active, planVars, pc, job, recordVars, historyVars, boundVars>>

-----------------------------------------------------------------------------

CallStep(c) ==
    \/ Prepare(c) \/ Compare(c) \/ CheckFails(c) \/ Send(c) \/ Answer(c) \/ Verify(c) \/ Audit(c)
    \/ (\E stops \in BOOLEAN : LoseClient(c, stops)) \/ LeaveUnconfirmed(c)
    \/ AuditFails(c)
    \/ Look(c) \/ SaveBackup(c) \/ Refuse(c) \/ Write(c)

Next ==
    \/ \E p \in Plans :
        \/ \E value \in Values : PlanApply(p, value)
        \/ \E c \in Calls : PlanRollback(p, c)
        \/ \E kind \in RuntimeKinds : PlanRuntime(p, kind)
    \/ \E c \in Calls :
        \/ \E p \in Plans : Confirm(c, p) \/ ConfirmExpired(c, p)
        \/ CallStep(c)
    \/ \E m \in Machines :
        \/ Switch(m)
        \/ \E text \in Scripts : EditScript(m, text)
        \/ \E container \in Runtimes : EditRuntime(m, container)
    \/ Deploy

Spec == Init /\ [][Next]_vars

-----------------------------------------------------------------------------

TypeOK ==
    /\ script \in [Machines -> Scripts] /\ runtime \in [Machines -> Runtimes]
    /\ backup \in [Machines -> [Plans -> Scripts \cup {None}]]
    /\ installed \in [Machines -> BOOLEAN] /\ active \in Machines
    /\ plan \in [Plans -> [kind : ScriptKinds \cup RuntimeKinds, found : Findings \cup {None},
                           value : Values \cup {None}, backup : Plans \cup {None},
                           status : Statuses]]
    /\ pc \in [Calls -> Places] /\ confirming \in [Calls -> Plans \cup {None}]
    /\ job \in [Calls -> [stage : JobStages, machine : Machines \cup {None},
                          before : Findings \cup {None}, after : Findings \cup {None}]]
    /\ operations \in SUBSET Calls /\ audited \in SUBSET operations
    /\ disturbed \in SUBSET Calls /\ doubled \in SUBSET Plans /\ lost \in SUBSET Calls
    /\ unconfirmed \in SUBSET Calls
    /\ {edits, switches} \subseteq Nat

\* A script only replaces what its plan has found, unless somebody changed that,
\* or the profile, after the confirmation had compared.  Of a container, its
\* identity counts (nvfp4-parameter-control.mjs confirmApply and confirmRollback,
\* external-runtime-coordinator.mjs actionScript).
ReplacesItsFinding ==
    [][\A c \in Calls :
        /\ job[c].stage \in Looked /\ job'[c].stage = "written"
        /\ c \notin disturbed
        => Resource(Plan(c).kind, job[c].machine) = Plan(c).found]_vars

\* A change that was made but answered with an error is explained: the profile or
\* the text changed under the confirmation, or its client or its audit failed; of
\* a container also that it did not become healthy, or could not be read back
\* (confirmApply's and confirmRollback's read-back, actionScript and the
\* coordinator's second discovery).  Of a start script nothing else explains it.
ErrorsAreExplained ==
    \A c \in Calls :
        job[c].stage = "written" /\ pc[c] = "failed" =>
            \/ c \in disturbed \cup lost
            \/ ~OnScript(c) /\ c \in unconfirmed

\* A plan's change is written once on a machine however often it is confirmed,
\* unless two of its scripts have both looked there before either made its backup
\* (nvfp4-parameter-adapter.mjs apply refuses a plan that has a backup).
AppliedOnce ==
    \A c, d \in Calls :
        /\ c # d /\ confirming[c] = confirming[d] /\ job[c].machine = job[d].machine
        /\ job[c].stage = "written" /\ job[d].stage = "written"
        /\ Plan(c).kind = "apply"
        => confirming[c] \in doubled

\* What a rollback would restore is the text that was reviewed with the plan it
\* takes back, however scripts overlapped (nvfp4-parameter-adapter.mjs apply).
RestoresReviewed ==
    \A m \in Machines, p \in Plans : backup[m][p] # None => backup[m][p] = plan[p].found

-----------------------------------------------------------------------------
(* What the code says and does not do. *)

\* A rollback never overwrites a start script that changed after its operation:
\* "The startup script changed after this operation; rollback requires a new
\* reviewed plan." (nvfp4-parameter-control.mjs:31)
RollbackKeepsLaterChanges ==
    [][\A c \in Calls :
        job[c].stage = "looked" /\ job'[c].stage = "written" /\ Plan(c).kind = "rollback" =>
            script[job[c].machine] = Plan(c).found]_vars
=============================================================================
