------------------------- MODULE RemoteChangesProofs -------------------------
(***************************************************************************)
(* The properties of RemoteChanges for any number of machines, plans,      *)
(* confirmations, edits, switches and lost clients.                        *)
(*                                                                         *)
(* The argument: a plan is never rewritten (PlansKept), so what a call and *)
(* its script have taken from it stays true (CallOK, JobOK).  An apply     *)
(* script that has looked holds the text its plan has found, and only that *)
(* is ever backed up (BackupOK); once it is backed up no other script of   *)
(* the plan gets past its look (OnceOK).  Whatever changes the machine or  *)
(* the active profile while a call is under way marks the call, so an      *)
(* unmarked one finds its plan's finding until it writes, and its own      *)
(* result after that (UnmarkedOK).                                         *)
(***************************************************************************)
EXTENDS RemoteChanges, TLAPS

PlanRecords ==
    [kind : ScriptKinds \cup RuntimeKinds, found : Findings \cup {None},
     value : Values \cup {None}, backup : Plans \cup {None}, status : Statuses]
Jobs ==
    [stage : JobStages, machine : Machines \cup {None},
     before : Findings \cup {None}, after : Findings \cup {None}]

Of(kind) == IF kind \in ScriptKinds THEN Scripts ELSE Runtimes

\* A plan that was made.
PlanOK(p) ==
    plan[p].status # "none" =>
        /\ plan[p].found \in Of(plan[p].kind)
        /\ plan[p].kind = "apply" => plan[p].value \in Values
        /\ plan[p].kind \in ScriptKinds => plan[p].backup \in Plans

\* A confirmation has a plan, and comes to its script at "waiting".
CallOK(c) ==
    /\ pc[c] = "idle" <=> confirming[c] = None
    /\ confirming[c] # None => Plan(c).status # "none"
    /\ pc[c] \in {"idle", "preparing", "comparing", "sending"} => job[c].stage = "none"
    /\ pc[c] = "waiting" => job[c].stage # "none"
    /\ pc[c] \in {"verifying", "auditing", "done"} => job[c].stage = "written"
    /\ pc[c] = "auditing" => c \in operations
    /\ c \in operations => OnScript(c) /\ job[c].stage = "written"

HasLooked == Looked \cup {"written"}

\* What a script has taken from its plan and its machine.
JobOK(c) ==
    /\ job[c].stage # "none" => job[c].machine \in Machines
    /\ job[c].stage = "none" => job[c].machine = None
    /\ job[c].stage \in HasLooked => job[c].before \in Of(Plan(c).kind)
    /\ job[c].stage = "written" => job[c].after \in Of(Plan(c).kind)
    /\ job[c].stage = "saved" => Plan(c).kind = "apply"
    /\ job[c].stage \in HasLooked /\ Plan(c).kind = "apply" => job[c].before = Plan(c).found
    /\ job[c].stage \in {"saved", "written"} /\ Plan(c).kind = "apply" =>
         backup[job[c].machine][confirming[c]] # None
    /\ job[c].stage = "looked" /\ Plan(c).kind = "rollback" =>
         backup[job[c].machine][Plan(c).backup] # None

BackupOK ==
    \A m \in Machines, p \in Plans :
        backup[m][p] # None => plan[p].status # "none" /\ backup[m][p] = plan[p].found

\* Two scripts of one plan that have looked on one machine.
OnceOK ==
    \A c, d \in Calls :
        /\ c # d /\ confirming[c] = confirming[d] /\ job[c].machine = job[d].machine
        /\ job[c].stage \in HasLooked /\ job[d].stage \in HasLooked
        /\ Plan(c).kind = "apply"
        => confirming[c] \in doubled

\* What a call under way can rely on while nothing has disturbed it.
UnmarkedOK(c) ==
    c \in UnderWay \ disturbed =>
        /\ job[c].stage # "none" => job[c].machine = active
        /\ job[c].stage \in {"none"} \cup OnMachine => Resource(Plan(c).kind, active) = Plan(c).found
        /\ job[c].stage = "written" => Resource(Plan(c).kind, active) = job[c].after

\* A script that goes on without its client.
LateOK(c) == pc[c] = "failed" /\ job[c].stage \in OnMachine => c \in lost

Inv ==
    /\ TypeOK
    /\ \A p \in Plans : PlanOK(p)
    /\ \A c \in Calls : CallOK(c) /\ JobOK(c)
    /\ BackupOK

Strong ==
    /\ Inv
    /\ OnceOK
    /\ \A c \in Calls : UnmarkedOK(c) /\ LateOK(c)
    /\ ErrorsAreExplained
-----------------------------------------------------------------------------

\* The steps of Next, one by one.
LEMMA NextCases ==
    ASSUME [Next]_vars
    PROVE  \/ \E p \in Plans, value \in Values : PlanApply(p, value)
           \/ \E p \in Plans, c \in Calls : PlanRollback(p, c)
           \/ \E p \in Plans, kind \in RuntimeKinds : PlanRuntime(p, kind)
           \/ \E c \in Calls, p \in Plans : Confirm(c, p) \/ ConfirmExpired(c, p)
           \/ \E c \in Calls : CallStep(c)
           \/ \E m \in Machines : Switch(m)
           \/ \E m \in Machines, text \in Scripts : EditScript(m, text)
           \/ \E m \in Machines, container \in Runtimes : EditRuntime(m, container)
           \/ Deploy
           \/ UNCHANGED vars
  BY DEF Next

LEMMA ResultTyped ==
    ASSUME Inv, NEW c \in Calls, Write(c)
    PROVE  /\ Result(c) \in Of(Plan(c).kind)
           /\ confirming[c] \in Plans /\ Plan(c).status # "none"
           /\ Plan(c).kind \in ScriptKinds \cup RuntimeKinds
           /\ job[c].machine \in Machines
<1>1. /\ job[c].stage \in Looked /\ CallOK(c) /\ JobOK(c)
      /\ Plan(c).kind = "apply" <=> job[c].stage = "saved"
  BY DEF Inv, Write
<1>2. /\ confirming[c] \in Plans /\ Plan(c).status # "none"
      /\ job[c].machine \in Machines /\ job[c].before \in Of(Plan(c).kind)
  BY <1>1 DEF CallOK, JobOK, Looked, HasLooked, Inv, TypeOK, Places
<1>3. PlanOK(confirming[c]) /\ Plan(c).kind \in ScriptKinds \cup RuntimeKinds
  BY <1>2 DEF Inv, TypeOK, Plan
<1>4. CASE Plan(c).kind = "apply"
  <2>1. job[c].before \in Scripts /\ Plan(c).value \in Values
    BY <1>2, <1>3, <1>4 DEF Of, ScriptKinds, PlanOK, Plan
  <2> QED
    BY <1>2, <1>4, <2>1 DEF Result, Of, Scripts, ScriptKinds, RuntimeKinds
<1>5. CASE Plan(c).kind = "rollback"
  <2>1. job[c].stage = "looked"
    BY <1>1, <1>5 DEF Looked
  <2>2. Plan(c).backup \in Plans /\ backup[job[c].machine][Plan(c).backup] # None
    BY <1>1, <1>2, <1>3, <1>5, <2>1 DEF JobOK, PlanOK, Plan, ScriptKinds
  <2>3. backup[job[c].machine][Plan(c).backup] \in Scripts
    BY <1>2, <2>2 DEF Inv, TypeOK
  <2> QED
    BY <1>2, <1>3, <1>5, <2>3 DEF Result, Of, ScriptKinds, RuntimeKinds
<1>6. CASE Plan(c).kind \in RuntimeKinds
  <2>1. job[c].before \in Runtimes
    BY <1>2, <1>6 DEF Of, ScriptKinds, RuntimeKinds
  <2> QED
    BY <1>2, <1>6, <2>1 DEF Result, Of, ScriptKinds, RuntimeKinds, Runtimes
<1> QED
  BY <1>2, <1>3, <1>4, <1>5, <1>6 DEF ScriptKinds

\* A plan that was made stays as it is; only its status changes.
KeptPlan(p) ==
    /\ plan'[p].kind = plan[p].kind /\ plan'[p].found = plan[p].found
    /\ plan'[p].value = plan[p].value /\ plan'[p].backup = plan[p].backup
    /\ plan'[p].status # "none"

LEMMA PlanTyped ==
    ASSUME TypeOK
    PROVE  plan \in [Plans -> PlanRecords] /\ job \in [Calls -> Jobs]
  BY DEF TypeOK, PlanRecords, Jobs

LEMMA PlanKeptAs ==
    ASSUME TypeOK, NEW p \in Plans, NEW fields \in PlanRecords, Keep(p, fields)
    PROVE  /\ plan' \in [Plans -> PlanRecords]
           /\ plan'[p] = fields
           /\ \A o \in Plans : o # p => plan'[o] = plan[o]
           /\ plan[p].status = "none"
  BY PlanTyped DEF Keep

LEMMA PlanGone ==
    ASSUME TypeOK, NEW p \in Plans, plan[p].status # "none",
           plan' = [plan EXCEPT ![p].status = "gone"]
    PROVE  /\ plan' \in [Plans -> PlanRecords]
           /\ KeptPlan(p)
           /\ \A o \in Plans : o # p => plan'[o] = plan[o]
<1> DEFINE gone == [plan[p] EXCEPT !.status = "gone"]
<1>1. /\ gone \in PlanRecords /\ gone.status = "gone" /\ gone.kind = plan[p].kind
      /\ gone.found = plan[p].found /\ gone.value = plan[p].value
      /\ gone.backup = plan[p].backup
  BY PlanTyped DEF PlanRecords, Statuses
<1>2. plan' = [plan EXCEPT ![p] = gone]
  BY PlanTyped
<1> HIDE DEF gone
<1> QED
  BY <1>1, <1>2, PlanTyped DEF KeptPlan

\* The three plans that are made.
LEMMA NewPlans ==
    ASSUME Inv, NEW p \in Plans
    PROVE  /\ \A value \in Values : PlanApply(p, value) =>
                \E fields \in PlanRecords :
                   /\ Keep(p, fields) /\ fields.kind = "apply" /\ fields.found \in Scripts
                   /\ fields.value \in Values /\ fields.backup \in Plans /\ fields.status = "open"
           /\ \A c \in Calls : PlanRollback(p, c) =>
                \E fields \in PlanRecords :
                   /\ Keep(p, fields) /\ fields.kind = "rollback" /\ fields.found \in Scripts
                   /\ fields.backup \in Plans /\ fields.status = "open"
           /\ \A kind \in RuntimeKinds : PlanRuntime(p, kind) =>
                \E fields \in PlanRecords :
                   /\ Keep(p, fields) /\ fields.kind \in RuntimeKinds /\ fields.found \in Runtimes
                   /\ fields.status = "open"
<1>1. ASSUME NEW value \in Values, PlanApply(p, value)
      PROVE  \E fields \in PlanRecords :
               /\ Keep(p, fields) /\ fields.kind = "apply" /\ fields.found \in Scripts
               /\ fields.value \in Values /\ fields.backup \in Plans /\ fields.status = "open"
  <2>1. script[active] \in Scripts
    BY DEF Inv, TypeOK
  <2> QED
    BY <1>1, <2>1 DEF PlanApply, PlanRecords, Findings, ScriptKinds, Statuses
<1>2. ASSUME NEW c \in Calls, PlanRollback(p, c)
      PROVE  \E fields \in PlanRecords :
               /\ Keep(p, fields) /\ fields.kind = "rollback" /\ fields.found \in Scripts
               /\ fields.backup \in Plans /\ fields.status = "open"
  <2>1. CallOK(c) /\ JobOK(c) /\ c \in operations
    BY <1>2 DEF Inv, PlanRollback
  <2>2. job[c].stage = "written" /\ OnScript(c) /\ pc[c] # "idle" /\ Plan(c).status # "none"
        /\ confirming[c] \in Plans
    BY <2>1 DEF CallOK, Inv, TypeOK
  <2>3. job[c].after \in Scripts
    BY <2>1, <2>2 DEF JobOK, Of, OnScript
  <2>4. Plan(c).backup \in Plans
    BY <2>2 DEF Inv, PlanOK, OnScript, Plan
  <2> QED
    BY <1>2, <2>3, <2>4 DEF PlanRollback, PlanRecords, Findings, ScriptKinds, Statuses
<1>3. ASSUME NEW kind \in RuntimeKinds, PlanRuntime(p, kind)
      PROVE  \E fields \in PlanRecords :
               /\ Keep(p, fields) /\ fields.kind \in RuntimeKinds /\ fields.found \in Runtimes
               /\ fields.status = "open"
  <2>1. runtime[active] \in Runtimes
    BY DEF Inv, TypeOK
  <2> QED
    BY <1>3, <2>1 DEF PlanRuntime, PlanRecords, Findings, Statuses
<1> QED
  BY <1>1, <1>2, <1>3

\* Every other step leaves the plans alone, or ends one.
LEMMA PlanChanges ==
    ASSUME Inv, [Next]_vars
    PROVE  \/ \E p \in Plans, value \in Values : PlanApply(p, value)
           \/ \E p \in Plans, c \in Calls : PlanRollback(p, c)
           \/ \E p \in Plans, kind \in RuntimeKinds : PlanRuntime(p, kind)
           \/ \E p \in Plans : plan[p].status # "none" /\ plan' = [plan EXCEPT ![p].status = "gone"]
           \/ plan' = plan
<1>1. ASSUME NEW c \in Calls, NEW p \in Plans, Confirm(c, p) \/ ConfirmExpired(c, p)
      PROVE  plan' = plan \/ (plan[p].status # "none" /\ plan' = [plan EXCEPT ![p].status = "gone"])
  BY <1>1 DEF Confirm, ConfirmExpired
<1>2. ASSUME NEW c \in Calls, CallStep(c), ~Verify(c)
      PROVE  plan' = plan
  BY <1>2 DEF CallStep, planVars, Prepare, Compare, CheckFails, Send, Answer, Audit,
     AuditFails, LeaveUnconfirmed, LoseClient, Look, SaveBackup, Refuse, Write
<1>3. ASSUME NEW c \in Calls, Verify(c)
      PROVE  \/ plan' = plan
             \/ \E p \in Plans : plan[p].status # "none" /\ plan' = [plan EXCEPT ![p].status = "gone"]
  <2>1. confirming[c] \in Plans /\ plan[confirming[c]].status # "none"
    BY <1>3 DEF Verify, Inv, CallOK, TypeOK, Plan
  <2> QED
    BY <1>3, <2>1 DEF Verify, Record
<1>4. ASSUME \/ \E m \in Machines : Switch(m)
             \/ \E m \in Machines, text \in Scripts : EditScript(m, text)
             \/ \E m \in Machines, container \in Runtimes : EditRuntime(m, container)
             \/ Deploy \/ UNCHANGED vars
      PROVE  plan' = plan
  BY <1>4 DEF Switch, EditScript, EditRuntime, Edited, Deploy, planVars, vars
<1> QED
  BY <1>1, <1>2, <1>3, <1>4, NextCases

LEMMA PlansKept ==
    ASSUME Inv, [Next]_vars
    PROVE  /\ plan' \in [Plans -> PlanRecords]
           /\ \A p \in Plans : plan[p].status # "none" => KeptPlan(p)
           /\ \A p \in Plans : PlanOK(p)'
<1> USE DEF Inv
<1>1. ASSUME NEW p \in Plans, NEW fields \in PlanRecords, Keep(p, fields), fields.status = "open",
             fields.found \in Of(fields.kind),
             fields.kind = "apply" => fields.value \in Values,
             fields.kind \in ScriptKinds => fields.backup \in Plans
      PROVE  /\ plan' \in [Plans -> PlanRecords]
             /\ \A o \in Plans : plan[o].status # "none" => KeptPlan(o)
             /\ \A o \in Plans : PlanOK(o)'
  BY <1>1, PlanKeptAs DEF KeptPlan, PlanOK
<1>2. CASE \E p \in Plans, value \in Values : PlanApply(p, value)
  BY <1>1, <1>2, NewPlans DEF Of, ScriptKinds
<1>3. CASE \E p \in Plans, c \in Calls : PlanRollback(p, c)
  BY <1>1, <1>3, NewPlans DEF Of, ScriptKinds
<1>4. CASE \E p \in Plans, kind \in RuntimeKinds : PlanRuntime(p, kind)
  BY <1>1, <1>4, NewPlans DEF Of, ScriptKinds, RuntimeKinds
<1>5. CASE \E p \in Plans : plan[p].status # "none" /\ plan' = [plan EXCEPT ![p].status = "gone"]
  BY <1>5, PlanGone DEF KeptPlan, PlanOK
<1>6. CASE plan' = plan
  BY <1>6, PlanTyped DEF KeptPlan, PlanOK
<1> QED
  BY <1>2, <1>3, <1>4, <1>5, <1>6, PlanChanges

-----------------------------------------------------------------------------

\* A call that moves by itself: its places.
LEMMA PcMoves ==
    ASSUME TypeOK, NEW c \in Calls, NEW from, NEW to \in Places, Goes(c, from, to)
    PROVE  /\ pc' \in [Calls -> Places] /\ pc[c] = from /\ pc'[c] = to
           /\ \A d \in Calls : d # c => pc'[d] = pc[d]
  BY DEF Goes, TypeOK

\* The record of c's script becomes this one, and no other changes.
Moved(c, stage, machine, before, after) ==
    /\ job' \in [Calls -> Jobs]
    /\ job'[c].stage = stage /\ job'[c].machine = machine
    /\ job'[c].before = before /\ job'[c].after = after
    /\ \A d \in Calls : d # c => job'[d] = job[d]

LEMMA JobMoves ==
    ASSUME TypeOK, NEW c \in Calls, NEW record \in Jobs, job' = [job EXCEPT ![c] = record]
    PROVE  Moved(c, record.stage, record.machine, record.before, record.after)
  BY PlanTyped DEF Moved

\* What the steps of a script make of its record.
LEMMA ScriptSteps ==
    ASSUME Inv, NEW c \in Calls
    PROVE  /\ Send(c) => Moved(c, "sent", active, job[c].before, job[c].after)
           /\ \A stops \in BOOLEAN : LoseClient(c, stops) =>
                \E stage \in {job[c].stage, "refused"} :
                    /\ Moved(c, stage, job[c].machine, job[c].before, job[c].after)
                    /\ (job[c].stage = "written") <=> (stage = "written")
           /\ Look(c) => Moved(c, "looked", job[c].machine,
                               Resource(Plan(c).kind, job[c].machine), job[c].after)
           /\ SaveBackup(c) => Moved(c, "saved", job[c].machine, job[c].before, job[c].after)
           /\ Refuse(c) => Moved(c, "refused", job[c].machine, job[c].before, job[c].after)
           /\ Write(c) => Moved(c, "written", job[c].machine, job[c].before, Result(c))
<1>1. /\ job \in [Calls -> Jobs] /\ job[c] \in Jobs /\ TypeOK
      /\ job[c].stage \in JobStages
  BY PlanTyped DEF Inv, Jobs
<1>2. ASSUME NEW stage \in JobStages, job' = [job EXCEPT ![c].stage = stage]
      PROVE  Moved(c, stage, job[c].machine, job[c].before, job[c].after)
  <2> DEFINE record == [job[c] EXCEPT !.stage = stage]
  <2>1. /\ record \in Jobs /\ record.stage = stage /\ record.machine = job[c].machine
        /\ record.before = job[c].before /\ record.after = job[c].after
    BY <1>1 DEF Jobs
  <2>2. job' = [job EXCEPT ![c] = record]
    BY <1>1, <1>2
  <2> HIDE DEF record
  <2> QED
    BY <1>1, <2>1, <2>2, JobMoves
<1>3. ASSUME Send(c)
      PROVE  Moved(c, "sent", active, job[c].before, job[c].after)
  <2> DEFINE record == [job[c] EXCEPT !.stage = "sent", !.machine = active]
  <2>1. /\ record \in Jobs /\ record.stage = "sent" /\ record.machine = active
        /\ record.before = job[c].before /\ record.after = job[c].after
    BY <1>1 DEF Jobs, JobStages, TypeOK
  <2>2. job' = [job EXCEPT ![c] = record]
    BY <1>1, <1>3 DEF Send
  <2> HIDE DEF record
  <2> QED
    BY <1>1, <2>1, <2>2, JobMoves
<1>4. ASSUME NEW stops \in BOOLEAN, LoseClient(c, stops)
      PROVE  \E stage \in {job[c].stage, "refused"} :
                /\ Moved(c, stage, job[c].machine, job[c].before, job[c].after)
                /\ (job[c].stage = "written") <=> (stage = "written")
  <2> DEFINE stage == IF stops /\ job[c].stage # "written" THEN "refused" ELSE job[c].stage
  <2>1. stage \in JobStages /\ stage \in {job[c].stage, "refused"}
        /\ ((job[c].stage = "written") <=> (stage = "written"))
    BY <1>1 DEF JobStages
  <2>2. job' = [job EXCEPT ![c].stage = stage]
    BY <1>1, <1>4 DEF LoseClient
  <2> HIDE DEF stage
  <2> QED
    BY <1>2, <2>1, <2>2
<1>5. ASSUME Look(c)
      PROVE  Moved(c, "looked", job[c].machine, Resource(Plan(c).kind, job[c].machine), job[c].after)
  <2> DEFINE found == Resource(Plan(c).kind, job[c].machine)
             record == [job[c] EXCEPT !.stage = "looked", !.before = found]
  <2>1. job[c].machine \in Machines
    BY <1>5 DEF Look, Inv, JobOK
  <2>2. found \in Findings
    BY <1>1, <2>1 DEF Resource, TypeOK, Findings
  <2>3. /\ record \in Jobs /\ record.stage = "looked" /\ record.machine = job[c].machine
        /\ record.before = found /\ record.after = job[c].after
    BY <1>1, <2>2 DEF Jobs, JobStages
  <2>4. job' = [job EXCEPT ![c] = record]
    BY <1>1, <1>5 DEF Look
  <2> HIDE DEF record, found
  <2>5. Moved(c, "looked", job[c].machine, found, job[c].after)
    BY <1>1, <2>3, <2>4, JobMoves
  <2> QED
    BY <2>5 DEF found
<1>6. ASSUME Write(c)
      PROVE  Moved(c, "written", job[c].machine, job[c].before, Result(c))
  <2> DEFINE record == [job[c] EXCEPT !.stage = "written", !.after = Result(c)]
  <2>1. Result(c) \in Findings
    BY <1>6, ResultTyped DEF Of, Findings
  <2>2. /\ record \in Jobs /\ record.stage = "written" /\ record.machine = job[c].machine
        /\ record.before = job[c].before /\ record.after = Result(c)
    BY <1>1, <2>1 DEF Jobs, JobStages
  <2>3. job' = [job EXCEPT ![c] = record]
    BY <1>1, <1>6 DEF Write
  <2> HIDE DEF record
  <2> QED
    BY <1>1, <2>2, <2>3, JobMoves
<1>7. SaveBackup(c) => Moved(c, "saved", job[c].machine, job[c].before, job[c].after)
  BY <1>2 DEF SaveBackup, JobStages
<1>8. Refuse(c) => Moved(c, "refused", job[c].machine, job[c].before, job[c].after)
  BY <1>2 DEF Refuse, JobStages
<1> QED
  BY <1>3, <1>4, <1>5, <1>6, <1>7, <1>8

\* No other step touches a script's record.
LEMMA JobsElse ==
    ASSUME [Next]_vars
    PROVE  \/ job' = job
           \/ \E c \in Calls : \/ Send(c) \/ Look(c) \/ SaveBackup(c) \/ Refuse(c) \/ Write(c)
                              \/ \E stops \in BOOLEAN : LoseClient(c, stops)
<1>1. ASSUME NEW c \in Calls, CallStep(c)
      PROVE  \/ job' = job
             \/ Send(c) \/ Look(c) \/ SaveBackup(c) \/ Refuse(c) \/ Write(c)
             \/ \E stops \in BOOLEAN : LoseClient(c, stops)
  BY <1>1 DEF CallStep, Prepare, Compare, CheckFails, Answer, Verify, Audit, AuditFails, LeaveUnconfirmed
<1> QED
  BY <1>1, NextCases DEF PlanApply, PlanRollback, PlanRuntime, Keep, Confirm, ConfirmExpired,
     Switch, EditScript, EditRuntime, Edited, Deploy, vars

LEMMA JobsTyped ==
    ASSUME Inv, [Next]_vars
    PROVE  job' \in [Calls -> Jobs]
  BY JobsElse, ScriptSteps, PlanTyped DEF Moved, Inv

\* A backup is made of what a plan has found, and none is ever lost.
LEMMA BackupStep ==
    ASSUME Inv, [Next]_vars
    PROVE  /\ backup' \in [Machines -> [Plans -> Scripts \cup {None}]]
           /\ \A m \in Machines, p \in Plans : backup[m][p] # None => backup'[m][p] # None
           /\ BackupOK'
<1>1. TypeOK /\ BackupOK
  BY DEF Inv
<1>2. ASSUME NEW c \in Calls, SaveBackup(c)
      PROVE  /\ backup' \in [Machines -> [Plans -> Scripts \cup {None}]]
             /\ \A m \in Machines, p \in Plans : backup[m][p] # None => backup'[m][p] # None
             /\ BackupOK'
  <2> DEFINE p == confirming[c]  m == job[c].machine
  <2>1. CallOK(c) /\ JobOK(c) /\ job[c].stage = "looked" /\ Plan(c).kind = "apply"
    BY <1>2 DEF Inv, SaveBackup
  <2>2. p \in Plans /\ m \in Machines /\ plan[p].status # "none"
    BY <1>1, <2>1 DEF CallOK, JobOK, TypeOK, Plan
  <2>3. job[c].before = plan[p].found /\ job[c].before \in Scripts /\ job[c].before # None
    BY <2>1, ChangeNone DEF JobOK, Of, HasLooked, Looked, Plan, ScriptKinds, Findings
  <2>4. plan' = plan /\ backup' = [backup EXCEPT ![m][p] = job[c].before]
    BY <1>2 DEF SaveBackup, planVars
  <2> HIDE DEF p, m
  <2> QED
    BY <1>1, <2>2, <2>3, <2>4 DEF TypeOK, BackupOK
<1>3. CASE backup' = backup
  BY <1>1, <1>3, PlansKept DEF TypeOK, BackupOK, KeptPlan
<1>4. ASSUME NEW c \in Calls, CallStep(c), ~SaveBackup(c)
      PROVE  backup' = backup
  BY <1>4 DEF CallStep, machineVars, Prepare, Compare, CheckFails, Send, Answer, Verify, Audit,
     AuditFails, LeaveUnconfirmed, LoseClient, Look, Refuse, Write
<1>5. backup' = backup \/ \E c \in Calls : SaveBackup(c)
  BY <1>4, NextCases DEF PlanApply, PlanRollback, PlanRuntime, Keep, Confirm, ConfirmExpired,
     Switch, EditScript, EditRuntime, Edited, Deploy, vars, machineVars
<1> QED
  BY <1>2, <1>3, <1>5

-----------------------------------------------------------------------------

\* Types.
LEMMA TypeStep ==
    ASSUME Inv, [Next]_vars
    PROVE  TypeOK'
<1> USE DEF machineVars, planVars, recordVars, historyVars, boundVars
<1> DEFINE Rest1 ==
      /\ script \in [Machines -> Scripts] /\ runtime \in [Machines -> Runtimes]
      /\ installed \in [Machines -> BOOLEAN] /\ active \in Machines
      /\ pc \in [Calls -> Places] /\ confirming \in [Calls -> Plans \cup {None}]
    Rest2 ==
      /\ operations \in SUBSET Calls /\ audited \in SUBSET operations
      /\ disturbed \in SUBSET Calls /\ doubled \in SUBSET Plans /\ lost \in SUBSET Calls
      /\ unconfirmed \in SUBSET Calls
      /\ {edits, switches} \subseteq Nat
<1>1. Rest1 /\ Rest2
  BY DEF Inv, TypeOK
<1>2. ASSUME NEW c \in Calls, NEW from, NEW to \in Places, Goes(c, from, to)
      PROVE  pc' \in [Calls -> Places]
  BY <1>1, <1>2 DEF Goes
<1>3. ASSUME NEW p \in Plans, NEW value \in Values, PlanApply(p, value)
      PROVE  Rest1' /\ Rest2'
  BY <1>1, <1>2, <1>3 DEF PlanApply, Keep, Places, Compared, UnderWay, Scripting, Containing
<1>4. ASSUME NEW p \in Plans, NEW c \in Calls, PlanRollback(p, c)
      PROVE  Rest1' /\ Rest2'
  BY <1>1, <1>2, <1>4 DEF PlanRollback, Keep, Places, Compared, UnderWay, Scripting, Containing
<1>5. ASSUME NEW p \in Plans, NEW kind \in RuntimeKinds, PlanRuntime(p, kind)
      PROVE  Rest1' /\ Rest2'
  BY <1>1, <1>2, <1>5 DEF PlanRuntime, Keep, Places, Compared, UnderWay, Scripting, Containing
<1>6. ASSUME NEW c \in Calls, NEW p \in Plans, Confirm(c, p)
      PROVE  Rest1' /\ Rest2'
  BY <1>1, <1>2, <1>6 DEF Confirm, Goes, Places, Compared, UnderWay, Scripting, Containing
<1>7. ASSUME NEW c \in Calls, NEW p \in Plans, ConfirmExpired(c, p)
      PROVE  Rest1' /\ Rest2'
  BY <1>1, <1>2, <1>7 DEF ConfirmExpired, Goes, Places, Compared, UnderWay, Scripting, Containing
<1>8. ASSUME NEW c \in Calls, Prepare(c) \/ Compare(c) \/ CheckFails(c)
      PROVE  Rest1' /\ Rest2'
  BY <1>1, <1>2, <1>8 DEF Prepare, Compare, CheckFails, Goes, Places, Compared, UnderWay, Scripting, Containing
<1>9. ASSUME NEW c \in Calls, Send(c)
      PROVE  Rest1' /\ Rest2'
  BY <1>1, <1>2, <1>9 DEF Send, Goes, Places, Compared, UnderWay, Scripting, Containing
<1>10. ASSUME NEW c \in Calls, Answer(c)
      PROVE  Rest1' /\ Rest2'
  BY <1>1, <1>2, <1>10 DEF Answer, Goes, Places, Compared, UnderWay, Scripting, Containing
<1>11. ASSUME NEW c \in Calls, Verify(c)
      PROVE  Rest1' /\ Rest2'
  BY <1>1, <1>2, <1>11 DEF Verify, Record, Goes, Places, Compared, UnderWay, Scripting, Containing
<1>12. ASSUME NEW c \in Calls, Audit(c) \/ AuditFails(c)
      PROVE  Rest1' /\ Rest2'
  <2>1. pc[c] = "auditing" => c \in operations
    BY DEF Inv, CallOK
  <2> QED
    BY <1>1, <1>2, <1>12, <2>1 DEF Audit, AuditFails, LeaveUnconfirmed, Lose, Goes, Places
<1>13. ASSUME NEW c \in Calls, NEW stops \in BOOLEAN, LoseClient(c, stops)
      PROVE  Rest1' /\ Rest2'
  BY <1>1, <1>2, <1>13 DEF LoseClient, Lose, Goes, Places, Compared, UnderWay, Scripting, Containing
<1>25. ASSUME NEW c \in Calls, LeaveUnconfirmed(c)
      PROVE  Rest1' /\ Rest2'
  BY <1>1, <1>2, <1>25 DEF LeaveUnconfirmed, Goes, Places
<1>14. ASSUME NEW c \in Calls, Look(c)
      PROVE  Rest1' /\ Rest2'
  <2>1. confirming[c] \in Plans
    BY <1>14 DEF Look, Inv, CallOK, TypeOK
  <2> QED
    BY <1>1, <1>2, <1>14, <2>1 DEF Look
<1>15. ASSUME NEW c \in Calls, SaveBackup(c)
      PROVE  Rest1' /\ Rest2'
  BY <1>1, <1>2, <1>15 DEF SaveBackup, Places, Compared, UnderWay, Scripting, Containing
<1>16. ASSUME NEW c \in Calls, Refuse(c)
      PROVE  Rest1' /\ Rest2'
  BY <1>1, <1>2, <1>16 DEF Refuse, Places, Compared, UnderWay, Scripting, Containing
<1>17. ASSUME NEW c \in Calls, Write(c)
      PROVE  Rest1' /\ Rest2'
  <2>1. /\ Result(c) \in Of(Plan(c).kind) /\ Plan(c).kind \in ScriptKinds \cup RuntimeKinds
        /\ job[c].machine \in Machines
    BY <1>17, ResultTyped
  <2>2. OnScript(c) => Result(c) \in Scripts
    BY <2>1 DEF OnScript, Of
  <2>3. ~OnScript(c) => Result(c) \in Runtimes
    BY <2>1 DEF OnScript, Of
  <2>4. script' \in [Machines -> Scripts] /\ runtime' \in [Machines -> Runtimes]
    BY <1>1, <1>17, <2>1, <2>2, <2>3 DEF Write
  <2>5. disturbed' \in SUBSET Calls
    BY <1>1, <1>17 DEF Write, Scripting, Containing, UnderWay
  <2> QED
    BY <1>1, <1>17, <2>4, <2>5 DEF Write
<1>18. ASSUME NEW m \in Machines, Switch(m)
      PROVE  Rest1' /\ Rest2'
  BY <1>1, <1>2, <1>18 DEF Switch, Places, Compared, UnderWay, Scripting, Containing
<1>19. ASSUME NEW m \in Machines, NEW text \in Scripts, EditScript(m, text)
      PROVE  Rest1' /\ Rest2'
  BY <1>1, <1>2, <1>19 DEF EditScript, Edited, Places, Compared, UnderWay, Scripting, Containing
<1>20. ASSUME NEW m \in Machines, NEW container \in Runtimes, EditRuntime(m, container)
      PROVE  Rest1' /\ Rest2'
  BY <1>1, <1>2, <1>20 DEF EditRuntime, Edited, Places, Compared, UnderWay, Scripting, Containing
<1>21. ASSUME Deploy
      PROVE  Rest1' /\ Rest2'
  BY <1>1, <1>2, <1>21 DEF Deploy, Places, Compared, UnderWay, Scripting, Containing
<1>22. ASSUME UNCHANGED vars
      PROVE  Rest1' /\ Rest2'
  BY <1>1, <1>22 DEF vars
<1>23. Rest1' /\ Rest2'
  BY <1>3, <1>4, <1>5, <1>6, <1>7, <1>8, <1>9, <1>10, <1>11, <1>12, <1>13, <1>14, <1>15, <1>16, <1>17, <1>18, <1>19, <1>20, <1>21, <1>22, <1>25, NextCases DEF CallStep
<1>24. /\ plan' \in [Plans -> PlanRecords] /\ job' \in [Calls -> Jobs]
       /\ backup' \in [Machines -> [Plans -> Scripts \cup {None}]]
  BY PlansKept, JobsTyped, BackupStep
<1> QED
  BY <1>23, <1>24 DEF TypeOK, PlanRecords, Jobs

-----------------------------------------------------------------------------

\* A call that did not move can rely on what it relied on.
LEMMA CallKept ==
    ASSUME Inv, [Next]_vars, NEW d \in Calls,
           pc'[d] = pc[d], confirming'[d] = confirming[d], job'[d] = job[d],
           d \in operations' <=> d \in operations
    PROVE  CallOK(d)' /\ JobOK(d)'
<1>1. CallOK(d) /\ JobOK(d) /\ TypeOK
  BY DEF Inv
<1>2. confirming[d] # None => confirming[d] \in Plans /\ KeptPlan(confirming[d])
  BY <1>1, PlansKept DEF CallOK, TypeOK, Plan
<1>3. confirming[d] = None => job[d].stage = "none"
  BY <1>1 DEF CallOK
<1>4. CallOK(d)'
  BY <1>1, <1>2, <1>3 DEF CallOK, Plan, OnScript, KeptPlan
<1>5. ASSUME job[d].stage = "none" PROVE JobOK(d)'
  BY <1>1, <1>5 DEF JobOK, HasLooked, Looked
<1>6. ASSUME job[d].stage # "none" PROVE JobOK(d)'
  <2>1. /\ confirming[d] \in Plans /\ KeptPlan(confirming[d]) /\ job[d].machine \in Machines
        /\ PlanOK(confirming[d]) /\ Plan(d).status # "none"
    BY <1>1, <1>2, <1>3, <1>6 DEF JobOK, Inv, CallOK
  <2>2. Plan(d)'.kind = Plan(d).kind /\ Plan(d)'.found = Plan(d).found /\ Plan(d)'.backup = Plan(d).backup
    BY <2>1 DEF Plan, KeptPlan
  <2>3. backup[job[d].machine][confirming[d]] # None =>
          backup'[job[d].machine][confirming[d]] # None
    BY <2>1, BackupStep
  <2>4. Plan(d).kind = "rollback" =>
          (backup[job[d].machine][Plan(d).backup] # None =>
             backup'[job[d].machine][Plan(d).backup] # None)
    BY <2>1, BackupStep DEF PlanOK, Plan, ScriptKinds
  <2> QED
    BY <1>1, <2>2, <2>3, <2>4 DEF JobOK
<1> QED
  BY <1>4, <1>5, <1>6

Others(c) ==
    \A d \in Calls : d # c =>
        /\ pc'[d] = pc[d] /\ confirming'[d] = confirming[d] /\ job'[d] = job[d]
        /\ d \in operations' <=> d \in operations

\* The place of a call, beside its script.
LEMMA CallStepOK ==
    ASSUME Inv, [Next]_vars, NEW c \in Calls,
           CallStep(c) \/ \E p \in Plans : Confirm(c, p) \/ ConfirmExpired(c, p)
    PROVE  Others(c) /\ CallOK(c)' /\ JobOK(c)'
<1> USE DEF planVars, recordVars, machineVars
<1>1. /\ TypeOK /\ CallOK(c) /\ JobOK(c)
      /\ confirming[c] \in Plans \cup {None}
      /\ confirming \in [Calls -> Plans \cup {None}]
  BY DEF Inv, TypeOK
<1>2. confirming[c] # None => KeptPlan(confirming[c])
  BY <1>1, PlansKept DEF CallOK, TypeOK, Plan
<1>3. \A p \in Plans, stage \in Places, to \in Places :
        Goes(c, stage, to) => /\ pc[c] = stage /\ pc'[c] = to
                              /\ \A d \in Calls : d # c => pc'[d] = pc[d]
  BY <1>1, PcMoves
<1>4. ASSUME NEW p \in Plans, Confirm(c, p) \/ ConfirmExpired(c, p)
      PROVE  Others(c) /\ CallOK(c)' /\ JobOK(c)'
  <2>1. pc[c] = "idle" /\ confirming[c] = None /\ job[c].stage = "none" /\ plan[p].status # "none"
    BY <1>1, <1>4 DEF Confirm, ConfirmExpired, Goes, CallOK
  <2>2. KeptPlan(p)
    BY <2>1, PlansKept
  <2>3. /\ confirming'[c] = p /\ \A d \in Calls : d # c => confirming'[d] = confirming[d]
        /\ job' = job /\ operations' = operations
    BY <1>1, <1>4 DEF Confirm, ConfirmExpired
  <2>4. /\ pc'[c] \in {"preparing", "comparing", "failed"}
        /\ \A d \in Calls : d # c => pc'[d] = pc[d]
    BY <1>4, <1>1 DEF Confirm, ConfirmExpired, Goes, TypeOK
  <2>5. p # None
    BY ChangeNone
  <2>6. CallOK(c)'
    BY <1>1, <2>1, <2>2, <2>3, <2>4, <2>5 DEF CallOK, Plan, KeptPlan, OnScript
  <2>7. JobOK(c)'
    BY <1>1, <2>1, <2>3 DEF JobOK, HasLooked, Looked
  <2> QED
    BY <2>3, <2>4, <2>6, <2>7 DEF Others
<1>5. ASSUME Prepare(c) \/ Compare(c) \/ CheckFails(c) \/ Answer(c) \/ Verify(c)
             \/ Audit(c) \/ AuditFails(c) \/ LeaveUnconfirmed(c)
      PROVE  Others(c) /\ CallOK(c)' /\ JobOK(c)'
  <2>1. confirming' = confirming /\ job' = job /\ backup' = backup
    BY <1>5 DEF Prepare, Compare, CheckFails, Answer, Verify, Audit, AuditFails, LeaveUnconfirmed
  <2>2. \A d \in Calls : d # c => pc'[d] = pc[d]
    BY <1>5, <1>1 DEF Prepare, Compare, CheckFails, Answer, Verify, Record, Audit,
     AuditFails, LeaveUnconfirmed, Goes, TypeOK
  <2>3. /\ operations' = operations \/ operations' = operations \cup {c}
        /\ c \in operations' \ operations => Verify(c) /\ OnScript(c) /\ pc[c] = "verifying"
    BY <1>5 DEF Prepare, Compare, CheckFails, Answer, Verify, Record, Audit, AuditFails, LeaveUnconfirmed
  <2>4. Others(c)
    BY <2>1, <2>2, <2>3 DEF Others
  <2>5. /\ pc[c] # "idle" /\ pc'[c] # "idle" /\ confirming[c] # None
        /\ Plan(c)'.kind = Plan(c).kind /\ Plan(c)'.status # "none" /\ Plan(c)'.found = Plan(c).found
        /\ Plan(c)'.backup = Plan(c).backup
    <3>1. pc[c] # "idle" /\ pc'[c] # "idle"
      BY <1>5, <1>1 DEF Prepare, Compare, CheckFails, Answer, Verify, Record, Audit,
     AuditFails, LeaveUnconfirmed, Goes, TypeOK
    <3> QED
      BY <3>1, <2>1, <1>1, <1>2 DEF CallOK, Plan, KeptPlan
  <2>6. JobOK(c)'
    BY <1>1, <2>1, <2>5 DEF JobOK
  <2>7. /\ pc'[c] \in {"preparing", "comparing", "sending"} => job[c].stage = "none"
        /\ pc'[c] # "waiting"
        /\ pc'[c] \in {"verifying", "auditing", "done"} => job[c].stage = "written"
        /\ pc'[c] = "auditing" => c \in operations'
    BY <1>1, <1>5 DEF Prepare, Compare, CheckFails, Answer, Verify, Record, Audit, AuditFails, LeaveUnconfirmed,
       Goes, TypeOK, CallOK
  <2>8. c \in operations' => OnScript(c) /\ job[c].stage = "written"
    BY <1>1, <2>3 DEF CallOK
  <2>9. CallOK(c)'
    BY <2>1, <2>5, <2>7, <2>8 DEF CallOK, OnScript
  <2> QED
    BY <2>4, <2>6, <2>9
<1>6. ASSUME Send(c) \/ \E stops \in BOOLEAN : LoseClient(c, stops)
      PROVE  Others(c) /\ CallOK(c)' /\ JobOK(c)'
  <2>1. confirming' = confirming /\ backup' = backup /\ operations' = operations /\ plan' = plan
    BY <1>6 DEF Send, LoseClient
  <2>2. \A d \in Calls : d # c => pc'[d] = pc[d] /\ job'[d] = job[d]
    BY <1>6, <1>1, ScriptSteps DEF Send, LoseClient, Goes, TypeOK, Moved
  <2>3. Others(c)
    BY <2>1, <2>2 DEF Others
  <2>4. CASE Send(c)
    <3>1. /\ job'[c].stage = "sent" /\ job'[c].machine \in Machines
          /\ pc[c] = "sending" /\ pc'[c] = "waiting"
      BY <1>1, <2>4, ScriptSteps DEF Moved, TypeOK, Send, Goes
    <3>2. c \notin operations
      BY <1>1, <3>1 DEF CallOK
    <3> QED
      BY <1>1, <2>1, <2>3, <3>1, <3>2 DEF CallOK, JobOK, HasLooked, Looked, Plan
  <2>5. ASSUME NEW stops \in BOOLEAN, LoseClient(c, stops)
        PROVE  CallOK(c)' /\ JobOK(c)'
    <3>1. pc[c] \in {"waiting", "verifying"} /\ pc'[c] = "failed"
      BY <1>1, <2>5 DEF LoseClient, Goes, TypeOK
    <3>2. /\ job'[c].machine = job[c].machine /\ job'[c].before = job[c].before
          /\ job'[c].after = job[c].after
          /\ job'[c].stage = job[c].stage \/ job'[c].stage = "refused"
          /\ (job[c].stage = "written") <=> (job'[c].stage = "written")
      BY <2>5, ScriptSteps DEF Moved
    <3>3. job[c].stage # "none"
      BY <1>1, <3>1 DEF CallOK
    <3>4. CallOK(c)'
      BY <1>1, <2>1, <3>1, <3>2 DEF CallOK, Plan, OnScript
    <3>5. JobOK(c)'
      BY <1>1, <2>1, <3>2, <3>3 DEF JobOK, Plan, HasLooked, Looked
    <3> QED
      BY <3>4, <3>5
  <2> QED
    BY <1>6, <2>3, <2>4, <2>5
<1>7. ASSUME Look(c) \/ SaveBackup(c) \/ Refuse(c) \/ Write(c)
      PROVE  Others(c) /\ CallOK(c)' /\ JobOK(c)'
  <2>1. confirming' = confirming /\ operations' = operations /\ plan' = plan /\ pc' = pc
    BY <1>7 DEF Look, SaveBackup, Refuse, Write
  <2>2. /\ \A d \in Calls : d # c => job'[d] = job[d]
        /\ job'[c].machine = job[c].machine
        /\ job'[c].stage \in HasLooked \cup {"refused"}
    BY <1>7, ScriptSteps DEF Moved, HasLooked, Looked
  <2>3. Others(c)
    BY <2>1, <2>2 DEF Others
  <2>4. job[c].stage \in OnMachine
    BY <1>7 DEF Look, SaveBackup, Refuse, Write, OnMachine, Looked
  <2>5. CallOK(c)'
    BY <1>1, <2>1, <2>2, <2>4 DEF CallOK, Plan, OnScript, OnMachine, Looked, HasLooked
  <2>6. confirming[c] \in Plans /\ job[c].machine \in Machines /\ PlanOK(confirming[c])
        /\ Plan(c).status # "none"
    BY <1>1, <2>4 DEF CallOK, JobOK, OnMachine, Looked, Inv
  <2>7. CASE Look(c)
    <3>1. job'[c].stage = "looked" /\ job'[c].before = Resource(Plan(c).kind, job[c].machine)
      BY <2>7, ScriptSteps DEF Moved
    <3>2. job'[c].before \in Of(Plan(c).kind)
      BY <1>1, <2>6, <3>1 DEF Resource, Of, TypeOK
    <3>3. Plan(c).kind = "apply" => job'[c].before = Plan(c).found
      BY <2>7, <3>1 DEF Look, LookApply, LookRollback, LookRuntime, Resource, ScriptKinds, RuntimeKinds
    <3>4. backup' = backup /\ (Plan(c).kind = "rollback" => backup[job[c].machine][Plan(c).backup] # None)
      BY <2>7 DEF Look, LookApply, LookRollback, LookRuntime, RuntimeKinds
    <3> QED
      BY <2>1, <2>2, <2>3, <2>5, <2>6, <3>1, <3>2, <3>3, <3>4 DEF JobOK, Plan
  <2>8. CASE SaveBackup(c)
    <3>1. job'[c].stage = "saved" /\ job'[c].before = job[c].before /\ Plan(c).kind = "apply"
          /\ job[c].stage = "looked"
      BY <2>8, ScriptSteps DEF Moved, SaveBackup
    <3>2. job[c].before \in Scripts /\ job[c].before = Plan(c).found
      BY <1>1, <3>1 DEF JobOK, Of, HasLooked, Looked, ScriptKinds
    <3>3. backup'[job[c].machine][confirming[c]] = job[c].before
      BY <1>1, <2>6, <2>8 DEF SaveBackup, TypeOK
    <3>4. job[c].before # None
      BY <3>2, ChangeNone DEF Findings
    <3> QED
      BY <2>1, <2>2, <2>3, <2>5, <2>6, <3>1, <3>2, <3>3, <3>4 DEF JobOK, Plan, Of, ScriptKinds
  <2>9. CASE Refuse(c)
    <3>1. job'[c].stage = "refused"
      BY <2>9, ScriptSteps DEF Moved
    <3> QED
      BY <2>2, <2>3, <2>5, <2>6, <3>1 DEF JobOK, HasLooked, Looked
  <2>10. CASE Write(c)
    <3>1. job'[c].stage = "written" /\ job'[c].before = job[c].before /\ job'[c].after = Result(c)
      BY <2>10, ScriptSteps DEF Moved
    <3>2. job[c].stage \in Looked /\ (Plan(c).kind = "apply" <=> job[c].stage = "saved") /\ backup' = backup
      BY <2>10 DEF Write
    <3>3. Result(c) \in Of(Plan(c).kind)
      BY <2>10, ResultTyped
    <3> QED
      BY <1>1, <2>1, <2>2, <2>3, <2>5, <2>6, <3>1, <3>2, <3>3 DEF JobOK, Plan, HasLooked
  <2> QED
    BY <1>7, <2>7, <2>8, <2>9, <2>10
<1> QED
  BY <1>4, <1>5, <1>6, <1>7 DEF CallStep

LEMMA CallsStep ==
    ASSUME Inv, [Next]_vars
    PROVE  \A d \in Calls : CallOK(d)' /\ JobOK(d)'
<1>1. ASSUME NEW c \in Calls, Others(c), CallOK(c)' /\ JobOK(c)'
      PROVE  \A d \in Calls : CallOK(d)' /\ JobOK(d)'
  BY <1>1, CallKept DEF Others
<1>2. ASSUME UNCHANGED <<pc, confirming, job, operations>>
      PROVE  \A d \in Calls : CallOK(d)' /\ JobOK(d)'
  BY <1>2, CallKept
<1>3. CASE \E c \in Calls : CallStep(c) \/ \E p \in Plans : Confirm(c, p) \/ ConfirmExpired(c, p)
  BY <1>1, <1>3, CallStepOK
<1>4. CASE ~ \E c \in Calls : CallStep(c) \/ \E p \in Plans : Confirm(c, p) \/ ConfirmExpired(c, p)
  <2>1. UNCHANGED <<pc, confirming, job, operations>>
    BY <1>4, NextCases DEF PlanApply, PlanRollback, PlanRuntime, Keep, Switch, EditScript,
       EditRuntime, Edited, Deploy, vars, planVars, recordVars
  <2> QED
    BY <1>2, <2>1
<1> QED
  BY <1>3, <1>4

LEMMA InvStep == ASSUME Inv, [Next]_vars PROVE Inv'
  BY TypeStep, PlansKept, CallsStep, BackupStep DEF Inv

-----------------------------------------------------------------------------

\* How a script comes to its stage.
LEMMA JobFate ==
    ASSUME Inv, [Next]_vars, NEW c \in Calls
    PROVE  /\ job[c].stage # "none" =>
                /\ confirming'[c] = confirming[c] /\ confirming[c] \in Plans
                /\ job'[c].machine = job[c].machine /\ job'[c].stage # "none"
           /\ job'[c].stage \in HasLooked => job[c].stage \in HasLooked \/ Look(c)
           /\ job[c].stage = "none" => job'[c].stage = "none" \/ Send(c)
<1>1. CallOK(c) /\ JobOK(c) /\ confirming \in [Calls -> Plans \cup {None}]
  BY DEF Inv, TypeOK
<1>2. job[c].stage # "none" => confirming[c] \in Plans
  BY <1>1 DEF CallOK
<1>3. job[c].stage # "none" => confirming'[c] = confirming[c]
  <2>1. ASSUME NEW d \in Calls, NEW p \in Plans, Confirm(d, p) \/ ConfirmExpired(d, p),
               job[c].stage # "none"
        PROVE  confirming'[c] = confirming[c]
    BY <1>1, <2>1 DEF Confirm, ConfirmExpired, Goes, CallOK
  <2>2. ASSUME NEW d \in Calls, CallStep(d)
        PROVE  confirming' = confirming
    BY <2>2 DEF CallStep, planVars, Prepare, Compare, CheckFails, Send, Answer, Verify, Audit,
       AuditFails, LeaveUnconfirmed, LoseClient, Look, SaveBackup, Refuse, Write
  <2> QED
    BY <2>1, <2>2, NextCases DEF PlanApply, PlanRollback, PlanRuntime, Keep, Switch, EditScript,
       EditRuntime, Edited, Deploy, vars, planVars
<1>4. /\ job[c].stage # "none" => job'[c].machine = job[c].machine /\ job'[c].stage # "none"
      /\ job'[c].stage \in HasLooked => job[c].stage \in HasLooked \/ Look(c)
      /\ job[c].stage = "none" => job'[c].stage = "none" \/ Send(c)
  <2>1. CASE job' = job
    BY <2>1
  <2>2. ASSUME NEW d \in Calls, d # c,
               \/ Send(d) \/ Look(d) \/ SaveBackup(d) \/ Refuse(d) \/ Write(d)
               \/ \E stops \in BOOLEAN : LoseClient(d, stops)
        PROVE  job'[c] = job[c]
    BY <2>2, ScriptSteps DEF Moved
  <2>3. CASE Send(c)
    <3>1. job[c].stage = "none" /\ job'[c].stage = "sent"
      BY <1>1, <2>3, ScriptSteps DEF Send, Goes, CallOK, Moved
    <3> QED
      BY <2>3, <3>1 DEF HasLooked, Looked
  <2>4. CASE Look(c) \/ SaveBackup(c) \/ Refuse(c) \/ Write(c)
    <3>1. /\ job[c].stage # "none" /\ job'[c].machine = job[c].machine /\ job'[c].stage # "none"
          /\ ~Look(c) /\ job'[c].stage \in HasLooked => job[c].stage \in HasLooked
      BY <2>4, ScriptSteps DEF Moved, Look, SaveBackup, Refuse, Write, OnMachine, Looked, HasLooked
    <3> QED
      BY <3>1
  <2>5. ASSUME NEW stops \in BOOLEAN, LoseClient(c, stops)
        PROVE  /\ job[c].stage # "none" /\ job'[c].machine = job[c].machine
               /\ job'[c].stage # "none"
               /\ job'[c].stage \in HasLooked => job[c].stage \in HasLooked
    <3>1. job[c].stage # "none"
      BY <1>1, <2>5 DEF LoseClient, Goes, CallOK
    <3> QED
      BY <2>5, <3>1, ScriptSteps DEF Moved, HasLooked, Looked
  <2> QED
    BY <2>1, <2>2, <2>3, <2>4, <2>5, JobsElse
<1> QED
  BY <1>2, <1>3, <1>4

\* The marks only grow.
LEMMA MarksGrow ==
    ASSUME [Next]_vars
    PROVE  disturbed \subseteq disturbed' /\ doubled \subseteq doubled' /\ lost \subseteq lost'
           /\ unconfirmed \subseteq unconfirmed'
<1>1. ASSUME NEW c \in Calls, CallStep(c)
      PROVE  /\ disturbed \subseteq disturbed' /\ doubled \subseteq doubled' /\ lost \subseteq lost'
             /\ unconfirmed \subseteq unconfirmed'
  BY <1>1 DEF CallStep, historyVars, Prepare, Compare, CheckFails, Send, Answer, Verify, Audit,
     AuditFails, LeaveUnconfirmed, LoseClient, Lose, Look, SaveBackup, Refuse, Write
<1> QED
  BY <1>1, NextCases DEF PlanApply, PlanRollback, PlanRuntime, Keep, Confirm, ConfirmExpired,
     Switch, EditScript, EditRuntime, Edited, Deploy, vars, historyVars

\* The backup of a plan keeps its other scripts from passing their look, and two
\* that look before it are known.
LEMMA OnceStep ==
    ASSUME Inv, OnceOK, [Next]_vars
    PROVE  OnceOK'
<1> SUFFICES ASSUME NEW c \in Calls, NEW d \in Calls, c # d,
                    confirming'[c] = confirming'[d], job'[c].machine = job'[d].machine,
                    job'[c].stage \in HasLooked, job'[d].stage \in HasLooked,
                    Plan(c)'.kind = "apply"
             PROVE  confirming'[c] \in doubled'
  BY DEF OnceOK
<1>1. /\ JobOK(c) /\ JobOK(d) /\ CallOK(c) /\ CallOK(d) /\ TypeOK
      /\ job[c].stage \in HasLooked \/ Look(c)
      /\ job[d].stage \in HasLooked \/ Look(d)
  BY JobFate DEF Inv
<1>2. job[c].stage # "none" /\ job[d].stage # "none"
  BY <1>1 DEF HasLooked, Looked, Look
<1>3. /\ confirming'[c] = confirming[c] /\ confirming'[d] = confirming[d]
      /\ confirming[c] = confirming[d] /\ confirming[c] \in Plans
      /\ job[c].machine = job[d].machine /\ job[c].machine \in Machines
  BY <1>1, <1>2, JobFate DEF JobOK
<1>4. Plan(c) = Plan(d) /\ Plan(c).kind = "apply"
  BY <1>1, <1>2, <1>3, PlansKept DEF Plan, KeptPlan, CallOK
<1>5. ASSUME NEW e \in {c, d}, NEW f \in {c, d}, e # f, Look(e), job[f].stage \in HasLooked
      PROVE  confirming[e] \in doubled'
  <2>1. NoBackupYet(e)
    BY <1>4, <1>5 DEF Look, LookApply, LookRollback, LookRuntime, RuntimeKinds
  <2>2. job[f].stage = "looked"
    BY <1>1, <1>3, <1>4, <1>5, <2>1 DEF JobOK, NoBackupYet, HasLooked, Looked
  <2> QED
    BY <1>3, <1>5, <2>2 DEF Look
<1>6. CASE job[c].stage \in HasLooked /\ job[d].stage \in HasLooked
  BY <1>3, <1>4, <1>6, MarksGrow DEF OnceOK
<1>7. ~(Look(c) /\ Look(d))
  <2>1. Look(c) => job'[d] = job[d] /\ job[c].stage = "sent"
    BY ScriptSteps DEF Moved, Look
  <2>2. Look(d) => job'[d].stage = "looked" /\ job[d].stage = "sent"
    BY ScriptSteps DEF Moved, Look
  <2> QED
    BY <2>1, <2>2
<1> QED
  BY <1>1, <1>3, <1>5, <1>6, <1>7

-----------------------------------------------------------------------------

\* While c is under way and unmarked, nothing but its own Write changes what its
\* plan is about.
LEMMA ResourceKept ==
    ASSUME Inv, [Next]_vars, NEW c \in Calls, c \in UnderWay, c \notin disturbed',
           UnmarkedOK(c), ~Write(c)
    PROVE  active' = active /\ Resource(Plan(c).kind, active)' = Resource(Plan(c).kind, active)
<1> USE DEF machineVars
<1>1. /\ CallOK(c) /\ JobOK(c) /\ TypeOK /\ c \notin disturbed
  BY MarksGrow DEF Inv
<1>2. job[c].machine \in {None, active}
  BY <1>1 DEF JobOK, UnmarkedOK
<1>3. /\ confirming[c] # None /\ confirming[c] \in Plans
      /\ confirming'[c] = confirming[c] /\ Plan(c)'.kind = Plan(c).kind
  <2>1. pc[c] # "idle"
    BY <1>1 DEF CallOK, UnderWay, Compared, OnMachine, Looked
  <2>2. confirming[c] # None /\ confirming[c] \in Plans /\ KeptPlan(confirming[c])
    BY <1>1, <2>1, PlansKept DEF CallOK, TypeOK, Plan
  <2>3. confirming'[c] = confirming[c]
    <3>1. ASSUME NEW d \in Calls, NEW p \in Plans, Confirm(d, p) \/ ConfirmExpired(d, p)
          PROVE  confirming'[c] = confirming[c]
      BY <1>1, <2>1, <3>1 DEF Confirm, ConfirmExpired, Goes, TypeOK
    <3>2. ASSUME NEW d \in Calls, CallStep(d)
          PROVE  confirming' = confirming
      BY <3>2 DEF CallStep, planVars, Prepare, Compare, CheckFails, Send, Answer, Verify, Audit,
         AuditFails, LeaveUnconfirmed, LoseClient, Look, SaveBackup, Refuse, Write
    <3> QED
      BY <3>1, <3>2, NextCases DEF PlanApply, PlanRollback, PlanRuntime, Keep, Switch, EditScript,
         EditRuntime, Edited, Deploy, vars, planVars
  <2> QED
    BY <2>2, <2>3 DEF Plan, KeptPlan
<1>4. /\ OnScript(c) => c \in Scripting(active)
      /\ ~OnScript(c) => c \in Containing(active)
  BY <1>2 DEF Scripting, Containing
<1>5. ~ \E m \in Machines : Switch(m)
  BY DEF Switch
<1>6. /\ active' = active
      /\ OnScript(c) => script'[active] = script[active]
      /\ ~OnScript(c) => runtime'[active] = runtime[active]
  <2>1. ASSUME NEW d \in Calls, Write(d)
        PROVE  /\ active' = active
               /\ OnScript(c) => script'[active] = script[active]
               /\ ~OnScript(c) => runtime'[active] = runtime[active]
    <3>1. d # c /\ job[d].machine \in Machines
      BY <2>1, ResultTyped
    <3>2. CASE job[d].machine = active
      BY <1>1, <1>4, <2>1, <3>1, <3>2 DEF Write
    <3>3. CASE job[d].machine # active
      BY <1>1, <2>1, <3>1, <3>3 DEF Write, TypeOK
    <3> QED
      BY <3>2, <3>3
  <2>2. ASSUME NEW d \in Calls, CallStep(d), ~Write(d)
        PROVE  active' = active /\ script' = script /\ runtime' = runtime
    BY <2>2 DEF CallStep, Prepare, Compare, CheckFails, Send, Answer, Verify, Audit,
       AuditFails, LeaveUnconfirmed, LoseClient, Look, SaveBackup, Refuse
  <2>3. ASSUME NEW m \in Machines, NEW text \in Scripts, EditScript(m, text)
        PROVE  /\ active' = active /\ runtime' = runtime
               /\ OnScript(c) => script'[active] = script[active]
    <3>1. OnScript(c) => m # active
      BY <1>4, <2>3 DEF EditScript
    <3> QED
      BY <1>1, <2>3, <3>1 DEF EditScript, Edited, TypeOK
  <2>4. ASSUME NEW m \in Machines, NEW container \in Runtimes, EditRuntime(m, container)
        PROVE  /\ active' = active /\ script' = script
               /\ ~OnScript(c) => runtime'[active] = runtime[active]
    <3>1. ~OnScript(c) => m # active
      BY <1>4, <2>4 DEF EditRuntime
    <3> QED
      BY <1>1, <2>4, <3>1 DEF EditRuntime, Edited, TypeOK
  <2> QED
    BY <1>5, <2>1, <2>2, <2>3, <2>4, NextCases DEF PlanApply, PlanRollback, PlanRuntime, Keep,
       Confirm, ConfirmExpired, Deploy, vars
<1> QED
  BY <1>3, <1>6 DEF Resource, OnScript

\* A call begins to rely on its machine when it has compared.
LEMMA BecomesUnderWay ==
    ASSUME Inv, [Next]_vars, NEW c \in Calls, c \notin UnderWay, (c \in UnderWay)'
    PROVE  Compare(c)
<1>1. CallOK(c) /\ TypeOK
  BY DEF Inv
<1>2. CASE job'[c].stage \in OnMachine
  <2>1. job[c].stage \notin OnMachine /\ pc[c] # "sending"
    BY DEF UnderWay, Compared
  <2>2. ~Send(c)
    BY <2>1 DEF Send, Goes
  <2>3. job'[c].stage # job[c].stage
    BY <1>2, <2>1
  <2>4. ASSUME NEW d \in Calls, d # c,
               \/ Send(d) \/ Look(d) \/ SaveBackup(d) \/ Refuse(d) \/ Write(d)
               \/ \E stops \in BOOLEAN : LoseClient(d, stops)
        PROVE  job'[c] = job[c]
    BY <2>4, ScriptSteps DEF Moved
  <2>5. ~Look(c) /\ ~SaveBackup(c) /\ ~Refuse(c) /\ ~Write(c)
    BY <2>1 DEF Look, SaveBackup, Refuse, Write, OnMachine, Looked
  <2>6. ~ \E stops \in BOOLEAN : LoseClient(c, stops)
    BY DEF LoseClient, Goes, UnderWay, Compared
  <2> QED
    BY <2>2, <2>3, <2>4, <2>5, <2>6, JobsElse
<1>3. CASE pc'[c] \in Compared
  <2>1. pc[c] \notin Compared
    BY DEF UnderWay
  <2>2. ASSUME NEW d \in Calls, CallStep(d) \/ \E p \in Plans : Confirm(d, p) \/ ConfirmExpired(d, p)
        PROVE  d = c
    BY <1>3, <2>1, <2>2, CallStepOK DEF Others
  <2>3. ASSUME NEW d \in Calls, NEW p \in Plans, Confirm(d, p) \/ ConfirmExpired(d, p)
        PROVE  FALSE
    <3>1. d = c
      BY <2>2, <2>3
    <3> QED
      BY <1>1, <1>3, <2>3, <3>1 DEF Confirm, ConfirmExpired, Goes, Compared, TypeOK
  <2>4. ASSUME CallStep(c), ~Compare(c)
        PROVE  FALSE
    BY <1>1, <1>3, <2>1, <2>4 DEF CallStep, Prepare, CheckFails, Send, Answer, Verify, Record,
       Audit, AuditFails, LeaveUnconfirmed, LoseClient, Look, SaveBackup, Refuse, Write, Goes, Compared, TypeOK
  <2> QED
    BY <1>3, <2>1, <2>2, <2>3, <2>4, NextCases DEF PlanApply, PlanRollback, PlanRuntime, Keep,
       Switch, EditScript, EditRuntime, Edited, Deploy, vars
<1> QED
  BY <1>2, <1>3 DEF UnderWay

LEMMA UnmarkedStep ==
    ASSUME Inv, [Next]_vars, NEW c \in Calls, UnmarkedOK(c)
    PROVE  UnmarkedOK(c)'
<1> SUFFICES ASSUME (c \in UnderWay)', c \notin disturbed'
             PROVE  /\ job'[c].stage # "none" => job'[c].machine = active'
                    /\ job'[c].stage \in {"none"} \cup OnMachine =>
                         Resource(Plan(c).kind, active)' = Plan(c)'.found
                    /\ job'[c].stage = "written" => Resource(Plan(c).kind, active)' = job'[c].after
  BY DEF UnmarkedOK
<1>1. CallOK(c) /\ JobOK(c) /\ TypeOK /\ c \notin disturbed
  BY MarksGrow DEF Inv
<1>2. CASE c \notin UnderWay
  <2>1. Compare(c)
    BY <1>2, BecomesUnderWay
  <2>2. job[c].stage = "none"
    BY <1>1, <2>1 DEF Compare, Goes, CallOK
  <2> QED
    BY <2>1, <2>2 DEF Compare, Resource, Plan, machineVars, planVars
<1>3. CASE c \in UnderWay
  <2>1. /\ confirming[c] \in Plans /\ KeptPlan(confirming[c])
    <3>1. pc[c] # "idle"
      BY <1>1, <1>3 DEF CallOK, UnderWay, Compared, OnMachine, Looked
    <3> QED
      BY <1>1, <3>1, PlansKept DEF CallOK, TypeOK, Plan
  <2>2. confirming'[c] = confirming[c]
    <3>1. pc[c] # "idle"
      BY <1>1, <1>3 DEF CallOK, UnderWay, Compared, OnMachine, Looked
    <3>2. ASSUME NEW d \in Calls, NEW p \in Plans, Confirm(d, p) \/ ConfirmExpired(d, p)
          PROVE  confirming'[c] = confirming[c]
      BY <1>1, <3>1, <3>2 DEF Confirm, ConfirmExpired, Goes, TypeOK
    <3>3. ASSUME NEW d \in Calls, CallStep(d)
          PROVE  confirming' = confirming
      BY <3>3 DEF CallStep, planVars, Prepare, Compare, CheckFails, Send, Answer, Verify, Audit,
         AuditFails, LeaveUnconfirmed, LoseClient, Look, SaveBackup, Refuse, Write
    <3> QED
      BY <3>2, <3>3, NextCases DEF PlanApply, PlanRollback, PlanRuntime, Keep, Switch, EditScript,
         EditRuntime, Edited, Deploy, vars, planVars
  <2>3. Plan(c)'.kind = Plan(c).kind /\ Plan(c)'.found = Plan(c).found
    BY <2>1, <2>2 DEF Plan, KeptPlan
  <2>4. CASE Write(c)
    <3>1. /\ job[c].machine = active /\ active' = active /\ active \in Machines
          /\ job'[c].stage = "written" /\ job'[c].machine = job[c].machine
          /\ job'[c].after = Result(c)
      BY <1>1, <1>3, <2>4, ScriptSteps DEF Moved, UnmarkedOK, Write, TypeOK, Looked
    <3>2. Resource(Plan(c).kind, active)' = Result(c)
      BY <1>1, <2>3, <2>4, <3>1 DEF Write, OnScript, Resource, TypeOK
    <3> QED
      BY <3>1, <3>2 DEF OnMachine, Looked
  <2>5. CASE ~Write(c)
    <3>1. active' = active /\ Resource(Plan(c).kind, active)' = Resource(Plan(c).kind, active)
      BY <1>3, <2>5, ResourceKept
    <3>2. /\ job'[c].stage # "none" => job'[c].machine = active
          /\ job'[c].stage \in {"none"} \cup OnMachine => job[c].stage \in {"none"} \cup OnMachine
          /\ job'[c].stage = "written" => job[c].stage = "written" /\ job'[c].after = job[c].after
      <4>1. CASE job'[c] = job[c]
        BY <1>1, <1>3, <4>1 DEF UnmarkedOK
      <4>2. CASE Send(c)
        <5>1. Moved(c, "sent", active, job[c].before, job[c].after) /\ job[c].stage = "none"
          BY <1>1, <4>2, ScriptSteps DEF Send, Goes, CallOK
        <5> QED
          BY <5>1 DEF Moved
      <4>3. CASE Look(c) \/ SaveBackup(c) \/ Refuse(c)
        <5>1. /\ job'[c].machine = job[c].machine /\ job'[c].stage # "written"
              /\ job[c].stage \in OnMachine
          BY <4>3, ScriptSteps DEF Moved, Look, SaveBackup, Refuse, OnMachine, Looked
        <5>2. job[c].machine = active
          BY <1>1, <1>3, <5>1 DEF UnmarkedOK, OnMachine, Looked
        <5> QED
          BY <5>1, <5>2
      <4>4. ASSUME NEW stops \in BOOLEAN, LoseClient(c, stops)
            PROVE  /\ job'[c].stage # "none" => job'[c].machine = active
                   /\ job'[c].stage \in {"none"} \cup OnMachine => job[c].stage \in {"none"} \cup OnMachine
                   /\ job'[c].stage = "written" => job[c].stage = "written" /\ job'[c].after = job[c].after
        <5>1. PICK stage \in {job[c].stage, "refused"} :
                    /\ Moved(c, stage, job[c].machine, job[c].before, job[c].after)
                    /\ (job[c].stage = "written") <=> (stage = "written")
          BY <4>4, ScriptSteps
        <5>2. job[c].stage # "none"
          BY <1>1, <4>4 DEF LoseClient, Goes, CallOK
        <5> QED
          BY <1>1, <1>3, <5>1, <5>2 DEF Moved, UnmarkedOK, OnMachine, Looked
      <4>5. ASSUME NEW d \in Calls, d # c,
                   \/ Send(d) \/ Look(d) \/ SaveBackup(d) \/ Refuse(d) \/ Write(d)
                   \/ \E stops \in BOOLEAN : LoseClient(d, stops)
            PROVE  job'[c] = job[c]
        BY <4>5, ScriptSteps DEF Moved
      <4> QED
        BY <2>5, <4>1, <4>2, <4>3, <4>4, <4>5, JobsElse
    <3> QED
      BY <1>1, <1>3, <2>3, <3>1, <3>2 DEF UnmarkedOK
  <2> QED
    BY <2>4, <2>5
<1> QED
  BY <1>2, <1>3

-----------------------------------------------------------------------------

\* What may explain that c's change was answered with an error.
Explained(c) == c \in disturbed \cup lost \/ (~OnScript(c) /\ c \in unconfirmed)

\* A script without its client, and a change whose confirmation failed.
LEMMA ErrorStep ==
    ASSUME Inv, [Next]_vars, NEW c \in Calls, UnmarkedOK(c), LateOK(c), ErrorsAreExplained
    PROVE  /\ LateOK(c)'
           /\ job'[c].stage = "written" /\ pc'[c] = "failed" => Explained(c)'
<1>1. CallOK(c) /\ JobOK(c) /\ TypeOK
  BY DEF Inv
<1>2. disturbed \subseteq disturbed' /\ lost \subseteq lost' /\ unconfirmed \subseteq unconfirmed'
  BY MarksGrow
<1>6. job[c].stage # "none" => (OnScript(c)' <=> OnScript(c))
  <2>1. ASSUME job[c].stage # "none"
        PROVE  /\ confirming'[c] = confirming[c] /\ confirming[c] \in Plans
               /\ plan[confirming[c]].status # "none"
    BY <1>1, <2>1, JobFate, ChangeNone DEF CallOK, Plan
  <2> QED
    BY <2>1, PlansKept DEF OnScript, Plan, KeptPlan
<1> SUFFICES ASSUME pc'[c] = "failed", job'[c].stage \in OnMachine \cup {"written"},
                    c \notin lost'
             PROVE  job'[c].stage = "written" /\ Explained(c)'
  BY DEF LateOK, OnMachine, Looked, Explained
<1>3. c \notin lost
  BY <1>2
<1>4. CASE pc[c] = "failed"
  <2>1. job[c].stage \notin OnMachine
    BY <1>3, <1>4 DEF LateOK
  <2>2. ~Send(c) /\ ~Look(c) /\ ~SaveBackup(c) /\ ~Refuse(c) /\ ~Write(c)
        /\ ~ \E stops \in BOOLEAN : LoseClient(c, stops)
    BY <1>4, <2>1 DEF Send, LoseClient, Goes, Look, SaveBackup, Refuse, Write, OnMachine, Looked
  <2>3. ASSUME NEW d \in Calls, d # c,
               \/ Send(d) \/ Look(d) \/ SaveBackup(d) \/ Refuse(d) \/ Write(d)
               \/ \E stops \in BOOLEAN : LoseClient(d, stops)
        PROVE  job'[c] = job[c]
    BY <2>3, ScriptSteps DEF Moved
  <2>4. job'[c] = job[c] /\ job[c].stage = "written"
    BY <2>1, <2>2, <2>3, JobsElse
  <2>5. Explained(c)
    BY <1>4, <2>4 DEF ErrorsAreExplained, Explained
  <2> QED
    BY <1>2, <1>6, <2>4, <2>5 DEF Explained
<1>5. CASE pc[c] # "failed"
  <2>1. ASSUME NEW d \in Calls, CallStep(d) \/ \E p \in Plans : Confirm(d, p) \/ ConfirmExpired(d, p)
        PROVE  d = c
    BY <1>5, <2>1, CallStepOK DEF Others
  <2>2. ASSUME NEW p \in Plans, Confirm(c, p) \/ ConfirmExpired(c, p)
        PROVE  FALSE
    <3>1. job'[c] = job[c] /\ job[c].stage = "none"
      BY <1>1, <2>2 DEF Confirm, ConfirmExpired, Goes, CallOK
    <3> QED
      BY <3>1 DEF OnMachine, Looked
  <2>3. ASSUME CallStep(c), ~Verify(c), ~LeaveUnconfirmed(c)
        PROVE  FALSE
    <3>1. CASE CheckFails(c) \/ Answer(c)
      <4>1. job'[c] = job[c] /\ job[c].stage \in {"none", "refused"}
        BY <1>1, <1>5, <3>1 DEF CheckFails, Answer, Goes, CallOK, TypeOK
      <4> QED
        BY <4>1 DEF OnMachine, Looked
    <3>2. CASE AuditFails(c) \/ \E stops \in BOOLEAN : LoseClient(c, stops)
      BY <3>2 DEF AuditFails, LoseClient, Lose
    <3>3. CASE Prepare(c) \/ Compare(c) \/ Send(c) \/ Audit(c)
      BY <1>1, <3>3 DEF Prepare, Compare, Send, Audit, Goes, TypeOK
    <3>4. CASE Look(c) \/ SaveBackup(c) \/ Refuse(c) \/ Write(c)
      BY <1>5, <3>4 DEF Look, SaveBackup, Refuse, Write
    <3> QED
      BY <2>3, <3>1, <3>2, <3>3, <3>4 DEF CallStep
  <2>4. ASSUME Verify(c)
        PROVE  Explained(c)' /\ job'[c].stage = "written"
    <3>1. pc[c] = "verifying" /\ job[c].stage = "written" /\ job' = job
      BY <1>1, <2>4 DEF Verify, CallOK
    <3>2. Resource(Plan(c).kind, active) # job[c].after
      BY <1>1, <2>4 DEF Verify, Record, Goes, TypeOK
    <3>3. c \in UnderWay
      BY <3>1 DEF UnderWay, Compared
    <3> QED
      BY <1>2, <3>1, <3>2, <3>3 DEF UnmarkedOK, Explained
  <2>5. ASSUME LeaveUnconfirmed(c)
        PROVE  Explained(c)' /\ job'[c].stage = "written"
    BY <1>6, <2>5 DEF LeaveUnconfirmed, Explained
  <2> QED
    BY <1>5, <2>1, <2>2, <2>3, <2>4, <2>5, NextCases DEF PlanApply, PlanRollback, PlanRuntime, Keep,
       Switch, EditScript, EditRuntime, Edited, Deploy, vars
<1> QED
  BY <1>4, <1>5

\* A script that is not disturbed writes over what its plan has found.
LEMMA WriteStep ==
    ASSUME Strong, [Next]_vars, NEW c \in Calls,
           job[c].stage \in Looked, job'[c].stage = "written", c \notin disturbed
    PROVE  Resource(Plan(c).kind, job[c].machine) = Plan(c).found
<1>1. UnmarkedOK(c) /\ c \in UnderWay
  BY DEF Strong, UnderWay, OnMachine
<1> QED
  BY <1>1 DEF UnmarkedOK, OnMachine, Looked

-----------------------------------------------------------------------------

LEMMA InitStrong == Init => Strong
<1> SUFFICES ASSUME Init PROVE Strong
  OBVIOUS
<1>1. NoPlan \in PlanRecords /\ NoJob \in Jobs
  BY DEF NoPlan, NoJob, PlanRecords, Jobs, ScriptKinds, Statuses, JobStages
<1>2. /\ plan \in [Plans -> PlanRecords] /\ job \in [Calls -> Jobs]
      /\ \A p \in Plans : plan[p].status = "none"
      /\ \A c \in Calls : /\ job[c].stage = "none" /\ job[c].machine = None
                          /\ pc[c] = "idle" /\ confirming[c] = None
  BY <1>1 DEF Init, NoPlan, NoJob
<1>3. TypeOK
  BY <1>2 DEF Init, TypeOK, PlanRecords, Jobs, Places
<1>4. \A c \in Calls : CallOK(c) /\ JobOK(c)
  BY <1>2 DEF Init, CallOK, JobOK, HasLooked, Looked
<1>5. BackupOK /\ \A p \in Plans : PlanOK(p)
  BY <1>2 DEF Init, BackupOK, PlanOK
<1>6. OnceOK /\ ErrorsAreExplained
  BY <1>2 DEF OnceOK, ErrorsAreExplained, HasLooked, Looked
<1>7. \A c \in Calls : UnmarkedOK(c) /\ LateOK(c)
  BY <1>2 DEF UnmarkedOK, LateOK, UnderWay, Compared, OnMachine, Looked
<1> QED
  BY <1>3, <1>4, <1>5, <1>6, <1>7 DEF Strong, Inv

LEMMA StrongStep == ASSUME Strong, [Next]_vars PROVE Strong'
<1>1. Inv' /\ OnceOK'
  BY InvStep, OnceStep DEF Strong
<1>2. \A c \in Calls : UnmarkedOK(c)'
  BY UnmarkedStep DEF Strong
<1>3. (\A c \in Calls : LateOK(c)') /\ ErrorsAreExplained'
  <2>1. ASSUME NEW c \in Calls
        PROVE  /\ LateOK(c)'
               /\ job'[c].stage = "written" /\ pc'[c] = "failed" => Explained(c)'
    BY ErrorStep DEF Strong
  <2> QED
    BY <2>1 DEF ErrorsAreExplained, Explained
<1> QED
  BY <1>1, <1>2, <1>3 DEF Strong

\* Strong is inductive.
THEOREM ChangesInvariant == Spec => []Strong
  BY InitStrong, StrongStep, PTL DEF Spec

\* Every variable keeps its type: of plans, of jobs and of the machines.
THEOREM ChangesTyped == Spec => []TypeOK
<1>1. Strong => TypeOK
  BY DEF Strong, Inv
<1> QED
  BY <1>1, ChangesInvariant, PTL

\* A change that was made and answered with an error is explained by a change
\* under the confirmation, or by a client or an audit that failed; and that of a
\* container, but of no start script, also by a script or a reading back that
\* failed after it.
THEOREM ChangesExplained == Spec => []ErrorsAreExplained
<1>1. Strong => ErrorsAreExplained
  BY DEF Strong
<1> QED
  BY <1>1, ChangesInvariant, PTL

\* However many confirmations of a plan there are, its change is written once on a
\* machine, unless two scripts had both looked there before a backup was made.
THEOREM ChangesOnce == Spec => []AppliedOnce
<1>1. Strong => AppliedOnce
  BY DEF Strong, OnceOK, AppliedOnce, HasLooked
<1> QED
  BY <1>1, ChangesInvariant, PTL

\* Whatever scripts overlap, a backup holds the text that was reviewed.
THEOREM BackupsReviewed == Spec => []RestoresReviewed
<1>1. Strong => RestoresReviewed
  BY DEF Strong, Inv, BackupOK, RestoresReviewed
<1> QED
  BY <1>1, ChangesInvariant, PTL

\* No step of a script replaces anything but what its plan has found, unless the
\* call was disturbed after its comparison.
THEOREM ChangesReplaceFindings == Spec => ReplacesItsFinding
<1>1. Strong /\ [Next]_vars =>
        [\A c \in Calls :
           /\ job[c].stage \in Looked /\ job'[c].stage = "written"
           /\ c \notin disturbed
           => Resource(Plan(c).kind, job[c].machine) = Plan(c).found]_vars
  BY WriteStep
<1> QED
  BY <1>1, ChangesInvariant, PTL DEF Spec, ReplacesItsFinding
=============================================================================
