------------------------ MODULE ServiceControlProofs ------------------------
(***************************************************************************)
(* Local service control for every number of confirmations, plans, cores,  *)
(* crashes, profile switches and lost ledger calls: it implements the      *)
(* ledger of OperationLedger, and so inherits what is proved there; and    *)
(* while a script runs the ledger stays closed.                            *)
(***************************************************************************)
EXTENDS ServiceControl, TLAPS

\* The ledger and what is proved of it, under the mapping of ServiceControl.
L == INSTANCE OperationLedgerProofs WITH
    live <- {c \in Calls : pc[c] \in Working},
    issued <- started \cup {MigrationId},
    MigrationContext <- CHOOSE target \in Targets : TRUE

\* The constants used here are as the ledger assumes.
LEMMA LedgerAssumptions ==
    /\ L!NoLeaseAssumption /\ L!MaxOperationsAssumption
    /\ L!KindAssumption /\ L!MigrationAssumption
BY NoLeaseAssumption, MaxOperationsAssumption, ControlKinds, ControlIds, ControlContexts
   DEF L!NoLeaseAssumption, L!MaxOperationsAssumption, L!KindAssumption,
       L!MigrationAssumption, Targets

\* The changes of the document are the same operators in the ledger's module.
LEMMA SameChanges ==
    /\ L!EmptyDocument = EmptyDocument
    /\ \A d : L!Blocked(d) = Blocked(d)
    /\ \A d : L!CanRecover(d) = CanRecover(d)
    /\ \A d : L!Recovered(d) = Recovered(d)
    /\ \A d, id : L!Recorded(d, id) = Recorded(d, id)
    /\ \A d, id : L!CanStart(d, id) = CanStart(d, id)
    /\ \A d, id, k, x : L!Started(d, id, k, x) = Started(d, id, k, x)
    /\ \A d, id : L!CanTransition(d, id) = CanTransition(d, id)
    /\ \A d, id : L!Progressed(d, id) = Progressed(d, id)
    /\ \A d, id, s : L!Completed(d, id, s) = Completed(d, id, s)
    /\ \A d, id, k : L!CanResolve(d, id, k) = CanResolve(d, id, k)
    /\ \A d, id : L!ResolvedByHand(d, id) = ResolvedByHand(d, id)
BY DEF L!EmptyDocument, L!Blocked, L!CanRecover, L!Recovered, L!Recorded, L!CanStart,
       L!Started, L!CanTransition, L!Progressed, L!Completed, L!CanResolve,
       L!ResolvedByHand, L!AwaitsManual, L!WithStatus, L!Position, L!Entry, L!Trimmed,
       L!NewOperation,
       EmptyDocument, Blocked, CanRecover, Recovered, Recorded, CanStart,
       Started, CanTransition, Progressed, Completed, CanResolve,
       ResolvedByHand, AwaitsManual, WithStatus, Position, Entry, Trimmed, NewOperation

-----------------------------------------------------------------------------
(* The inductive invariant. *)

\* Which calls have an operation in the ledger, and what it is bound to.
CallsKnown ==
    /\ \A c \in Calls : pc[c] \in Working => c \in started
    /\ \A c \in started : pc[c] \notin {"idle"} \cup Confirming
    /\ \A c \in Calls : pc[c] \in Confirming => call[c].plan \in Plans
    /\ \A c \in Calls : pc[c] \in {"identity", "starting"} => call[c].bound \in Targets

\* A script that the program has not given up belongs to a task that waits for
\* it, or died with the process, and its operation holds the ledger.
RemoteAccounted ==
    \A c \in remote \ (acknowledged \cup lost) :
        pc[c] \in {"executing", "gone"} /\ L!Holds(doc, c)

IndInv == TypeOK /\ L!IndInv /\ L!LiveRecorded /\ CallsKnown /\ RemoteAccounted

-----------------------------------------------------------------------------
(* Types. *)

CallRecord == [plan: Plans \cup {None}, core: 1 .. MaxCores,
               digest: Calls \cup {None}, bound: Targets \cup {None},
               ran: Targets \cup {None}, outcome: {"succeeded", "failed"}]

PlanRecord == [core: 1 .. MaxCores, status: PlanStatuses, digest: Calls \cup {None}]

\* The part of TypeOK that is about calls and plans.
CallTypes ==
    /\ running \in [1 .. MaxCores -> Calls \cup {None}]
    /\ plans \in [Plans -> PlanRecord]
    /\ pc \in [Calls -> Stages]
    /\ call \in [Calls -> CallRecord]

\* Every stage is one of four kinds.
LEMMA StageKinds ==
    /\ Confirming \subseteq Stages /\ Working \subseteq Stages /\ Over \subseteq Stages
    /\ "idle" \in Stages /\ "auditing" \in Stages
BY DEF Stages

\* Leaving the work with a failure or a result keeps the types.
LEMMA LeaveTypes ==
    ASSUME TypeOK, NEW c \in Calls, NEW outcome \in {"succeeded", "failed"},
           Leave(c, outcome), UNCHANGED plans
    PROVE  CallTypes'
BY DEF TypeOK, CallTypes, CallRecord, PlanRecord, Leave, Stages, Working

\* A call's own steps keep the types.
LEMMA CallStepTypes ==
    ASSUME TypeOK, CallsKnown, NEW c \in Calls, CallStep(c)
    PROVE  CallTypes' /\ remote' \in SUBSET Calls /\ lost' \in SUBSET Calls
           /\ audited' \in SUBSET Calls /\ started' \in SUBSET Calls
           /\ UNCHANGED <<up, epoch, active, activation, acknowledged, crashes, switches>>
           /\ (UNCHANGED faults \/ faults' = faults + 1)
<1> USE DEF TypeOK, CallTypes, CallRecord, PlanRecord, coreVars, profileVars, ledgerVars,
            remoteVars
<1>1. CASE Recheck(c)
  <2>1. call[c].plan \in Plans
    BY <1>1 DEF Recheck, CallsKnown, Confirming
  <2>2. PICK digest \in {c, plans[call[c].plan].digest} :
            /\ plans' = [plans EXCEPT ![call[c].plan].digest = digest]
            /\ call' = [call EXCEPT ![c].digest = digest, ![c].bound = active]
    BY <1>1 DEF Recheck
  <2>3. digest \in Calls \cup {None}
    BY <2>1
  <2>4. plans' \in [Plans -> PlanRecord]
    BY <2>1, <2>2, <2>3
  <2>5. call' = [call EXCEPT ![c] = [call[c] EXCEPT !.digest = digest, !.bound = active]]
    BY <2>2
  <2>6. [call[c] EXCEPT !.digest = digest, !.bound = active] \in CallRecord
    BY <2>3
  <2>7. call' \in [Calls -> CallRecord]
    BY <2>5, <2>6
  <2> QED
    BY <1>1, <2>4, <2>7 DEF Recheck, Stages, Confirming
<1>2. CASE Bind(c)
  <2>1. call[c].plan \in Plans
    BY <1>2 DEF Bind, CallsKnown, Confirming
  <2> QED
    BY <1>2, <2>1 DEF Bind, Stages, Confirming, PlanStatuses
<1>3. CASE ConfirmFails(c)
  BY <1>3 DEF ConfirmFails, Stages, Over
<1>4. CASE Start(c)
  BY <1>4 DEF Start, Stages, Working
<1>5. CASE StartRejected(c)
  BY <1>5 DEF StartRejected, LedgerFault, Stages, Over
<1>6. CASE Report(c)
  <2>1. CASE Leave(c, "failed")
    BY <1>6, <2>1, LeaveTypes DEF Report, LedgerFault
  <2>2. CASE ~Leave(c, "failed")
    BY <1>6, <2>2 DEF Report, Stages, Working
  <2> QED
    BY <2>1, <2>2
<1>7. CASE Execute(c)
  BY <1>7 DEF Execute, Stages, Working
<1>8. CASE ExecuteFails(c)
  BY <1>8, LeaveTypes DEF ExecuteFails
<1>9. CASE ScriptEnds(c)
  <2>1. CASE Leave(c, "failed")
    BY <1>9, <2>1, LeaveTypes DEF ScriptEnds
  <2>2. CASE ~Leave(c, "failed")
    BY <1>9, <2>2 DEF ScriptEnds, Stages, Working
  <2> QED
    BY <2>1, <2>2
<1>10. CASE ConnectionEnds(c)
  BY <1>10, LeaveTypes DEF ConnectionEnds
<1>11. CASE Verify(c)
  BY <1>11, LeaveTypes DEF Verify
<1>12. CASE Close(c)
  BY <1>12 DEF Close, LedgerFault, Stages, Over
<1>13. CASE Audit(c)
  BY <1>13 DEF Audit, Stages, Over
<1> QED
  BY <1>1, <1>2, <1>3, <1>4, <1>5, <1>6, <1>7, <1>8, <1>9, <1>10, <1>11, <1>12, <1>13
     DEF CallStep

\* Every step keeps the types, given that it keeps the document's.
LEMMA TypesKept ==
    ASSUME TypeOK, CallsKnown, [Next]_vars, doc' \in Document
    PROVE  TypeOK'
<1> USE DEF TypeOK, coreVars, callVars, profileVars, ledgerVars, remoteVars
<1>1. ASSUME NEW p \in Plans, CreatePlan(p) PROVE TypeOK'
  BY <1>1 DEF CreatePlan, PlanStatuses
<1>2. ASSUME NEW c \in Calls, NEW p \in Plans, Confirm(c, p) PROVE TypeOK'
  <2>1. call' = [call EXCEPT ![c] = [call[c] EXCEPT !.plan = p, !.core = epoch]]
    BY <1>2 DEF Confirm
  <2>2. call[c] \in CallRecord
    BY DEF CallRecord
  <2>3. [call[c] EXCEPT !.plan = p, !.core = epoch] \in CallRecord
    BY <2>2 DEF CallRecord
  <2>4. call' \in [Calls -> CallRecord]
    BY <2>1, <2>3 DEF CallRecord
  <2> QED
    BY <1>2, <2>4 DEF Confirm, CallRecord, Stages, Confirming
<1>3. ASSUME NEW c \in Calls, NEW p \in Plans, ConfirmExpired(c, p) PROVE TypeOK'
  BY <1>3 DEF ConfirmExpired, PlanStatuses, Stages, Over
<1>4. ASSUME NEW c \in Calls, CallStep(c) PROVE TypeOK'
  BY <1>4, CallStepTypes DEF CallTypes, CallRecord, PlanRecord
<1>5. ASSUME NEW c \in Calls, DetachedScriptEnds(c) PROVE TypeOK'
  BY <1>5 DEF DetachedScriptEnds
<1>6. ASSUME NEW c \in Calls, Resolve(c) PROVE TypeOK'
  BY <1>6 DEF Resolve
<1>7. ASSUME NEW target \in Targets, BeginActivation(target) PROVE TypeOK'
  BY <1>7 DEF BeginActivation
<1>8. CASE SaveActivation
  BY <1>8 DEF SaveActivation
<1>9. CASE RestartCore
  BY <1>9, ControlBounds DEF RestartCore
<1>10. CASE Crash
  <2>1. pc' \in [Calls -> Stages]
    BY <1>10 DEF Crash, Stages, Over
  <2>2. remote' \in SUBSET Calls
    BY <1>10 DEF Crash
  <2>3. /\ UNCHANGED <<doc, started, acknowledged, epoch, running, plans, call, active,
                       switches, lost, audited, faults>>
        /\ activation' = None
    BY <1>10 DEF Crash
  <2>4. up' \in BOOLEAN
    BY <1>10 DEF Crash
  <2>5. {crashes', switches', faults'} \subseteq Nat
    BY <1>10 DEF Crash
  <2> QED
    BY <2>1, <2>2, <2>3, <2>4, <2>5
<1>11. CASE Boot
  BY <1>11, ControlBounds DEF Boot
<1>12. CASE UNCHANGED vars
  BY <1>12 DEF vars
<1> QED
  BY <1>1, <1>2, <1>3, <1>4, <1>5, <1>6, <1>7, <1>8, <1>9, <1>10, <1>11, <1>12 DEF Next

-----------------------------------------------------------------------------
(* Every step is a step of the ledger, or none. *)

\* A step that leaves the ledger's view alone.
LEMMA Stutters ==
    ASSUME UNCHANGED <<doc, started, acknowledged>>,
           \A c \in Calls : pc'[c] \in Working <=> pc[c] \in Working
    PROVE  UNCHANGED L!vars
BY DEF L!vars

\* A start and a completion are steps of the ledger.
LEMMA LedgerSteps ==
    /\ \A c \in Ids, x \in Contexts : L!Start(c, x) => L!Next
    /\ \A c \in Ids, s \in {"succeeded", "failed"} : L!Complete(c, s) => L!Next
BY Zenon DEF L!Next

\* What a call does is a start, a progress report, a completion, or invisible.
LEMMA CallStepRefines ==
    ASSUME TypeOK, CallsKnown, NEW c \in Calls, CallStep(c)
    PROVE  [L!Next]_(L!vars)
<1> DEFINE live == {d \in Calls : pc[d] \in Working}
<1> USE DEF TypeOK, ledgerVars
<1>1. c \in Ids /\ Calls \subseteq Ids /\ MigrationId \notin Calls
  BY DEF Calls
<1>2. CASE Recheck(c)
  BY <1>2, Stutters DEF Recheck, Working
<1>3. CASE Bind(c)
  BY <1>3, Stutters DEF Bind, Working
<1>4. CASE ConfirmFails(c)
  BY <1>4, Stutters DEF ConfirmFails, Working
<1>5. CASE Start(c)
  <2>1. PICK context \in Contexts : call[c].bound = context
    BY <1>5 DEF Start, CallsKnown, Targets
  <2>2. c \notin started \cup {MigrationId}
    BY <1>1, <1>5 DEF Start, CallsKnown, Confirming
  <2>3. live' = live \cup {c}
    BY <1>5 DEF Start, Working
  <2>4. L!Start(c, context)
    BY <1>5, <2>1, <2>2, <2>3, SameChanges DEF Start, L!Start
  <2> QED
    BY <1>1, <2>4, LedgerSteps
<1>6. CASE StartRejected(c)
  <2>1. live' = live
    BY <1>6 DEF StartRejected, Working
  <2>2. CASE UNCHANGED <<doc, started>>
    BY <1>6, <2>2, Stutters DEF StartRejected, Working
  <2>3. CASE ~UNCHANGED <<doc, started>>
    <3>1. PICK context \in Contexts : call[c].bound = context
      BY <1>6 DEF StartRejected, CallsKnown, Targets
    <3>2. c \notin started \cup {MigrationId}
      BY <1>1, <1>6 DEF StartRejected, CallsKnown, Confirming
    <3>3. L!Start(c, context)
      BY <1>6, <2>1, <2>3, <3>1, <3>2, SameChanges DEF StartRejected, L!Start
    <3> QED
      BY <1>1, <3>3, LedgerSteps
  <2> QED
    BY <2>2, <2>3
<1>7. CASE Report(c)
  <2>1. \A d \in Calls : pc'[d] \in Working <=> pc[d] \in Working
    BY <1>7 DEF Report, Leave, Working
  <2>2. CASE UNCHANGED doc
    BY <1>7, <2>1, <2>2, Stutters DEF Report
  <2>3. CASE CanTransition(doc, c) /\ doc' = Progressed(doc, c)
    <3>1. c \in live /\ live' = live
      BY <1>7, <2>1 DEF Report, Working
    <3>2. L!Progress(c)
      BY <1>7, <2>3, <3>1, SameChanges DEF Report, L!Progress
    <3> QED
      BY <1>1, <3>2 DEF L!Next
  <2> QED
    BY <1>7, <2>2, <2>3 DEF Report
<1>8. CASE Execute(c)
  BY <1>8, Stutters DEF Execute, Working
<1>9. CASE ExecuteFails(c)
  BY <1>9, Stutters DEF ExecuteFails, Leave, Working
<1>10. CASE ScriptEnds(c)
  BY <1>10, Stutters DEF ScriptEnds, Leave, Working
<1>11. CASE ConnectionEnds(c)
  BY <1>11, Stutters DEF ConnectionEnds, Leave, Working
<1>12. CASE Verify(c)
  BY <1>12, Stutters DEF Verify, Leave, Working
<1>13. CASE Close(c)
  <2>1. c \in live /\ live' = live \ {c}
    BY <1>13 DEF Close, Working
  <2>2. PICK status \in {"succeeded", "failed"} : call[c].outcome = status
    OBVIOUS
  <2>3. L!Complete(c, status)
    BY <1>13, <2>1, <2>2, SameChanges DEF Close, L!Complete
  <2> QED
    BY <1>1, <2>3, LedgerSteps
<1>14. CASE Audit(c)
  BY <1>14, Stutters DEF Audit, Working
<1> QED
  BY <1>2, <1>3, <1>4, <1>5, <1>6, <1>7, <1>8, <1>9, <1>10, <1>11, <1>12, <1>13, <1>14
     DEF CallStep

\* So is every other step of the process and of its environment.
LEMMA StepRefines ==
    ASSUME TypeOK, CallsKnown, [Next]_vars
    PROVE  [L!Next]_(L!vars)
<1> USE DEF TypeOK, ledgerVars, callVars
<1>1. Calls \subseteq Ids
  BY DEF Calls
<1>2. ASSUME NEW p \in Plans, CreatePlan(p) PROVE UNCHANGED L!vars
  BY <1>2, Stutters DEF CreatePlan
<1>3. ASSUME NEW c \in Calls, NEW p \in Plans, Confirm(c, p) PROVE UNCHANGED L!vars
  BY <1>3, Stutters DEF Confirm, Working
<1>4. ASSUME NEW c \in Calls, NEW p \in Plans, ConfirmExpired(c, p) PROVE UNCHANGED L!vars
  BY <1>4, Stutters DEF ConfirmExpired, Working
<1>5. ASSUME NEW c \in Calls, CallStep(c) PROVE [L!Next]_(L!vars)
  BY <1>5, CallStepRefines
<1>6. ASSUME NEW c \in Calls, DetachedScriptEnds(c) PROVE UNCHANGED L!vars
  BY <1>6, Stutters DEF DetachedScriptEnds
<1>7. ASSUME NEW c \in Calls, Resolve(c) PROVE L!Next
  <2>1. L!ResolveManual(c)
    BY <1>7, SameChanges DEF Resolve, L!ResolveManual
  <2> QED
    BY <1>1, <2>1 DEF L!Next
<1>8. ASSUME NEW target \in Targets, BeginActivation(target) PROVE UNCHANGED L!vars
  BY <1>8, Stutters DEF BeginActivation
<1>9. CASE SaveActivation
  BY <1>9, Stutters DEF SaveActivation
<1>10. CASE RestartCore
  BY <1>10, SameChanges DEF RestartCore, L!Recover, L!Next
<1>11. CASE Crash
  <2>1. {c \in Calls : pc'[c] \in Working} = {}
    BY <1>11 DEF Crash, Over, Working
  <2> QED
    BY <1>11, <2>1 DEF Crash, L!Crash, L!Next
<1>12. CASE Boot
  BY <1>12, SameChanges DEF Boot, L!Recover, L!Next
<1>13. CASE UNCHANGED vars
  BY <1>13, Stutters DEF vars
<1> QED
  BY <1>2, <1>3, <1>4, <1>5, <1>6, <1>7, <1>8, <1>9, <1>10, <1>11, <1>12, <1>13 DEF Next

-----------------------------------------------------------------------------
(* The invariant is kept. *)

\* No step starts work twice for a call, loses its plan or leaves it unbound.
LEMMA CallsKnownKept ==
    ASSUME TypeOK, CallsKnown, [Next]_vars
    PROVE  CallsKnown'
<1> USE DEF TypeOK, CallsKnown, coreVars, callVars, profileVars, ledgerVars, remoteVars
<1>1. ASSUME NEW p \in Plans, CreatePlan(p) PROVE CallsKnown'
  BY <1>1 DEF CreatePlan
<1>2. ASSUME NEW c \in Calls, NEW p \in Plans, Confirm(c, p) PROVE CallsKnown'
  BY <1>2 DEF Confirm, Confirming, Working
<1>3. ASSUME NEW c \in Calls, NEW p \in Plans, ConfirmExpired(c, p) PROVE CallsKnown'
  BY <1>3 DEF ConfirmExpired, Confirming, Working
<1>4. ASSUME NEW c \in Calls, CallStep(c) PROVE CallsKnown'
  <2>1. CASE Recheck(c)
    BY <2>1 DEF Recheck, Confirming, Working
  <2>2. CASE Bind(c)
    BY <2>2 DEF Bind, Confirming, Working
  <2>3. CASE ConfirmFails(c) \/ StartRejected(c)
    BY <2>3 DEF ConfirmFails, StartRejected, Confirming, Working
  <2>4. CASE Start(c)
    BY <2>4 DEF Start, Confirming, Working
  <2>5. CASE Report(c)
    BY <2>5 DEF Report, Leave, Confirming, Working
  <2>6. CASE Execute(c) \/ ExecuteFails(c)
    BY <2>6 DEF Execute, ExecuteFails, Leave, Confirming, Working
  <2>7. CASE ScriptEnds(c)
    BY <2>7 DEF ScriptEnds, Leave, Confirming, Working
  <2>8. CASE ConnectionEnds(c) \/ Verify(c)
    BY <2>8 DEF ConnectionEnds, Verify, Leave, Confirming, Working
  <2>9. CASE Close(c) \/ Audit(c)
    BY <2>9 DEF Close, Audit, Confirming, Working
  <2> QED
    BY <1>4, <2>1, <2>2, <2>3, <2>4, <2>5, <2>6, <2>7, <2>8, <2>9 DEF CallStep
<1>5. ASSUME NEW c \in Calls, DetachedScriptEnds(c) \/ Resolve(c) PROVE CallsKnown'
  BY <1>5 DEF DetachedScriptEnds, Resolve
<1>6. ASSUME NEW target \in Targets, BeginActivation(target) PROVE CallsKnown'
  BY <1>6 DEF BeginActivation
<1>7. CASE SaveActivation \/ RestartCore \/ Boot
  BY <1>7 DEF SaveActivation, RestartCore, Boot
<1>8. CASE Crash
  BY <1>8 DEF Crash, Over, Confirming, Working
<1>9. CASE UNCHANGED vars
  BY <1>9 DEF vars
<1> QED
  BY <1>1, <1>2, <1>3, <1>4, <1>5, <1>6, <1>7, <1>8, <1>9 DEF Next

\* A script the program waits for, or that outlived the process, is waited for
\* until it ends, the connection is lost, or the process dies.
LEMMA ScriptStays ==
    ASSUME TypeOK, [Next]_vars, NEW c \in remote, pc[c] \in {"executing", "gone"},
           c \in remote', c \notin lost'
    PROVE  \/ pc'[c] = pc[c]
           \/ pc'[c] = "gone" /\ UNCHANGED doc
<1> USE DEF TypeOK, coreVars, callVars, profileVars, ledgerVars, remoteVars
<1>1. ASSUME NEW p \in Plans, CreatePlan(p) PROVE pc'[c] = pc[c]
  BY <1>1 DEF CreatePlan
<1>2. ASSUME NEW d \in Calls, NEW p \in Plans, Confirm(d, p) \/ ConfirmExpired(d, p)
      PROVE  pc'[c] = pc[c]
  BY <1>2 DEF Confirm, ConfirmExpired
<1>3. ASSUME NEW d \in Calls, CallStep(d) PROVE pc'[c] = pc[c]
  <2>1. CASE Recheck(d) \/ Bind(d) \/ ConfirmFails(d) \/ Start(d) \/ StartRejected(d)
    BY <2>1 DEF Recheck, Bind, ConfirmFails, Start, StartRejected
  <2>2. CASE Report(d) \/ Execute(d) \/ ExecuteFails(d)
    BY <2>2 DEF Report, Execute, ExecuteFails, Leave
  <2>3. CASE ScriptEnds(d) \/ ConnectionEnds(d)
    BY <2>3 DEF ScriptEnds, ConnectionEnds, Leave
  <2>4. CASE Verify(d) \/ Close(d) \/ Audit(d)
    BY <2>4 DEF Verify, Close, Audit, Leave
  <2> QED
    BY <1>3, <2>1, <2>2, <2>3, <2>4 DEF CallStep
<1>4. ASSUME NEW d \in Calls, DetachedScriptEnds(d) \/ Resolve(d) PROVE pc'[c] = pc[c]
  BY <1>4 DEF DetachedScriptEnds, Resolve
<1>5. ASSUME NEW target \in Targets, BeginActivation(target) PROVE pc'[c] = pc[c]
  BY <1>5 DEF BeginActivation
<1>6. CASE SaveActivation \/ RestartCore \/ Boot
  BY <1>6 DEF SaveActivation, RestartCore, Boot
<1>7. CASE Crash
  BY <1>7 DEF Crash, Over
<1>8. CASE UNCHANGED vars
  BY <1>8 DEF vars
<1> QED
  BY <1>1, <1>2, <1>3, <1>4, <1>5, <1>6, <1>7, <1>8 DEF Next

\* A script appears on a DGX only when its task, still live, executes it; what
\* a person resolved and what lost its connection stays so.
LEMMA ScriptAppears ==
    ASSUME TypeOK, [Next]_vars
    PROVE  /\ acknowledged \subseteq acknowledged' /\ lost \subseteq lost'
           /\ \A c \in remote' \ remote :
                /\ c \in Calls /\ pc[c] = "resolving" /\ pc'[c] = "executing"
                /\ UNCHANGED <<doc, acknowledged>>
<1> USE DEF TypeOK, coreVars, callVars, profileVars, ledgerVars, remoteVars
<1> DEFINE Goal == /\ acknowledged \subseteq acknowledged' /\ lost \subseteq lost'
                   /\ \A c \in remote' \ remote :
                        /\ c \in Calls /\ pc[c] = "resolving" /\ pc'[c] = "executing"
                        /\ UNCHANGED <<doc, acknowledged>>
<1>1. ASSUME NEW d \in Calls, CallStep(d) PROVE Goal
  <2>1. CASE Recheck(d) \/ Bind(d) \/ ConfirmFails(d) \/ Start(d) \/ StartRejected(d)
    BY <2>1 DEF Recheck, Bind, ConfirmFails, Start, StartRejected
  <2>2. CASE Execute(d)
    BY <2>2 DEF Execute
  <2>3. CASE Report(d) \/ ExecuteFails(d) \/ ScriptEnds(d) \/ ConnectionEnds(d)
    BY <2>3 DEF Report, ExecuteFails, ScriptEnds, ConnectionEnds
  <2>4. CASE Verify(d) \/ Close(d) \/ Audit(d)
    BY <2>4 DEF Verify, Close, Audit
  <2> QED
    BY <1>1, <2>1, <2>2, <2>3, <2>4 DEF CallStep
<1>2. CASE ~\E d \in Calls : CallStep(d)
  BY <1>2 DEF Next, vars, CreatePlan, Confirm, ConfirmExpired, DetachedScriptEnds, Resolve,
              BeginActivation, SaveActivation, RestartCore, Crash, Boot
<1> QED
  BY <1>1, <1>2

\* The constants of the ledger and its induction, for this module's state.
LEMMA LedgerKept ==
    ASSUME TypeOK, CallsKnown, L!IndInv, L!LiveRecorded, [Next]_vars
    PROVE  L!IndInv' /\ L!LiveRecorded' /\ doc' \in Document
<1>1. [L!Next]_(L!vars)
  BY StepRefines
<1>2. L!IndInv'
  BY <1>1, L!IndInvInductive, LedgerAssumptions
<1>3. L!LiveRecorded'
  BY <1>1, L!LiveRecordedKept, LedgerAssumptions
<1> QED
  BY <1>2, <1>3 DEF L!IndInv, L!TypeOK, L!Document, L!Operation, L!Statuses,
                    Document, Operation, Statuses

\* A script that the program has not given up keeps its hold on the ledger.
LEMMA RemoteKept ==
    ASSUME IndInv, [Next]_vars
    PROVE  RemoteAccounted'
<1> SUFFICES ASSUME NEW c \in remote', c \notin acknowledged', c \notin lost'
             PROVE  pc'[c] \in {"executing", "gone"} /\ L!Holds(doc', c)
  BY DEF RemoteAccounted
<1>1. c \notin acknowledged /\ c \notin lost
  BY ScriptAppears DEF IndInv
<1>2. CASE c \in remote
  <2>1. pc[c] \in {"executing", "gone"} /\ L!Holds(doc, c) /\ c \in Ids
    BY <1>1, <1>2 DEF IndInv, RemoteAccounted, TypeOK, Calls
  <2>2. \/ pc'[c] = pc[c]
        \/ pc'[c] = "gone" /\ UNCHANGED doc
    BY <1>2, <2>1, ScriptStays DEF IndInv
  <2>3. \/ L!Holds(doc', c)
        \/ /\ c \in {d \in Calls : pc[d] \in Working}
           /\ c \notin {d \in Calls : pc'[d] \in Working}
           /\ doc' # doc
    BY <2>1, StepRefines, L!HoldsStep, LedgerAssumptions DEF IndInv
  <2> QED
    BY <2>1, <2>2, <2>3
<1>3. CASE c \notin remote
  <2>1. pc[c] = "resolving" /\ pc'[c] = "executing" /\ doc' = doc
    BY <1>3, ScriptAppears DEF IndInv
  <2>2. c \in {d \in Calls : pc[d] \in Working}
    BY <1>3, <2>1, ScriptAppears DEF IndInv, Working
  <2>3. L!Holds(doc, c)
    BY <1>1, <2>2, L!LiveHolds, LedgerAssumptions DEF IndInv
  <2> QED
    BY <2>1, <2>3
<1> QED
  BY <1>2, <1>3

-----------------------------------------------------------------------------
(* The theorems. *)

LEMMA InitIndInv == Init => IndInv
<1> SUFFICES ASSUME Init PROVE IndInv
  OBVIOUS
<1>1. L!Init /\ {c \in Calls : pc[c] \in Working} = {}
  BY SameChanges DEF Init, L!Init, Working
<1>2. L!IndInv
  BY <1>1, L!InitIndInv, LedgerAssumptions
<1>3. L!LiveRecorded
  BY <1>1 DEF L!LiveRecorded
<1>4. TypeOK
  <2>1. doc \in Document
    BY <1>2 DEF L!IndInv, L!TypeOK, L!Document, L!Operation, L!Statuses,
                Document, Operation, Statuses
  <2>2. plans \in [Plans -> [core: 1 .. MaxCores, status: PlanStatuses,
                             digest: Calls \cup {None}]]
    BY ControlBounds DEF Init, PlanStatuses
  <2>3. call \in [Calls -> [plan: Plans \cup {None}, core: 1 .. MaxCores,
                            digest: Calls \cup {None}, bound: Targets \cup {None},
                            ran: Targets \cup {None}, outcome: {"succeeded", "failed"}]]
    BY ControlBounds DEF Init
  <2>4. pc \in [Calls -> Stages] /\ running \in [1 .. MaxCores -> Calls \cup {None}]
    BY DEF Init, Stages
  <2>5. epoch \in 1 .. MaxCores /\ {crashes, switches, faults} \subseteq Nat
    BY ControlBounds DEF Init
  <2> QED
    BY <2>1, <2>2, <2>3, <2>4, <2>5 DEF Init, TypeOK
<1>5. CallsKnown
  BY DEF Init, CallsKnown, Working, Confirming
<1> QED
  BY <1>2, <1>3, <1>4, <1>5 DEF Init, IndInv, RemoteAccounted

LEMMA IndInvInductive == IndInv /\ [Next]_vars => IndInv'
BY TypesKept, CallsKnownKept, LedgerKept, RemoteKept DEF IndInv

\* The calls, the ledger and the scripts stay in step.
THEOREM ControlInvariant == Spec => []IndInv
<1> QED
  BY InitIndInv, IndInvInductive, PTL DEF Spec

\* Every variable of service control keeps its type.
THEOREM ControlTypeCorrect == Spec => []TypeOK
<1>1. IndInv => TypeOK
  BY DEF IndInv
<1> QED
  BY <1>1, ControlInvariant, PTL

\* While a script runs that the program has not given up and no person has
\* resolved, the ledger refuses new work: through restarts, crashes, lost ledger
\* calls and whatever the other tasks do.
THEOREM WorkBlocks == Spec => []RemoteWorkBlocks
<1>1. IndInv => RemoteWorkBlocks
  <2> SUFFICES ASSUME IndInv, NEW c \in remote, c \notin acknowledged \cup lost
               PROVE  Blocked(doc)
    BY DEF RemoteWorkBlocks
  <2>1. c \in Ids /\ L!Holds(doc, c)
    BY DEF IndInv, RemoteAccounted, TypeOK, Calls
  <2> QED
    BY <2>1, L!HolderBlocks, LedgerAssumptions, SameChanges DEF IndInv
<1> QED
  BY <1>1, ControlInvariant, PTL

\* Two scripts run at once only when a person has declared one of them over or
\* the ssh client of one has ended before it.
THEOREM Exclusion == Spec => []ExclusiveExecution
<1>1. IndInv => ExclusiveExecution
  <2> SUFFICES ASSUME IndInv, NEW c \in remote \ (acknowledged \cup lost),
                      NEW d \in remote \ (acknowledged \cup lost)
               PROVE  c = d
    BY DEF ExclusiveExecution
  <2>1. c \in Ids /\ d \in Ids /\ L!Holds(doc, c) /\ L!Holds(doc, d)
    BY DEF IndInv, RemoteAccounted, TypeOK, Calls
  <2> QED
    BY <2>1, L!HolderIsUnique, LedgerAssumptions DEF IndInv
<1> QED
  BY <1>1, ControlInvariant, PTL

\* Without a lost ledger call, the lease of a running process is its task's: only
\* the task's own last call and the start of a core end either, and they give the
\* lease back.
LeaseOwned ==
    up /\ doc.lease # NoLease /\ faults = 0 =>
        doc.lease \in Calls /\ pc[doc.lease] \in Working

\* A completion is never refused to the task that holds the lease.
LEMMA OwnerMayClose ==
    ASSUME IndInv, NEW c \in Calls, doc.lease = c
    PROVE  CanTransition(doc, c)
<1>1. L!Recorded(doc, c) /\ L!Entry(doc, c).status = "running"
  BY NoLeaseAssumption DEF IndInv, L!IndInv, L!LeaseInFlight, Calls
<1> QED
  BY <1>1, SameChanges DEF CanTransition, Entry, L!Entry, Position, L!Position

\* A step that leaves the ledger's lease alone and no working task without work.
LEMMA LeaseUntouched ==
    ASSUME LeaseOwned, up' => up, doc'.lease = doc.lease, faults' = 0 => faults = 0,
           \A d \in Calls : pc[d] \in Working /\ d = doc.lease => pc'[d] \in Working
    PROVE  LeaseOwned'
BY DEF LeaseOwned

\* A call's own steps keep the lease with its task.
LEMMA CallKeepsLease ==
    ASSUME IndInv, LeaseOwned, NEW c \in Calls, CallStep(c)
    PROVE  LeaseOwned'
<1>1. pc \in [Calls -> Stages] /\ faults \in Nat /\ doc \in Document
  BY DEF IndInv, TypeOK
<1>2. UNCHANGED <<up, epoch>> /\ (UNCHANGED faults \/ faults' = faults + 1)
  BY CallStepTypes DEF IndInv
<1>3. faults' = 0 => faults = 0 /\ faults' = faults
  BY <1>1, <1>2
<1>4. CASE Recheck(c) \/ Bind(c) \/ ConfirmFails(c)
  <2>1. pc[c] \notin Working /\ \A d \in Calls : d # c => pc'[d] = pc[d]
    BY <1>1, <1>4 DEF Recheck, Bind, ConfirmFails, Working
  <2>2. UNCHANGED doc
    BY <1>4 DEF Recheck, Bind, ConfirmFails, ledgerVars
  <2> QED
    BY <1>2, <1>3, <2>1, <2>2, LeaseUntouched
<1>5. CASE Start(c)
  <2>1. doc'.lease = c /\ pc'[c] \in Working
    BY <1>1, <1>5 DEF Start, Started, Working
  <2> QED
    BY <2>1 DEF LeaseOwned
<1>6. CASE StartRejected(c)
  <2>1. pc[c] \notin Working /\ \A d \in Calls : d # c => pc'[d] = pc[d]
    BY <1>1, <1>6 DEF StartRejected, Working
  <2>2. UNCHANGED doc \/ faults' # faults
    BY <1>1, <1>6 DEF StartRejected, LedgerFault
  <2>3. CASE faults' = 0
    BY <1>2, <1>3, <2>1, <2>2, <2>3, LeaseUntouched
  <2> QED
    BY <2>3 DEF LeaseOwned
<1>7. CASE Report(c)
  <2>1. \A d \in Calls : pc[d] \in Working => pc'[d] \in Working
    BY <1>1, <1>7 DEF Report, Leave, Working
  <2>2. UNCHANGED doc \/ doc' = Progressed(doc, c)
    BY <1>7 DEF Report
  <2>3. doc'.lease = doc.lease
    BY <1>1, <2>2 DEF Progressed, WithStatus, Document
  <2> QED
    BY <1>2, <1>3, <2>1, <2>3, LeaseUntouched
<1>8. CASE Execute(c) \/ ExecuteFails(c) \/ ScriptEnds(c) \/ ConnectionEnds(c) \/ Verify(c)
  <2>1. \A d \in Calls : pc[d] \in Working => pc'[d] \in Working
    BY <1>1, <1>8 DEF Execute, ExecuteFails, ScriptEnds, ConnectionEnds, Verify, Leave, Working
  <2>2. UNCHANGED doc
    BY <1>8 DEF Execute, ExecuteFails, ScriptEnds, ConnectionEnds, Verify, ledgerVars
  <2> QED
    BY <1>2, <1>3, <2>1, <2>2, LeaseUntouched
<1>9. CASE Close(c)
  <2>1. \A d \in Calls : d # c => pc'[d] = pc[d]
    BY <1>1, <1>9 DEF Close
  <2>2. CASE faults' = 0
    <3>1. UNCHANGED faults
      BY <1>3, <2>2
    <3>2. CASE CanTransition(doc, c)
      <4>1. doc' = Completed(doc, c, call[c].outcome)
        BY <1>1, <1>9, <3>1, <3>2 DEF Close, LedgerFault
      <4>2. doc'.lease = IF doc.lease = c THEN NoLease ELSE doc.lease
        BY <1>1, <4>1 DEF Completed, WithStatus, Document
      <4>3. CASE doc.lease = c
        BY <4>2, <4>3 DEF LeaseOwned
      <4>4. CASE doc.lease # c
        <5>1. doc'.lease = doc.lease
          BY <4>2, <4>4
        <5> QED
          BY <1>2, <1>3, <2>1, <4>4, <5>1, LeaseUntouched
      <4> QED
        BY <4>3, <4>4
    <3>3. CASE ~CanTransition(doc, c)
      <4>1. UNCHANGED doc
        BY <1>1, <1>9, <3>3, <3>1 DEF Close, LedgerFault
      <4>2. doc.lease # c
        BY <3>3, OwnerMayClose
      <4> QED
        BY <1>2, <1>3, <2>1, <4>1, <4>2, LeaseUntouched
    <3> QED
      BY <3>2, <3>3
  <2> QED
    BY <2>2 DEF LeaseOwned
<1>10. CASE Audit(c)
  <2>1. pc[c] \notin Working /\ \A d \in Calls : d # c => pc'[d] = pc[d]
    BY <1>1, <1>10 DEF Audit, Working
  <2>2. UNCHANGED doc
    BY <1>10 DEF Audit, ledgerVars
  <2> QED
    BY <1>2, <1>3, <2>1, <2>2, LeaseUntouched
<1> QED
  BY <1>4, <1>5, <1>6, <1>7, <1>8, <1>9, <1>10 DEF CallStep

\* So does every other step.
LEMMA LeaseKept ==
    ASSUME IndInv, LeaseOwned, [Next]_vars
    PROVE  LeaseOwned'
<1> USE DEF IndInv, TypeOK, LeaseOwned, ledgerVars, coreVars, callVars
<1>1. ASSUME NEW p \in Plans, CreatePlan(p) PROVE LeaseOwned'
  BY <1>1 DEF CreatePlan
<1>2. ASSUME NEW c \in Calls, NEW p \in Plans, Confirm(c, p) \/ ConfirmExpired(c, p)
      PROVE  LeaseOwned'
  BY <1>2 DEF Confirm, ConfirmExpired, Working
<1>3. ASSUME NEW c \in Calls, CallStep(c) PROVE LeaseOwned'
  BY <1>3, CallKeepsLease
<1>4. ASSUME NEW c \in Calls, DetachedScriptEnds(c) PROVE LeaseOwned'
  BY <1>4 DEF DetachedScriptEnds
<1>5. ASSUME NEW c \in Calls, Resolve(c) PROVE LeaseOwned'
  BY <1>5 DEF Resolve, ResolvedByHand, WithStatus, Document
<1>6. ASSUME NEW target \in Targets, BeginActivation(target) PROVE LeaseOwned'
  BY <1>6 DEF BeginActivation
<1>7. CASE SaveActivation
  BY <1>7 DEF SaveActivation
<1>8. CASE RestartCore \/ Boot
  BY <1>8 DEF RestartCore, Boot, Recovered, WithStatus, Document
<1>9. CASE Crash
  BY <1>9 DEF Crash
<1>10. CASE UNCHANGED vars
  BY <1>10 DEF vars
<1> QED
  BY <1>1, <1>2, <1>3, <1>4, <1>5, <1>6, <1>7, <1>8, <1>9, <1>10 DEF Next

\* The ledger mirrors the work that goes on: closed while a script runs that is
\* not given up, and never leased without a task in a running process.
THEOREM LedgerFollowsWork == Spec => []LedgerMirrorsWork
<1>1. Init => LeaseOwned
  BY DEF Init, LeaseOwned, EmptyDocument
<1>2. IndInv /\ LeaseOwned /\ [Next]_vars => LeaseOwned'
  BY LeaseKept
<1>3. Spec => []LeaseOwned
  BY <1>1, <1>2, ControlInvariant, PTL DEF Spec
<1>4. LeaseOwned /\ RemoteWorkBlocks => LedgerMirrorsWork
  BY DEF LeaseOwned, LeaseHasTask, LedgerMirrorsWork
<1> QED
  BY <1>3, <1>4, WorkBlocks, PTL

\* The ledger named in ServiceControl and the one named here are the same.
LEMMA SameLedger ==
    /\ Ledger!Init <=> L!Init
    /\ Ledger!vars = L!vars
    /\ Ledger!Next <=> L!Next
<1>1. Ledger!Init <=> L!Init
  BY DEF Ledger!Init, L!Init, Ledger!EmptyDocument, L!EmptyDocument,
         Ledger!MigrationBlockDocument, L!MigrationBlockDocument
<1>2. Ledger!vars = L!vars
  BY DEF Ledger!vars, L!vars
<1>3. Ledger!Recover <=> L!Recover
  BY DEF Ledger!Recover, L!Recover, Ledger!CanRecover, L!CanRecover, Ledger!Recovered,
         L!Recovered, Ledger!Recorded, L!Recorded, Ledger!WithStatus, L!WithStatus,
         Ledger!Position, L!Position
<1>4. Ledger!Crash <=> L!Crash
  BY DEF Ledger!Crash, L!Crash
<1>5. \A c, x : Ledger!Start(c, x) <=> L!Start(c, x)
  BY DEF Ledger!Start, L!Start, Ledger!CanStart, L!CanStart, Ledger!Started, L!Started,
         Ledger!Recorded, L!Recorded, Ledger!Blocked, L!Blocked, Ledger!AwaitsManual,
         L!AwaitsManual, Ledger!Trimmed, L!Trimmed, Ledger!NewOperation, L!NewOperation
<1>6. \A c : Ledger!Progress(c) <=> L!Progress(c)
  BY DEF Ledger!Progress, L!Progress, Ledger!CanTransition, L!CanTransition,
         Ledger!Progressed, L!Progressed, Ledger!Recorded, L!Recorded, Ledger!Entry, L!Entry,
         Ledger!WithStatus, L!WithStatus, Ledger!Position, L!Position
<1>7. \A c, s : Ledger!Complete(c, s) <=> L!Complete(c, s)
  BY DEF Ledger!Complete, L!Complete, Ledger!CanTransition, L!CanTransition,
         Ledger!Completed, L!Completed, Ledger!Recorded, L!Recorded, Ledger!Entry, L!Entry,
         Ledger!WithStatus, L!WithStatus, Ledger!Position, L!Position
<1>8. \A c : Ledger!ResolveManual(c) <=> L!ResolveManual(c)
  BY DEF Ledger!ResolveManual, L!ResolveManual, Ledger!CanResolve, L!CanResolve,
         Ledger!ResolvedByHand, L!ResolvedByHand, Ledger!Recorded, L!Recorded,
         Ledger!Entry, L!Entry, Ledger!WithStatus, L!WithStatus, Ledger!Position, L!Position
<1>9. Ledger!Next <=> L!Next
  BY <1>3, <1>4, <1>5, <1>6, <1>7, <1>8, Zenon DEF Ledger!Next, L!Next
<1> QED
  BY <1>1, <1>2, <1>9

\* Service control, with its restarts, crashes and late tasks, uses the ledger
\* only as OperationLedger describes.
THEOREM ImplementsLedger == Spec => LedgerCalls
<1>1. Init => Ledger!Init
  BY SameChanges, SameLedger DEF Init, L!Init, Working
<1>2. IndInv /\ [Next]_vars => [Ledger!Next]_(Ledger!vars)
  BY StepRefines, SameLedger DEF IndInv, Ledger!vars, L!vars
<1>3. Spec => Ledger!Spec
  BY <1>1, <1>2, ControlInvariant, PTL DEF Spec, Ledger!Spec
<1> QED
  BY <1>3 DEF LedgerCalls
=============================================================================
