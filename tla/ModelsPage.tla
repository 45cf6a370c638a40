----------------------------- MODULE ModelsPage -----------------------------
(***************************************************************************)
(* The plans of the models page (frontend pages/Models.tsx): registration  *)
(* of drafts, actions of managed services, and the NVFP4 parameters with   *)
(* their adapter.  Each panel keeps its plan until a confirmation          *)
(* succeeds, and nothing else takes it away while the page is open.        *)
(*                                                                         *)
(* A flag like parameterBusy is set when a call is sent and cleared when   *)
(* its answer arrives: it is the fact that such a call is under way.  The  *)
(* flags that hold a number are variables, for a second call overwrites    *)
(* the first one's.                                                        *)
(***************************************************************************)
EXTENDS ControlCalls

VARIABLES
    known,            \* drafts that are shown as registered
    eligible,         \* drafts whose precheck allows their registration
    registrationPlan, \* per draft: its plan, or 0
    managedPlan,      \* per managed service: its plan, or 0
    creating,         \* creatingPlanId: a draft, or None
    confirming,       \* confirmingPlanId, confirmingManagedPlanId: plans, or 0
    target,           \* are the NVFP4 parameters selected?
    adapter,          \* is the adapter shown as installed?
    reviewed,         \* is a review with changes shown?
    adapterPlan,      \* parameterAdapterPlan, or 0
    parameterPlan,    \* an apply or a rollback plan, or 0
    applied           \* parameterOperation while it can be rolled back, or 0

panelVars == <<registrationPlan, managedPlan, creating, confirming>>
draftVars == <<known, eligible>>
parameterVars == <<target, adapter, reviewed, adapterPlan, parameterPlan, applied>>
modelsVars == <<draftVars, panelVars, parameterVars>>

ModelsInit ==
    /\ known = {} /\ eligible = {}
    /\ registrationPlan = [d \in Drafts |-> 0] /\ managedPlan = [d \in Drafts |-> 0]
    /\ creating = None /\ confirming = [registration |-> 0, managed |-> 0]
    /\ target = FALSE /\ adapter = FALSE /\ reviewed = FALSE
    /\ adapterPlan = 0 /\ parameterPlan = 0 /\ applied = 0

UnderWay(kinds) == \E c \in Mine : c.kind \in kinds

-----------------------------------------------------------------------------
(* Drafts and their registration. *)

\* The call c is followed by the next one of beginServiceOnboarding.
GoOn(c, ask) ==
    calls' = BagAdd(BagRemove(calls, c), [c EXCEPT !.ask = ask])

\* beginServiceOnboarding saves the draft, or finds it; savingDraft.
Onboard(d) ==
    /\ page = "models" /\ ~UnderWay({"onboarding"})
    /\ Send("draft", "onboarding", d, None, 0)
    /\ UNCHANGED <<coreVars, modelsVars>>

\* The draft takes the status it had in the answer; a new one is prechecked.
DraftArrives(c, result) ==
    /\ c.ask = "draft"
    /\ IF result = "ok" THEN GoOn(c, "precheck") ELSE Take(c)
    /\ known' = CASE result = "found" -> known \cup {c.subject}
                 [] result = "ok" -> known \ {c.subject}
                 [] OTHER -> known
    /\ UNCHANGED <<eligible, panelVars, parameterVars>>

\* precheckDraft
Precheck(d) ==
    /\ page = "models" /\ d \notin known
    /\ \A c \in Mine : ~(c.ask = "precheck" /\ c.kind = "registration")
    /\ Send("precheck", "registration", d, None, 0)
    /\ UNCHANGED <<coreVars, modelsVars>>

\* Onboarding goes on with a plan if the precheck allows it.
PrecheckArrives(c, result) ==
    /\ c.ask = "precheck"
    /\ IF result = "found" /\ c.kind = "onboarding" THEN GoOn(c, "plan") ELSE Take(c)
    /\ eligible' = CASE result = "found" -> eligible \cup {c.subject}
                    [] result = "ok" -> eligible \ {c.subject}
                    [] OTHER -> eligible
    /\ UNCHANGED <<known, panelVars, parameterVars>>

\* createRegistrationPlan
CreateRegistrationPlan(d) ==
    /\ page = "models" /\ d \in eligible \ known
    /\ registrationPlan[d] = 0 /\ creating # d
    /\ creating' = d
    /\ Send("plan", "registration", d, None, 0)
    /\ UNCHANGED <<coreVars, draftVars, registrationPlan, managedPlan, confirming, parameterVars>>

RegistrationPlanArrives(c, result) ==
    /\ c.ask = "plan" /\ c.kind \in {"registration", "onboarding"}
    /\ Take(c)
    /\ registrationPlan' = IF result = "ok" THEN [registrationPlan EXCEPT ![c.subject] = NewPlan]
                           ELSE registrationPlan
    /\ creating' = IF c.kind = "registration" THEN None ELSE creating
    /\ UNCHANGED <<draftVars, managedPlan, confirming, parameterVars>>

\* confirmRegistration
ConfirmRegistration(d) ==
    /\ page = "models" /\ d \notin known
    /\ registrationPlan[d] \notin {0, confirming.registration}
    /\ confirming' = [confirming EXCEPT !.registration = registrationPlan[d]]
    /\ Send("confirm", "registration", d, None, registrationPlan[d])
    /\ UNCHANGED <<coreVars, draftVars, registrationPlan, managedPlan, creating, parameterVars>>

RegistrationArrives(c, result) ==
    /\ c.ask = "confirm" /\ c.kind = "registration"
    /\ Take(c)
    /\ known' = IF result = "ok" THEN known \cup {c.subject} ELSE known
    /\ registrationPlan' = IF result = "ok" THEN [registrationPlan EXCEPT ![c.subject] = 0]
                           ELSE registrationPlan
    /\ confirming' = [confirming EXCEPT !.registration = 0]
    /\ UNCHANGED <<eligible, managedPlan, creating, parameterVars>>

-----------------------------------------------------------------------------
(* Actions of managed services. *)

\* planManagedAction: offered while the service has no plan.
PlanManagedAction(d, name) ==
    /\ page = "models" /\ d \in known /\ name \in ManagedActions /\ managedPlan[d] = 0
    /\ Send("plan", "managed", d, name, 0)
    /\ UNCHANGED <<coreVars, modelsVars>>

ManagedPlanArrives(c, result) ==
    /\ c.ask = "plan" /\ c.kind = "managed"
    /\ Take(c)
    /\ managedPlan' = IF result = "ok" THEN [managedPlan EXCEPT ![c.subject] = NewPlan]
                      ELSE managedPlan
    /\ UNCHANGED <<draftVars, registrationPlan, creating, confirming, parameterVars>>

\* confirmManagedAction
ConfirmManagedAction(d) ==
    /\ page = "models" /\ d \in known
    /\ managedPlan[d] \notin {0, confirming.managed}
    /\ confirming' = [confirming EXCEPT !.managed = managedPlan[d]]
    /\ Send("confirm", "managed", d, None, managedPlan[d])
    /\ UNCHANGED <<coreVars, draftVars, registrationPlan, managedPlan, creating, parameterVars>>

ManagedActionArrives(c, result) ==
    /\ c.ask = "confirm" /\ c.kind = "managed"
    /\ Take(c)
    /\ managedPlan' = IF result = "ok" THEN [managedPlan EXCEPT ![c.subject] = 0] ELSE managedPlan
    /\ confirming' = [confirming EXCEPT !.managed = 0]
    /\ UNCHANGED <<draftVars, registrationPlan, creating, parameterVars>>

-----------------------------------------------------------------------------
(* NVFP4 parameters. *)

\* Slip: the operation is cleared like the rest of the selection.
ClearedOperation == 0

\* A selection leaves the operation, like the plan, as it is.
OperationAfterSelection == applied

\* selectParameterTarget clears what belongs to a selection, but neither the
\* plan nor the operation, and reads the adapter's status.
SelectTarget(nvfp4) ==
    /\ page = "models" /\ target # nvfp4
    /\ target' = nvfp4
    /\ adapter' = FALSE /\ reviewed' = FALSE /\ adapterPlan' = 0
    /\ applied' = OperationAfterSelection
    /\ IF nvfp4 THEN Send("status", None, None, None, 0) ELSE calls' = calls
    /\ UNCHANGED <<coreVars, draftVars, panelVars, parameterPlan>>

StatusArrives(c, result) ==
    /\ c.ask = "status"
    /\ Take(c)
    /\ adapter' = IF result = "ok" \/ result = "found" THEN result = "found" ELSE adapter
    /\ UNCHANGED <<draftVars, panelVars, target, reviewed, adapterPlan,
                   parameterPlan, applied>>

\* createParameterAdapterDeploymentPlan, confirmParameterAdapterDeployment
DeployAdapter ==
    /\ page = "models" /\ target /\ ~adapter /\ ~UnderWay({"adapter"})
    /\ Send(IF adapterPlan = 0 THEN "plan" ELSE "confirm", "adapter", None, None, adapterPlan)
    /\ UNCHANGED <<coreVars, modelsVars>>

DeploymentArrives(c, result) ==
    /\ c.kind = "adapter"
    /\ Take(c)
    /\ adapterPlan' = IF result # "ok" THEN adapterPlan
                      ELSE IF c.ask = "plan" THEN NewPlan ELSE 0
    /\ adapter' = (adapter \/ (result = "ok" /\ c.ask = "confirm"))
    /\ UNCHANGED <<draftVars, panelVars, target, reviewed, parameterPlan, applied>>

\* reviewParameterDraft
Review ==
    /\ page = "models" /\ target /\ \A c \in Mine : c.ask # "review"
    /\ Send("review", None, None, None, 0)
    /\ UNCHANGED <<coreVars, modelsVars>>

ReviewArrives(c, result) ==
    /\ c.ask = "review"
    /\ Take(c)
    /\ reviewed' = (reviewed \/ result = "ok")
    /\ UNCHANGED <<draftVars, panelVars, target, adapter, adapterPlan,
                   parameterPlan, applied>>

\* parameterBusy
ParameterBusy == UnderWay({"apply", "rollback"})

Parameters == page = "models" /\ target /\ adapter /\ ~ParameterBusy

\* createParameterApplyPlan: with the values typed by now, reviewed or not.
CreateApplyPlan ==
    /\ Parameters /\ parameterPlan = 0 /\ applied = 0 /\ reviewed
    /\ Send("plan", "apply", None, None, 0)
    /\ UNCHANGED <<coreVars, modelsVars>>

\* createRollbackPlan: for the operation that is shown.
CreateRollbackPlan ==
    /\ Parameters /\ parameterPlan = 0 /\ applied # 0
    /\ Send("plan", "rollback", None, None, applied)
    /\ UNCHANGED <<coreVars, modelsVars>>

\* One button: confirmParameterApplyPlan or confirmRollbackPlan, as the plan says.
ConfirmParameters ==
    /\ Parameters /\ parameterPlan # 0
    /\ Send("confirm", plans[parameterPlan].kind, None, None, parameterPlan)
    /\ UNCHANGED <<coreVars, modelsVars>>

\* An operation that was rolled back, or failed, can be followed by a new plan.
ParametersArrive(c, result) ==
    /\ c.kind \in {"apply", "rollback"}
    /\ Take(c)
    /\ parameterPlan' = IF result # "ok" THEN parameterPlan
                        ELSE IF c.ask = "plan" THEN NewPlan ELSE 0
    /\ applied' = IF result # "ok" \/ c.ask = "plan" THEN applied
                  ELSE IF c.kind = "apply" THEN c.plan ELSE 0
    /\ UNCHANGED <<draftVars, panelVars, target, adapter, reviewed, adapterPlan>>

-----------------------------------------------------------------------------
(* The page. *)

\* refreshCatalog reads the drafts.
ModelsOpens ==
    /\ known' = registered
    /\ UNCHANGED <<eligible, panelVars, parameterVars>>

ModelsCloses ==
    /\ known' = {} /\ eligible' = {}
    /\ registrationPlan' = [d \in Drafts |-> 0] /\ managedPlan' = [d \in Drafts |-> 0]
    /\ creating' = None /\ confirming' = [registration |-> 0, managed |-> 0]
    /\ target' = FALSE /\ adapter' = FALSE /\ reviewed' = FALSE
    /\ adapterPlan' = 0 /\ parameterPlan' = 0 /\ applied' = 0

UserOfModels ==
    \/ \E d \in Drafts : \/ Onboard(d) \/ Precheck(d) \/ CreateRegistrationPlan(d) \/ ConfirmRegistration(d)
                         \/ ConfirmManagedAction(d)
                         \/ \E a \in Actions : PlanManagedAction(d, a)
    \/ \E nvfp4 \in BOOLEAN : SelectTarget(nvfp4)
    \/ DeployAdapter \/ Review \/ CreateApplyPlan \/ CreateRollbackPlan \/ ConfirmParameters

AnswerToModels(c) ==
    /\ c.from = page /\ page = "models"
    /\ \E result \in {"ok", "found", "refused"} :
         /\ CoreAnswers(c, result)
         /\ \/ DraftArrives(c, result) \/ PrecheckArrives(c, result)
            \/ RegistrationPlanArrives(c, result) \/ RegistrationArrives(c, result)
            \/ ManagedPlanArrives(c, result) \/ ManagedActionArrives(c, result)
            \/ StatusArrives(c, result) \/ DeploymentArrives(c, result)
            \/ ReviewArrives(c, result) \/ ParametersArrive(c, result)
    /\ UNCHANGED <<page, restarts>>

ModelsTypeOK ==
    /\ known \subseteq Drafts /\ eligible \subseteq Drafts
    /\ {registrationPlan, managedPlan} \subseteq [Drafts -> 0..MaxPlans]
    /\ creating \in Drafts \cup {None}
    /\ confirming \in [registration : 0..MaxPlans, managed : 0..MaxPlans]
    /\ {target, adapter, reviewed} \subseteq BOOLEAN
    /\ {adapterPlan, parameterPlan, applied} \subseteq 0..MaxPlans

-----------------------------------------------------------------------------
(* Properties. *)

\* A rollback plan that is shown undoes the operation that is shown, the last
\* one this page has applied: plan, operation and selection are kept apart and
\* answers may be late (Models.tsx createRollbackPlan, selectParameterTarget).
RollbackUndoesTheLast ==
    parameterPlan # 0 /\ plans[parameterPlan].kind = "rollback" =>
        /\ applied # 0
        /\ plans[parameterPlan].of = applied

=============================================================================
