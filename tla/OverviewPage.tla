---------------------------- MODULE OverviewPage ----------------------------
(***************************************************************************)
(* The overview's service controls (frontend pages/Overview.tsx): the      *)
(* dialog that plans, confirms and follows one operation, the operation    *)
(* that was moved to the background, whose number outlives the page in     *)
(* sessionStorage, and the loops that poll operations.                     *)
(*                                                                         *)
(* The core reads an operation without an await, and the desktop bridge    *)
(* keeps the order of such answers: a poll and its answer are one step.    *)
(* The wait for refreshAll is a step of its own.  State that is set after  *)
(* the page was left is dropped; its loops and its calls go on.            *)
(***************************************************************************)
EXTENDS ControlCalls

VARIABLES
    action,      \* the dialog, or None
    background,  \* the operation in the background as last seen, or None
    stored,      \* its number in sessionStorage, or 0
    monitors,    \* a bag: the polling loops
    failed       \* history: plans whose confirmation is known to have failed

overviewVars == <<action, background, stored, monitors, failed>>

Operations == [id : PlanIds, status : {"running", "succeeded", "failed"}]
Dialogs == [service : Services, name : Actions, planning : BOOLEAN, plan : 0..MaxPlans,
            operation : Operations \cup {None}, error : BOOLEAN, reverify : BOOLEAN]
Monitors == [op : PlanIds, here : BOOLEAN, at : {"waiting", "refreshing"}]

Dialog(service, name) ==
    [service |-> service, name |-> name, planning |-> FALSE, plan |-> 0,
     operation |-> None, error |-> FALSE, reverify |-> FALSE]

\* null is no operation.
ASSUME NoneIsNoOperation == None \notin Operations

Running(operation) == operation # None /\ operation.status = "running"
DialogRuns == action # None /\ Running(action.operation)

\* Slip: an operation in the background is forgotten.
BusyInDialog == action # None /\ (action.planning \/ DialogRuns)

\* controlsBusy: the buttons of all services are disabled.
ControlsBusy == (action # None /\ action.planning) \/ DialogRuns \/ Running(background)

OverviewInit ==
    /\ action = None /\ background = None /\ stored = 0 /\ monitors = EmptyBag
    /\ failed = {}

-----------------------------------------------------------------------------
(* Planning. *)

BeginAction(service, name) ==
    /\ action' = [Dialog(service, name) EXCEPT !.planning = TRUE]
    /\ Send("plan", KindOf(service), service, name, 0)
    /\ UNCHANGED <<coreVars, background, stored, monitors, failed>>

\* A button of a service card.
ClickAction(service, name) ==
    /\ page = "overview" /\ ~ControlsBusy
    /\ service \in Local \/ (service \in registered /\ name \in ManagedActions)
    /\ BeginAction(service, name)

\* Slip: any dialog takes the answer.
FitsAny(c) == action # None

\* The dialog is still about what the call c asked for.
FitsDialog(c) == action # None /\ action.service = c.subject /\ action.name = c.name

PlanArrives(c, result) ==
    /\ c.ask = "plan"
    /\ Take(c)
    /\ action' = IF ~FitsDialog(c) THEN action
                 ELSE IF result = "ok" THEN [action EXCEPT !.planning = FALSE, !.plan = NewPlan]
                 ELSE [action EXCEPT !.planning = FALSE, !.error = TRUE,
                                     !.reverify = (result = "reverify")]
    /\ UNCHANGED <<background, stored, monitors, failed>>

-----------------------------------------------------------------------------
(* Confirming. *)

\* The dialog's main button is enabled.
CanSubmit ==
    /\ page = "overview" /\ action # None
    /\ ~action.planning /\ action.plan # 0 /\ action.operation = None /\ ~action.reverify

\* Slip: the button confirms whatever happened before.
ConfirmsAlways == TRUE

\* After an error the button makes a new plan.
ConfirmsPlan == ~action.error

Replan ==
    /\ CanSubmit /\ ~ConfirmsPlan
    /\ BeginAction(action.service, action.name)

\* The button stays enabled while the confirmation is under way.
ClickConfirm ==
    /\ CanSubmit /\ ConfirmsPlan
    /\ Send("confirm", KindOf(action.service), action.service, action.name, action.plan)
    /\ UNCHANGED <<coreVars, overviewVars>>

\* A loop for the operation o.
Watch(o) == BagAdd(monitors, [op |-> o, here |-> TRUE, at |-> "waiting"])

\* A local operation was started: the dialog follows it if it still holds its
\* plan, and it is polled in either case.
Started(c) ==
    /\ action' = IF action # None /\ action.plan = c.plan
                 THEN [action EXCEPT !.operation = [id |-> c.plan, status |-> "running"]]
                 ELSE action
    /\ monitors' = Watch(c.plan)
    /\ UNCHANGED failed

\* A managed operation was submitted: the dialog is closed, whichever it is.
Submitted ==
    /\ action' = None
    /\ UNCHANGED <<monitors, failed>>

\* The error shows in the dialog that is open; a plan that may describe another
\* connection is dropped.
ConfirmationFailed(c, needsReverification) ==
    /\ action' = IF action = None THEN None
                 ELSE [action EXCEPT !.error = TRUE, !.reverify = needsReverification,
                                     !.plan = IF needsReverification THEN 0 ELSE @]
    /\ failed' = failed \cup {c.plan}
    /\ UNCHANGED monitors

ConfirmationArrives(c, result) ==
    /\ c.ask = "confirm"
    /\ Take(c)
    /\ CASE result # "ok" -> ConfirmationFailed(c, result = "reverify")
         [] result = "ok" /\ c.kind = "managed" -> Submitted
         [] OTHER -> Started(c)
    /\ UNCHANGED <<background, stored>>

-----------------------------------------------------------------------------
(* Following an operation. *)

DialogShows(o) == action # None /\ action.operation # None /\ action.operation.id = o
InBackground(o) == background # None /\ background.id = o

\* What the page shows of the operation o takes a new status.
ShowStatus(o, status) ==
    /\ action' = IF DialogShows(o) THEN [action EXCEPT !.operation.status = status] ELSE action
    /\ background' = IF InBackground(o) THEN [background EXCEPT !.status = status] ELSE background

IsOver(status) == status \in {"succeeded", "failed"}

\* getLocalControlOperation answers after two seconds.
Poll(m) ==
    /\ m.at = "waiting" /\ plans[m.op].state # "lost"
    /\ IF m.here THEN ShowStatus(m.op, plans[m.op].state) ELSE UNCHANGED <<action, background>>
    /\ monitors' = IF IsOver(plans[m.op].state)
                   THEN BagAdd(BagRemove(monitors, m), [m EXCEPT !.at = "refreshing"])
                   ELSE monitors
    /\ UNCHANGED <<callVars, stored, failed>>

\* A loop ends before the operation does.  Only a dialog shows it.
StopWatching(m) ==
    /\ monitors' = BagRemove(monitors, m)
    /\ action' = IF m.here /\ DialogShows(m.op) THEN [action EXCEPT !.error = TRUE] ELSE action
    /\ UNCHANGED <<callVars, background, stored, failed>>

\* The core no longer knows the operation.
PollFails(m) ==
    /\ m.at = "waiting" /\ plans[m.op].state = "lost"
    /\ StopWatching(m)

\* 900 polls have not seen the end.
PollingEnds(m) ==
    /\ m.at = "waiting" /\ plans[m.op].state = "running" /\ plans[m.op].name \in LongActions
    /\ StopWatching(m)

\* Slip: whatever is stored is removed.
ForgetsAny(m) == TRUE

\* sessionStorage holds the operation of this loop.
Forgets(m) == stored = m.op

\* The page has been refreshed after the end of an operation.
Refreshed(m) ==
    /\ m.at = "refreshing"
    /\ monitors' = BagRemove(monitors, m)
    /\ action' = IF m.here /\ DialogShows(m.op) THEN None ELSE action
    /\ background' = IF m.here /\ InBackground(m.op) THEN None ELSE background
    /\ stored' = IF Forgets(m) THEN 0 ELSE stored
    /\ UNCHANGED <<callVars, failed>>

\* moveOperationToBackground; a new number in the background starts a loop.
MoveToBackground ==
    /\ page = "overview" /\ DialogRuns
    /\ stored' = action.operation.id
    /\ background' = action.operation
    /\ monitors' = IF InBackground(action.operation.id) THEN monitors
                   ELSE Watch(action.operation.id)
    /\ action' = None
    /\ UNCHANGED <<callVars, failed>>

\* showBackgroundOperation
ShowBackground ==
    /\ page = "overview" /\ background # None
    /\ action' = [Dialog(plans[background.id].subject, plans[background.id].name)
                    EXCEPT !.operation = background]
    /\ UNCHANGED <<callVars, background, stored, monitors, failed>>

-----------------------------------------------------------------------------
(* The other buttons of the dialog, and the page itself. *)

\* The dialog cannot be closed while its operation runs.
Cancel ==
    /\ page = "overview" /\ action # None /\ ~DialogRuns
    /\ action' = None
    /\ UNCHANGED <<callVars, background, stored, monitors, failed>>

\* reverifyActiveConnection; the button is disabled until it is over.
Reverify ==
    /\ page = "overview" /\ action # None /\ action.reverify
    /\ \A c \in Mine : c.ask # "verify"
    /\ Send("verify", None, None, None, 0)
    /\ UNCHANGED <<coreVars, overviewVars>>

\* A verified connection closes the dialog, whichever it is.
VerificationArrives(c, result) ==
    /\ c.ask = "verify"
    /\ Take(c)
    /\ action' = IF action = None \/ result = "ok" THEN None ELSE [action EXCEPT !.error = TRUE]
    /\ UNCHANGED <<background, stored, monitors, failed>>

\* Slip: what was in the background is shown, but not polled.
ShownOnly(o) == monitors

\* The effect on the operation in the background resumes its observation.
Resume(o) == Watch(o)

\* The page is opened: it reads sessionStorage.
OverviewOpens ==
    /\ background' = IF stored = 0 THEN None ELSE [id |-> stored, status |-> "running"]
    /\ monitors' = IF stored = 0 THEN monitors ELSE Resume(stored)
    /\ UNCHANGED <<action, stored, failed>>

OverviewCloses ==
    /\ action' = None /\ background' = None
    /\ monitors' = BagOfAll(LAMBDA m : [m EXCEPT !.here = FALSE], monitors)
    /\ UNCHANGED <<stored, failed>>

UserOfOverview ==
    \/ \E s \in Services, a \in Actions : ClickAction(s, a)
    \/ Replan \/ ClickConfirm \/ MoveToBackground \/ ShowBackground \/ Cancel \/ Reverify

AnswerToOverview(c) ==
    /\ c.from = page /\ page = "overview"
    /\ \E result \in {"ok", "refused", "reverify"} :
         /\ CoreAnswers(c, result)
         /\ PlanArrives(c, result) \/ ConfirmationArrives(c, result) \/ VerificationArrives(c, result)
    /\ UNCHANGED <<page, restarts>>

MonitorStep(m) == Poll(m) \/ PollFails(m) \/ Refreshed(m)

OverviewTypeOK ==
    /\ action \in Dialogs \cup {None}
    /\ background \in Operations \cup {None}
    /\ stored \in 0..MaxPlans
    /\ IsABag(monitors) /\ BagToSet(monitors) \subseteq Monitors
    /\ failed \subseteq PlanIds

-----------------------------------------------------------------------------
(* Properties. *)

\* The dialog never shows the plan or the operation of another service or
\* action, however late answers arrive (Overview.tsx beginAction, confirmAction).
DialogFits ==
    action # None =>
      \A p \in {action.plan} \cup (IF action.operation = None THEN {} ELSE {action.operation.id}) :
        p # 0 => plans[p].subject = action.service /\ plans[p].name = action.name

Confirmed(p) ==
    \E c \in BagToSet(calls' (-) calls) : c.from = "overview" /\ c.ask = "confirm" /\ c.plan = p

\* "A failed confirmation must never be retried against the old plan"
\* (Overview.tsx confirmAction), with confirmations that overlap, dialogs that
\* are closed and opened again and failures that arrive in another dialog.
FailedNotRetried ==
    [][\A p \in PlanIds : Confirmed(p) => p \notin failed]_<<callVars, overviewVars>>

\* No confirmation is sent while the page shows an operation that runs, in the
\* dialog or in the background (Overview.tsx controlsBusy).
NoConfirmWhileBusy ==
    [][(\E p \in PlanIds : Confirmed(p)) => ~DialogRuns /\ ~Running(background)]_<<callVars, overviewVars>>

\* The overview shows that the operation p runs.
ShownRunning(p) ==
    /\ page = "overview"
    /\ \/ DialogRuns /\ action.operation.id = p
       \/ Running(background) /\ background.id = p

\* An operation that is shown as running is polled until a loop gives up on it:
\* the core forgot it, or it took too long.  The dialog, the background and a
\* page that is opened again pass it on to one another (Overview.tsx: "Re-entering
\* the overview resumes observation").
ShownIsFollowed ==
    \A p \in PlanIds : ShownRunning(p) =>
        \/ \E m \in BagToSet(monitors) : m.here /\ m.op = p
        \/ plans[p].state = "lost" \/ plans[p].name \in LongActions

\* An operation in the background is remembered beyond the page until it has
\* ended, although loops of earlier operations and of pages that were left may
\* still remove what is stored (Overview.tsx monitorOperation).
BackgroundSurvives ==
    [][stored # 0 /\ stored' # stored => IsOver(plans[stored].state)]_<<callVars, overviewVars>>

=============================================================================
