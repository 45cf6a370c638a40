---------------------------- MODULE ControlPages ----------------------------
(***************************************************************************)
(* The window (frontend App.tsx): one page is mounted at a time, and what  *)
(* a page holds is gone when it is left.  The overview and the models page *)
(* plan and confirm changes of the same core.                              *)
(***************************************************************************)
EXTENDS OverviewPage, ModelsPage

CONSTANTS
    MaxVisits,  \* bound: pages opened
    LateModels  \* bound: is the models page opened after another one?

ASSUME VisitBounds == MaxVisits \in Nat /\ LateModels \in BOOLEAN

VARIABLE visits

vars == <<callVars, overviewVars, modelsVars, visits>>

Init == CallsInit /\ OverviewInit /\ ModelsInit /\ visits = 0

\* The calls of a page that is left: only a confirmation can still change the
\* core.
LeftBehind ==
    LET kept == {c \in BagToSet(calls) : c.ask = "confirm"}
    IN  BagOfAll(LAMBDA c : [c EXCEPT !.from = "left"], [c \in kept |-> calls[c]])

\* navigate, and the buttons back and forward: the old page is unmounted and
\* the new one mounted.
Open(next) ==
    /\ page # next /\ visits < MaxVisits
    /\ next = "models" => visits = 0 \/ LateModels
    /\ visits' = IF next = "other" THEN visits ELSE visits + 1
    /\ page' = next
    /\ calls' = LeftBehind
    /\ CASE page = "overview" -> OverviewCloses
         [] next = "overview" -> OverviewOpens
         [] OTHER -> UNCHANGED overviewVars
    /\ CASE page = "models" -> ModelsCloses
         [] next = "models" -> ModelsOpens
         [] OTHER -> UNCHANGED modelsVars
    /\ UNCHANGED <<plans, registered, installed, restarts>>

User ==
    \/ UserOfOverview /\ UNCHANGED <<modelsVars, visits>>
    \/ UserOfModels /\ UNCHANGED <<overviewVars, visits>>
    \/ \E next \in Pages : Open(next)

Core == CoreStep /\ UNCHANGED <<overviewVars, modelsVars, visits>>

Arrives(c) ==
    \/ AnswerToOverview(c) /\ UNCHANGED <<modelsVars, visits>>
    \/ AnswerToModels(c) /\ UNCHANGED <<overviewVars, visits>>
    \/ AnswersNobody(c) /\ UNCHANGED <<overviewVars, modelsVars, visits>>

Polling(m) == MonitorStep(m) /\ UNCHANGED <<modelsVars, visits>>
GivingUp(m) == PollingEnds(m) /\ UNCHANGED <<modelsVars, visits>>

Next ==
    \/ User
    \/ Core
    \/ \E c \in BagToSet(calls) : Arrives(c)
    \/ \E m \in BagToSet(monitors) : Polling(m) \/ GivingUp(m)

Spec == Init /\ [][Next]_vars

\* Operations end and the loops that poll them go on.
OperationGoesOn(p) ==
    p <= Len(plans) /\ OperationEnds(p) /\ UNCHANGED <<overviewVars, modelsVars, visits>>

Fairness ==
    /\ \A p \in PlanIds : WF_vars(OperationGoesOn(p))
    /\ \A m \in Monitors : WF_vars(m \in BagToSet(monitors) /\ Polling(m))

FairSpec == Spec /\ Fairness

-----------------------------------------------------------------------------
(* Properties. *)

\* "other service operations are resumed when it has completed"
\* (Overview.tsx:454, said while the controls are disabled).
ControlsReturn ==
    \A p \in PlanIds : (ShownRunning(p) /\ IsOver(plans[p].state)) ~> ~ShownRunning(p)

=============================================================================
