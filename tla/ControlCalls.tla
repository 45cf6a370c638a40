---------------------------- MODULE ControlCalls ----------------------------
(***************************************************************************)
(* What the pages that plan and confirm changes see of the application     *)
(* core: the calls of the client (api-client.ts) over the desktop bridge   *)
(* (api-bridge.mjs, main.mjs), and the core's plans and operations, which  *)
(* live in its memory only (local-service-control.mjs,                     *)
(* application-core.mjs).                                                  *)
(*                                                                         *)
(* Calls are answered in any order.  The core may have done its part long  *)
(* before, but no page can tell: it is taken to do it when the answer      *)
(* arrives.  A plan is a number, and what it has started is known by the   *)
(* same number.  ServiceControl and ManagedServices model what the core    *)
(* does for one call.                                                      *)
(***************************************************************************)
EXTENDS Naturals, Sequences, FiniteSets, Bags, BagsExt

CONSTANTS
    Local,        \* service cards controlled by the legacy adapter
    Drafts,       \* drafts of managed services: once registered, cards as well
    Actions,      \* "warmup", "restart", "stop"
    LongActions,  \* those that may take longer than a page goes on polling
    ManagedActions, \* those the adapters of managed services declare
    None,         \* null
    MaxPlans,     \* bound: plans ever made
    MaxCalls,     \* bound: calls under way at once
    MaxRestarts   \* bound: restarts of the core

ASSUME CallBounds == {MaxPlans, MaxCalls, MaxRestarts} \subseteq Nat
ASSUME CallSets ==
    LongActions \subseteq Actions /\ ManagedActions \subseteq Actions /\ Local \cap Drafts = {}

Services == Local \cup Drafts
Pages == {"overview", "models", "other"}
Kinds == {"local", "managed", "registration", "adapter", "apply", "rollback"}

\* The models page plans a registration by a button or at the end of onboarding.
CallKinds == Kinds \cup {"onboarding", None}

\* null is none of the kinds by name.
ASSUME NoneIsNoKind == None \notin Kinds \cup {"onboarding"}

\* "gone": forgotten by a restart; "lost": started by a core that has been
\* replaced since.
PlanStates == {"offered", "gone", "running", "succeeded", "failed", "lost"}

VARIABLES
    page,        \* the page that is mounted
    plans,       \* the plans made so far
    registered,  \* drafts that are registered
    installed,   \* is the fixed parameter adapter installed?
    calls,       \* a bag: calls of the pages that are not over
    restarts

coreVars == <<page, plans, registered, installed, restarts>>
callVars == <<page, plans, registered, installed, calls, restarts>>

PlanIds == 1..MaxPlans

\* A call: the page that made it ("left" once that page is gone), what it asks
\* for, and about what: a service or a draft and an action, or a plan.
Calls == [from : {"overview", "models", "left"},
          ask : {"plan", "confirm", "verify", "draft", "review", "precheck", "status"},
          kind : CallKinds, subject : Services \cup {None},
          name : Actions \cup {None}, plan : 0..MaxPlans]

CallsInit ==
    /\ page = "other"
    /\ plans = <<>>
    /\ registered \in SUBSET Drafts
    /\ installed \in BOOLEAN
    /\ calls = EmptyBag
    /\ restarts = 0

KindOf(service) == IF service \in Local THEN "local" ELSE "managed"

\* The client sends a request over the bridge.
Send(ask, kind, subject, name, plan) ==
    /\ BagCardinality(calls) < MaxCalls
    /\ calls' = BagAdd(calls, [from |-> page, ask |-> ask, kind |-> kind, subject |-> subject,
                               name |-> name, plan |-> plan])

\* The calls of the mounted page that are under way, and their end.
Mine == {c \in BagToSet(calls) : c.from = page}
Take(c) == calls' = BagRemove(calls, c)

-----------------------------------------------------------------------------
(* The core answers. *)

Plannable(c) ==
    CASE c.kind = "managed" -> c.subject \in registered
      [] c.kind \in {"registration", "onboarding"} -> c.subject \notin registered
      [] c.kind = "adapter" -> ~installed
      [] c.kind = "rollback" -> plans[c.plan].state = "succeeded"
      [] OTHER -> TRUE

\* The routes that make a plan.  A rollback plan bears the operation it undoes.
NewPlan == Len(plans) + 1
OfferPlan(c) ==
    /\ c.ask = "plan" /\ Plannable(c) /\ NewPlan <= MaxPlans
    /\ plans' = Append(plans,
         [kind |-> IF c.kind = "onboarding" THEN "registration" ELSE c.kind,
          subject |-> c.subject, name |-> c.name, of |-> c.plan, state |-> "offered"])
    /\ UNCHANGED <<registered, installed>>

RunningLocally == \E p \in 1..Len(plans) : plans[p].kind = "local" /\ plans[p].state = "running"

\* confirmPlan: a local operation starts and goes on in the background; the
\* other routes answer when their change is made.
ConfirmPlan(c) ==
    /\ c.ask = "confirm" /\ plans[c.plan].state = "offered"
    /\ plans[c.plan].kind = "local" => ~RunningLocally
    /\ plans' = [plans EXCEPT ![c.plan].state =
                   IF plans[c.plan].kind = "local" THEN "running" ELSE "succeeded"]
    /\ registered' = registered \cup
         (IF plans[c.plan].kind = "registration" THEN {plans[c.plan].subject} ELSE {})
    /\ installed' = (installed \/ plans[c.plan].kind = "adapter")

\* Whether the draft is registered already, the precheck allows it, or the
\* adapter is installed.
IsFound(c, found) ==
    CASE c.ask = "draft" -> found = (c.subject \in registered)
      [] c.ask = "status" -> found = installed
      [] OTHER -> TRUE

\* The core answers c.  Any call may be refused, an expired plan among others;
\* an error that tells of a changed connection asks for its verification
\* (requiresConnectionReverification).
CoreAnswers(c, result) ==
    \/ result = "ok" /\ (OfferPlan(c) \/ ConfirmPlan(c))
    \/ /\ c.ask \notin {"plan", "confirm"}
       /\ result \in {"ok", "found"} /\ IsFound(c, result = "found")
       /\ UNCHANGED <<plans, registered, installed>>
    \/ /\ result \in {"refused", "reverify"}
       /\ UNCHANGED <<plans, registered, installed>>

\* Nobody waits for the answer to a page that was left.
AnswersNobody(c) ==
    /\ c.from = "left"
    /\ \E result \in {"ok", "refused"} : CoreAnswers(c, result)
    /\ Take(c)
    /\ UNCHANGED <<page, restarts>>

\* runOperation ends.
OperationEnds(p) ==
    /\ plans[p].state = "running"
    /\ \E result \in {"succeeded", "failed"} : plans' = [plans EXCEPT ![p].state = result]
    /\ UNCHANGED <<page, registered, installed, calls, restarts>>

\* A change of a session preference replaces the core, which is seen when it
\* knew a plan.  The window stays.
CoreRestarts ==
    /\ restarts < MaxRestarts
    /\ \E p \in 1..Len(plans) : plans[p].state \in {"offered", "running"}
    /\ restarts' = restarts + 1
    /\ plans' = [p \in 1..Len(plans) |->
                   [plans[p] EXCEPT !.state = CASE @ = "offered" -> "gone"
                                                [] @ = "running" -> "lost"
                                                [] OTHER -> @]]
    /\ UNCHANGED <<page, registered, installed, calls>>

CoreStep ==
    \/ \E p \in 1..Len(plans) : OperationEnds(p)
    \/ CoreRestarts

CallsTypeOK ==
    /\ page \in Pages
    /\ plans \in Seq([kind : Kinds, subject : Services \cup {None}, name : Actions \cup {None},
                      of : 0..MaxPlans, state : PlanStates])
    /\ Len(plans) <= MaxPlans
    /\ registered \subseteq Drafts /\ installed \in BOOLEAN
    /\ IsABag(calls) /\ BagToSet(calls) \subseteq Calls /\ restarts \in 0..MaxRestarts

=============================================================================
