------------------------- MODULE ControlPagesProofs -------------------------
(***************************************************************************)
(* The safety properties of the overview and of the parameter panel, for   *)
(* any services, plans, calls under way, restarts and visits.              *)
(*                                                                         *)
(* The argument: plans only grow, so a number means one service and action *)
(* for ever, and a dialog only takes the plan it asked for (DialogOK).     *)
(* While the background runs, an open dialog shows that very operation and *)
(* has no confirmation under way for another plan; so nothing is confirmed *)
(* meanwhile, and what is stored is what is shown (BackgroundOK).  What is *)
(* shown as running has a loop of this page (ShownIsFollowed).  One call   *)
(* at a time concerns the parameters, and a rollback plan under way is for *)
(* the operation shown (ParametersOK).                                     *)
(*                                                                         *)
(* Bags count, but only two facts need the counts: a call that is answered *)
(* is not new, and the one call of the parameter panel is gone when it is  *)
(* answered.  Calls of a page that was left are only known to be members.  *)
(*                                                                         *)
(* The second part is about what a page shows of the machine (Monitoring). *)
(***************************************************************************)
EXTENDS ControlPages, MonitoringInvariant, TLAPS

PlanRecords == [kind : Kinds, subject : Services \cup {None}, name : Actions \cup {None},
                of : 0..MaxPlans, state : PlanStates]

PlansOK ==
    /\ page \in Pages
    /\ plans \in Seq(PlanRecords) /\ Len(plans) <= MaxPlans

\* A plan that was confirmed and has started something.
Begun(p) == p \in 1..Len(plans) /\ plans[p].state \notin {"offered", "gone"}

CallOK(c) ==
    /\ c \in Calls /\ c.from \in {page, "left"}
    /\ c.plan \in 0..Len(plans)
    /\ c.ask = "plan" => c.kind \in Kinds \cup {"onboarding"}
    /\ c.ask = "confirm" => c.plan # 0

CallsOK ==
    \A c \in BagToSet(calls) : CallOK(c) /\ (c.from = page => calls[c] \in Nat \ {0})

MonitorOK(m) ==
    /\ m \in Monitors /\ Begun(m.op)
    /\ m.here => page = "overview"
    /\ m.at = "refreshing" => IsOver(plans[m.op].state)

MonitorsOK == \A m \in BagToSet(monitors) : MonitorOK(m)

\* One that a dialog has started.
Operated(p) == Begun(p) /\ plans[p].subject \in Services /\ plans[p].name \in Actions

BackgroundOK ==
    /\ background # None =>
         /\ background \in Operations /\ Operated(background.id) /\ page = "overview"
         /\ background.status # "running" => IsOver(plans[background.id].state)
    /\ stored # 0 => Operated(stored)
    /\ stored # 0 /\ page = "overview" => background # None /\ background.id = stored

\* A confirmation by the overview is under way for the plan p.
Confirming(p) == \E c \in BagToSet(calls) : c.from = "overview" /\ c.ask = "confirm" /\ c.plan = p

DialogOK ==
    /\ failed \subseteq 1..Len(plans)
    /\ action # None =>
         /\ action \in Dialogs /\ page = "overview" /\ action.plan \in 0..Len(plans)
         /\ action.operation # None =>
              /\ Begun(action.operation.id)
              /\ Confirming(action.plan) => action.plan = action.operation.id
         /\ Running(background) =>
              action.operation # None /\ action.operation.id = background.id
         /\ action.plan \in failed => action.error
    /\ DialogFits

PanelsOK ==
    /\ {registrationPlan, managedPlan} \subseteq [Drafts -> 0..Len(plans)]
    /\ {adapterPlan, parameterPlan, applied} \subseteq 0..Len(plans)

\* The calls of the parameter panel.
OfParameters(c) ==
    c \in BagToSet(calls) /\ c.from = "models" /\ c.kind \in {"apply", "rollback"}

ParametersOK ==
    /\ \A c \in BagToSet(calls) : OfParameters(c) =>
         /\ calls[c] = 1 /\ \A d \in BagToSet(calls) : OfParameters(d) => d = c
         /\ c.ask = "plan" /\ c.kind = "rollback" => applied # 0 /\ c.plan = applied
    /\ RollbackUndoesTheLast

Strong ==
    /\ PlansOK /\ CallsOK /\ MonitorsOK /\ BackgroundOK /\ DialogOK
    /\ ShownIsFollowed /\ PanelsOK /\ ParametersOK
-----------------------------------------------------------------------------
(* Bags. *)

LEMMA BagAdds ==
    ASSUME NEW B, NEW x
    PROVE  /\ BagToSet(BagAdd(B, x)) = BagToSet(B) \cup {x}
           /\ \A e \in BagToSet(B) : e # x => BagAdd(B, x)[e] = B[e]
           /\ BagAdd(B, x)[x] = IF x \in BagToSet(B) THEN B[x] + 1 ELSE 1
  BY DEF BagToSet, BagAdd

LEMMA BagRemoves ==
    ASSUME NEW B, NEW x
    PROVE  /\ BagToSet(BagRemove(B, x)) \subseteq BagToSet(B)
           /\ \A e \in BagToSet(B) : e # x =>
                e \in BagToSet(BagRemove(B, x)) /\ BagRemove(B, x)[e] = B[e]
           /\ x \in BagToSet(BagRemove(B, x)) =>
                x \in BagToSet(B) /\ B[x] # 1 /\ BagRemove(B, x)[x] = B[x] - 1
  BY DEF BagToSet, BagRemove

LEMMA BagDifference ==
    ASSUME NEW A, NEW B, NEW e \in BagToSet(A (-) B)
    PROVE  e \in BagToSet(A) /\ (e \in BagToSet(B) => A[e] - B[e] > 0)
  BY DEF BagToSet, (-)
-----------------------------------------------------------------------------
(* Calls. *)

\* What stays of a call when it moves from one step to the next.
LEMMA CallBecomes ==
    ASSUME NEW c \in Calls, NEW ask \in {"plan", "precheck"}
    PROVE  /\ [c EXCEPT !.ask = ask] \in Calls /\ [c EXCEPT !.ask = ask].from = c.from
           /\ [c EXCEPT !.ask = ask].ask = ask /\ [c EXCEPT !.ask = ask].kind = c.kind
           /\ [c EXCEPT !.ask = ask].plan = c.plan
  BY DEF Calls

\* A call that was left is the same call otherwise.
LEMMA CallIsLeft ==
    ASSUME NEW c \in Calls
    PROVE  /\ [c EXCEPT !.from = "left"] \in Calls /\ [c EXCEPT !.from = "left"].from = "left"
           /\ [c EXCEPT !.from = "left"].ask = c.ask /\ [c EXCEPT !.from = "left"].kind = c.kind
           /\ [c EXCEPT !.from = "left"].plan = c.plan
  BY DEF Calls

\* The calls of a page that was left are its confirmations, and those of earlier ones.
LEMMA LeftAre ==
    ASSUME NEW c \in BagToSet(LeftBehind)
    PROVE  \E d \in BagToSet(calls) : d.ask = "confirm" /\ c = [d EXCEPT !.from = "left"]
  BY DEF LeftBehind, BagToSet, BagOfAll
-----------------------------------------------------------------------------
(* Plans. *)

\* Plans are only added, and what was started is never offered again.
PlansGrow ==
    /\ Len(plans') >= Len(plans)
    /\ \A p \in 1..Len(plans) :
         /\ plans'[p].kind = plans[p].kind /\ plans'[p].subject = plans[p].subject
         /\ plans'[p].name = plans[p].name /\ plans'[p].of = plans[p].of
         /\ Begun(p) => Begun(p)'
         /\ IsOver(plans[p].state) => IsOver(plans'[p].state)
         /\ plans[p].state = "lost" => plans'[p].state = "lost"

LEMMA PlanTyped ==
    ASSUME PlansOK, NEW p \in 1..Len(plans)
    PROVE  /\ Len(plans) \in Nat /\ plans[p] \in PlanRecords /\ plans[p].state \in PlanStates
           /\ plans[p].kind \in Kinds
           /\ \A state \in PlanStates :
                LET record == [plans[p] EXCEPT !.state = state]
                IN  /\ record \in PlanRecords /\ record.state = state
                    /\ record.kind = plans[p].kind /\ record.subject = plans[p].subject
                    /\ record.name = plans[p].name /\ record.of = plans[p].of
<1>1. Len(plans) \in Nat /\ plans[p] \in PlanRecords
  BY DEF PlansOK
<1> QED
  BY <1>1 DEF PlanRecords

LEMMA PlansSame == PlansOK /\ UNCHANGED plans => PlansGrow
  BY DEF PlansOK, PlansGrow, Begun

\* One plan takes another state.
LEMMA PlanMoves ==
    ASSUME PlansOK, page' \in Pages, NEW p \in 1..Len(plans), NEW state \in PlanStates,
           plans' = [plans EXCEPT ![p].state = state],
           ~IsOver(plans[p].state), plans[p].state # "lost",
           Begun(p) => state \notin {"offered", "gone"}
    PROVE  PlansOK' /\ PlansGrow /\ plans'[p].state = state /\ Len(plans') = Len(plans)
<1> DEFINE record == [plans[p] EXCEPT !.state = state]
<1>1. /\ record \in PlanRecords /\ record.state = state
      /\ record.kind = plans[p].kind /\ record.subject = plans[p].subject
      /\ record.name = plans[p].name /\ record.of = plans[p].of
  BY PlanTyped
<1>2. plans \in Seq(PlanRecords) /\ Len(plans) \in Nat /\ Len(plans) <= MaxPlans
  BY DEF PlansOK
<1>3. plans' = [plans EXCEPT ![p] = record]
  OBVIOUS
<1> HIDE DEF record
<1>4. /\ plans' \in Seq(PlanRecords) /\ Len(plans') = Len(plans) /\ plans'[p] = record
      /\ \A q \in 1..Len(plans) : q # p => plans'[q] = plans[q]
  BY <1>1, <1>2, <1>3
<1>5. PlansGrow
  BY <1>1, <1>2, <1>4 DEF PlansGrow, Begun
<1> QED
  BY <1>1, <1>2, <1>4, <1>5 DEF PlansOK

\* The core offers a plan.
LEMMA PlanOffered ==
    ASSUME PlansOK, CallsOK, page' = page, NEW c \in BagToSet(calls), OfferPlan(c)
    PROVE  /\ PlansOK' /\ PlansGrow
           /\ NewPlan \in 1..MaxPlans /\ Len(plans') = NewPlan
           /\ plans'[NewPlan].subject = c.subject /\ plans'[NewPlan].name = c.name
           /\ plans'[NewPlan].of = c.plan
           /\ c.kind \in Kinds => plans'[NewPlan].kind = c.kind
           /\ \A p \in 1..Len(plans) : plans'[p] = plans[p]
<1> DEFINE kind == IF c.kind = "onboarding" THEN "registration" ELSE c.kind
           record == [kind |-> kind, subject |-> c.subject, name |-> c.name, of |-> c.plan,
                      state |-> "offered"]
<1>1. c \in Calls /\ c.kind \in Kinds \cup {"onboarding"}
  BY DEF CallsOK, CallOK, OfferPlan
<1>2. record \in PlanRecords
  BY <1>1 DEF Calls, PlanRecords, PlanStates, Kinds
<1>3. c.kind \in Kinds => record.kind = c.kind
  BY DEF Kinds
<1>4. record.subject = c.subject /\ record.name = c.name /\ record.of = c.plan
  OBVIOUS
<1>5. plans' = Append(plans, record) /\ NewPlan <= MaxPlans
  BY DEF OfferPlan
<1> HIDE DEF record
<1>6. plans \in Seq(PlanRecords) /\ Len(plans) \in Nat /\ MaxPlans \in Nat
  BY CallBounds DEF PlansOK
<1>7. /\ plans' \in Seq(PlanRecords) /\ Len(plans') = NewPlan /\ plans'[NewPlan] = record
      /\ \A p \in 1..Len(plans) : plans'[p] = plans[p]
  BY <1>2, <1>5, <1>6 DEF NewPlan
<1>8. PlansGrow
  BY <1>6, <1>7 DEF PlansGrow, Begun, NewPlan
<1> QED
  BY <1>3, <1>4, <1>5, <1>6, <1>7, <1>8 DEF PlansOK, NewPlan

\* Whatever the core answers.
LEMMA CoreAnswered ==
    ASSUME PlansOK, CallsOK, page' = page, NEW c \in BagToSet(calls), NEW result,
           CoreAnswers(c, result)
    PROVE  /\ PlansOK' /\ PlansGrow
           /\ result = "ok" /\ c.ask = "plan" => OfferPlan(c)
           /\ result = "ok" /\ c.ask = "confirm" => Begun(c.plan)' /\ c.plan \in 1..Len(plans)
<1>1. CASE result = "ok" /\ OfferPlan(c)
  BY <1>1, PlanOffered DEF OfferPlan
<1>2. CASE result = "ok" /\ ConfirmPlan(c)
  <2>1. c.plan \in 1..Len(plans) /\ c.ask = "confirm" /\ plans[c.plan].state = "offered"
    BY <1>2 DEF CallsOK, CallOK, ConfirmPlan, PlansOK
  <2>2. PICK state \in {"running", "succeeded"} : plans' = [plans EXCEPT ![c.plan].state = state]
    BY <1>2 DEF ConfirmPlan
  <2>3. /\ PlansOK' /\ PlansGrow /\ plans'[c.plan].state = state
        /\ Len(plans') = Len(plans)
    BY <2>1, <2>2, PlanMoves DEF IsOver, Begun, PlanStates, PlansOK
  <2> QED
    BY <2>1, <2>3 DEF Begun
<1>3. CASE UNCHANGED plans /\ ~(result = "ok" /\ c.ask \in {"plan", "confirm"})
  BY <1>3, PlansSame DEF PlansOK
<1> QED
  BY <1>1, <1>2, <1>3 DEF CoreAnswers

\* Operations end, and the core is replaced.
LEMMA CoreMoves ==
    ASSUME PlansOK, CoreStep
    PROVE  PlansOK' /\ PlansGrow /\ Len(plans') = Len(plans) /\ UNCHANGED <<page, calls>>
<1>1. CASE \E p \in 1..Len(plans) : OperationEnds(p)
  <2>1. PICK p \in 1..Len(plans), state \in {"succeeded", "failed"} :
            /\ plans[p].state = "running" /\ plans' = [plans EXCEPT ![p].state = state]
            /\ UNCHANGED <<page, calls>>
    BY <1>1 DEF OperationEnds
  <2> QED
    BY <2>1, PlanMoves DEF IsOver, Begun, PlanStates, PlansOK
<1>2. CASE CoreRestarts
  <2> DEFINE state(p) == CASE plans[p].state = "offered" -> "gone"
                           [] plans[p].state = "running" -> "lost"
                           [] OTHER -> plans[p].state
             record(p) == [plans[p] EXCEPT !.state = state(p)]
  <2>1. UNCHANGED <<page, calls>> /\ plans' = [p \in 1..Len(plans) |-> record(p)]
    BY <1>2 DEF CoreRestarts
  <2>2. ASSUME NEW p \in 1..Len(plans)
        PROVE  /\ record(p) \in PlanRecords /\ record(p).state = state(p)
               /\ record(p).kind = plans[p].kind /\ record(p).subject = plans[p].subject
               /\ record(p).name = plans[p].name /\ record(p).of = plans[p].of
    <3>1. state(p) \in PlanStates
      BY PlanTyped DEF PlanStates
    <3> QED
      BY <3>1, PlanTyped
  <2>3. Len(plans) \in Nat /\ Len(plans) <= MaxPlans
    BY DEF PlansOK
  <2>4. ASSUME NEW p \in 1..Len(plans)
        PROVE  /\ IsOver(plans[p].state) => state(p) = plans[p].state
               /\ plans[p].state = "lost" => state(p) = "lost"
               /\ Begun(p) => state(p) \notin {"offered", "gone"}
    BY DEF IsOver, Begun
  <2> HIDE DEF record, state
  <2>5. plans' \in Seq(PlanRecords) /\ Len(plans') = Len(plans)
    BY <2>1, <2>2, <2>3
  <2>6. PlansGrow
    BY <2>1, <2>2, <2>3, <2>4, <2>5 DEF PlansGrow, Begun
  <2> QED
    BY <2>1, <2>3, <2>5, <2>6 DEF PlansOK
<1> QED
  BY <1>1, <1>2 DEF CoreStep
-----------------------------------------------------------------------------
(* The steps of the window. *)

\* The steps of Next, one by one.
LEMMA NextCases ==
    ASSUME [Next]_vars
    PROVE  \/ UserOfOverview /\ UNCHANGED modelsVars
           \/ UserOfModels /\ UNCHANGED overviewVars
           \/ \E next \in Pages : Open(next)
           \/ CoreStep /\ UNCHANGED <<overviewVars, modelsVars>>
           \/ \E c \in BagToSet(calls) :
                \/ AnswerToOverview(c) /\ UNCHANGED modelsVars
                \/ AnswerToModels(c) /\ UNCHANGED overviewVars
                \/ AnswersNobody(c) /\ UNCHANGED <<overviewVars, modelsVars>>
           \/ \E m \in BagToSet(monitors) :
                (MonitorStep(m) \/ PollingEnds(m)) /\ UNCHANGED modelsVars
           \/ UNCHANGED vars
  BY DEF Next, User, Core, Arrives, Polling, GivingUp

\* A button leaves the core alone.
LEMMA UserFrame ==
    ASSUME UserOfOverview \/ UserOfModels
    PROVE  UNCHANGED coreVars
<1>1. CASE UserOfOverview
  BY <1>1 DEF UserOfOverview, ClickAction, BeginAction, Replan, ClickConfirm, MoveToBackground,
     ShowBackground, Cancel, Reverify, coreVars, callVars
<1>2. CASE UserOfModels
  BY <1>2 DEF UserOfModels, Onboard, Precheck, CreateRegistrationPlan, ConfirmRegistration,
     PlanManagedAction, ConfirmManagedAction, SelectTarget, DeployAdapter, Review, CreateApplyPlan,
     CreateRollbackPlan, ConfirmParameters
<1> QED
  BY <1>1, <1>2

LEMMA PlansStep ==
    ASSUME PlansOK, CallsOK, [Next]_vars
    PROVE  PlansOK' /\ PlansGrow
<1>1. ASSUME UserOfOverview \/ UserOfModels
      PROVE  PlansOK' /\ PlansGrow
  BY <1>1, UserFrame, PlansSame DEF coreVars, PlansOK
<1>2. ASSUME NEW next \in Pages, Open(next)
      PROVE  PlansOK' /\ PlansGrow
  BY <1>2, PlansSame DEF Open, PlansOK
<1>3. CASE CoreStep
  BY <1>3, CoreMoves
<1>4. ASSUME NEW c \in BagToSet(calls), AnswerToOverview(c) \/ AnswerToModels(c) \/ AnswersNobody(c)
      PROVE  PlansOK' /\ PlansGrow
  <2>1. page' = page /\ \E result : CoreAnswers(c, result)
    BY <1>4 DEF AnswerToOverview, AnswerToModels, AnswersNobody
  <2> QED
    BY <2>1, CoreAnswered
<1>5. ASSUME NEW m, MonitorStep(m) \/ PollingEnds(m)
      PROVE  PlansOK' /\ PlansGrow
  BY <1>5, PlansSame DEF MonitorStep, Poll, PollFails, Refreshed, StopWatching, PollingEnds, callVars,
     PlansOK
<1>6. CASE UNCHANGED vars
  BY <1>6, PlansSame DEF vars, callVars, PlansOK
<1> QED
  BY <1>1, <1>2, <1>3, <1>4, <1>5, <1>6, NextCases

\* A call that is under way stays well formed.
LEMMA CallStays ==
    ASSUME PlansOK, PlansOK', PlansGrow, page' = page, NEW c, CallOK(c)
    PROVE  CallOK(c)'
  BY DEF CallOK, PlansOK, PlansGrow

\* A call is sent.
LEMMA CallSent ==
    ASSUME PlansOK, CallsOK, UNCHANGED coreVars, page # "other",
           NEW ask, NEW kind, NEW subject, NEW name, NEW plan,
           Send(ask, kind, subject, name, plan),
           ask \in {"plan", "confirm", "verify", "draft", "review", "precheck", "status"},
           kind \in CallKinds, subject \in Services \cup {None}, name \in Actions \cup {None},
           plan \in 0..Len(plans),
           ask = "plan" => kind \in Kinds \cup {"onboarding"},
           ask = "confirm" => plan # 0
    PROVE  CallsOK'
<1> DEFINE call == [from |-> page, ask |-> ask, kind |-> kind, subject |-> subject, name |-> name,
                    plan |-> plan]
<1>1. calls' = BagAdd(calls, call) /\ page' = page /\ plans' = plans
  BY DEF Send, coreVars
<1>2. CallOK(call)
  <2>1. call \in Calls
    <3>1. page \in {"overview", "models"} /\ plan \in 0..MaxPlans
      BY CallBounds DEF PlansOK, Pages
    <3> QED
      BY <3>1 DEF Calls
  <2> QED
    BY <2>1 DEF CallOK
<1>3. call.from = page
  OBVIOUS
<1> HIDE DEF call
<1>4. \A c \in BagToSet(calls') : CallOK(c) /\ (c.from = page => calls'[c] \in Nat \ {0})
  BY <1>1, <1>2, <1>3, BagAdds DEF CallsOK
<1> QED
  BY <1>1, <1>4 DEF CallsOK, CallOK

\* A call is answered.
LEMMA CallTaken ==
    ASSUME PlansOK, CallsOK, PlansOK', PlansGrow, page' = page, NEW c \in BagToSet(calls), Take(c)
    PROVE  CallsOK'
<1>1. ASSUME NEW d \in BagToSet(calls')
      PROVE  d \in BagToSet(calls) /\ (d.from = page => calls'[d] \in Nat \ {0})
  <2>1. d \in BagToSet(calls) /\ (d # c => calls'[d] = calls[d])
        /\ (d = c => calls[c] # 1 /\ calls'[c] = calls[c] - 1)
    BY <1>1, BagRemoves DEF Take
  <2> QED
    BY <2>1 DEF CallsOK
<1> QED
  BY <1>1, CallStays DEF CallsOK

\* A call is answered, and the next one of its function sent.
LEMMA CallGoesOn ==
    ASSUME PlansOK, CallsOK, PlansOK', PlansGrow, page' = page, NEW c \in BagToSet(calls),
           NEW ask \in {"precheck", "plan"}, GoOn(c, ask), c.ask # "confirm",
           ask = "plan" => c.kind = "onboarding"
    PROVE  CallsOK'
<1> DEFINE next == [c EXCEPT !.ask = ask]
<1>1. c \in Calls /\ CallOK(c)
  BY DEF CallsOK, CallOK
<1>2. CallOK(next)
  <2>1. /\ next \in Calls /\ next.from = c.from /\ next.ask = ask /\ next.kind = c.kind
        /\ next.plan = c.plan
    BY <1>1, CallBecomes
  <2> QED
    BY <1>1, <2>1 DEF CallOK
<1>3. calls' = BagAdd(BagRemove(calls, c), next)
  BY DEF GoOn
<1> HIDE DEF next
<1>4. ASSUME NEW d \in BagToSet(BagRemove(calls, c))
      PROVE  d \in BagToSet(calls) /\ (d.from = page => BagRemove(calls, c)[d] \in Nat \ {0})
  <2> DEFINE left == BagRemove(calls, c)
  <2>1. d \in BagToSet(calls) /\ (d # c => left[d] = calls[d])
        /\ (d = c => calls[c] # 1 /\ left[c] = calls[c] - 1)
    BY <1>4, BagRemoves
  <2> HIDE DEF left
  <2>2. d.from = page => left[d] \in Nat \ {0}
    BY <2>1 DEF CallsOK
  <2> QED
    BY <2>1, <2>2 DEF left
<1>5. ASSUME NEW d \in BagToSet(calls')
      PROVE  CallOK(d) /\ (d.from = page => calls'[d] \in Nat \ {0})
  <2> DEFINE left == BagRemove(calls, c)
  <2> HIDE DEF left
  <2>1. \A e \in BagToSet(left) : CallOK(e) /\ (e.from = page => left[e] \in Nat \ {0})
    BY <1>4 DEF CallsOK, left
  <2>2. calls' = BagAdd(left, next)
    BY <1>3 DEF left
  <2> QED
    BY <1>2, <1>5, <2>1, <2>2, BagAdds
<1> QED
  BY <1>5, CallStays DEF CallsOK

\* Who answers a call, and what becomes of it.
LEMMA Answers ==
    ASSUME NEW c, AnswerToOverview(c) \/ AnswerToModels(c) \/ AnswersNobody(c)
    PROVE  /\ page' = page
           /\ \/ Take(c)
              \/ c.ask = "draft" /\ GoOn(c, "precheck")
              \/ c.ask = "precheck" /\ c.kind = "onboarding" /\ GoOn(c, "plan")
<1>1. CASE AnswerToOverview(c)
  BY <1>1 DEF AnswerToOverview, PlanArrives, ConfirmationArrives, VerificationArrives
<1>2. CASE AnswerToModels(c)
  BY <1>2 DEF AnswerToModels, DraftArrives, PrecheckArrives, RegistrationPlanArrives,
     RegistrationArrives, ManagedPlanArrives, ManagedActionArrives, StatusArrives,
     DeploymentArrives, ReviewArrives, ParametersArrive
<1>3. CASE AnswersNobody(c)
  BY <1>3 DEF AnswersNobody
<1> QED
  BY <1>1, <1>2, <1>3

LEMMA CallsStep ==
    ASSUME PlansOK, CallsOK, DialogOK, PanelsOK, [Next]_vars
    PROVE  CallsOK'
<1>1. PlansOK' /\ PlansGrow
  BY PlansStep
<1> USE DEF CallKinds, Kinds
<1>2. CASE UserOfOverview
  <2>1. UNCHANGED coreVars
    BY <1>2, UserFrame
  <2>2. ASSUME NEW s \in Services, NEW a \in Actions, page = "overview",
               Send("plan", KindOf(s), s, a, 0)
        PROVE  CallsOK'
    <3>1. KindOf(s) \in {"local", "managed"}
      BY DEF KindOf
    <3> QED
      BY <2>1, <2>2, <3>1, CallSent DEF PlansOK
  <2>3. ASSUME NEW s \in Services, NEW a \in Actions, ClickAction(s, a)
        PROVE  CallsOK'
    BY <2>2, <2>3 DEF ClickAction, BeginAction
  <2>4. CASE Replan
    <3>1. action.service \in Services /\ action.name \in Actions
      BY <2>4 DEF Replan, CanSubmit, DialogOK, Dialogs
    <3> QED
      BY <2>2, <2>4, <3>1 DEF Replan, CanSubmit, BeginAction
  <2>5. CASE ClickConfirm
    <3>1. /\ action.service \in Services /\ action.name \in Actions /\ page = "overview"
          /\ action.plan \in 0..Len(plans) /\ action.plan # 0
      BY <2>5 DEF ClickConfirm, CanSubmit, DialogOK, Dialogs
    <3>2. KindOf(action.service) \in {"local", "managed"}
      BY DEF KindOf
    <3> QED
      BY <2>1, <2>5, <3>1, <3>2, CallSent DEF ClickConfirm
  <2>6. CASE Reverify
    BY <2>1, <2>6, CallSent DEF Reverify, PlansOK
  <2>7. CASE MoveToBackground \/ ShowBackground \/ Cancel
    BY <2>7 DEF MoveToBackground, ShowBackground, Cancel, callVars, CallsOK, CallOK
  <2> QED
    BY <1>2, <2>3, <2>4, <2>5, <2>6, <2>7 DEF UserOfOverview
<1>3. CASE UserOfModels
  <2>1. UNCHANGED coreVars /\ PlansOK
    BY <1>3, UserFrame
  <2>2. Drafts \subseteq Services
    BY DEF Services
  <2>3. ASSUME NEW d \in Drafts, Onboard(d) \/ Precheck(d) \/ CreateRegistrationPlan(d)
        PROVE  CallsOK'
    BY <2>1, <2>2, <2>3, CallSent DEF Onboard, Precheck, CreateRegistrationPlan, PlansOK
  <2>4. ASSUME NEW d \in Drafts, ConfirmRegistration(d) \/ ConfirmManagedAction(d)
        PROVE  CallsOK'
    <3>1. /\ registrationPlan[d] \in 0..Len(plans) /\ managedPlan[d] \in 0..Len(plans)
      BY DEF PanelsOK
    <3> QED
      BY <2>1, <2>2, <2>4, <3>1, CallSent DEF ConfirmRegistration, ConfirmManagedAction
  <2>5. ASSUME NEW d \in Drafts, NEW a \in Actions, PlanManagedAction(d, a)
        PROVE  CallsOK'
    BY <2>1, <2>2, <2>5, CallSent DEF PlanManagedAction, PlansOK
  <2>6. ASSUME NEW nvfp4, SelectTarget(nvfp4)
        PROVE  CallsOK'
    <3>1. CASE nvfp4
      BY <2>1, <2>6, <3>1, CallSent DEF SelectTarget, PlansOK
    <3>2. CASE ~nvfp4
      BY <2>1, <2>6, <3>2 DEF SelectTarget, CallsOK, CallOK, coreVars
    <3> QED
      BY <3>1, <3>2
  <2>7. CASE DeployAdapter
    BY <2>1, <2>7, CallSent DEF DeployAdapter, PanelsOK
  <2>8. CASE Review \/ CreateApplyPlan
    BY <2>1, <2>8, CallSent DEF Review, CreateApplyPlan, Parameters, PlansOK
  <2>9. CASE CreateRollbackPlan
    BY <2>1, <2>9, CallSent DEF CreateRollbackPlan, Parameters, PanelsOK
  <2>10. CASE ConfirmParameters
    <3>1. parameterPlan \in 1..Len(plans) /\ plans[parameterPlan].kind \in Kinds
      BY <2>10, PlanTyped DEF ConfirmParameters, PanelsOK, PlansOK
    <3> QED
      BY <2>1, <2>10, <3>1, CallSent DEF ConfirmParameters, Parameters
  <2> QED
    BY <1>3, <2>3, <2>4, <2>5, <2>6, <2>7, <2>8, <2>9, <2>10 DEF UserOfModels
<1>4. ASSUME NEW next \in Pages, Open(next)
      PROVE  CallsOK'
  <2>1. calls' = LeftBehind /\ page' = next /\ plans' = plans
    BY <1>4 DEF Open
  <2>2. ASSUME NEW c \in BagToSet(LeftBehind)
        PROVE  CallOK(c) /\ c.from = "left"
    <3>1. PICK d \in BagToSet(calls) : d.ask = "confirm" /\ c = [d EXCEPT !.from = "left"]
      BY LeftAre
    <3> QED
      BY <3>1, CallIsLeft DEF CallsOK, CallOK
  <2>3. "left" \notin Pages
    BY DEF Pages
  <2> QED
    BY <2>1, <2>2, <2>3 DEF CallsOK, CallOK
<1>5. CASE CoreStep
  <2>1. UNCHANGED <<page, calls>>
    BY <1>5, CoreMoves
  <2> QED
    BY <1>1, <2>1, CallStays DEF CallsOK
<1>6. ASSUME NEW c \in BagToSet(calls), AnswerToOverview(c) \/ AnswerToModels(c) \/ AnswersNobody(c)
      PROVE  CallsOK'
  BY <1>1, <1>6, Answers, CallTaken, CallGoesOn
<1>7. ASSUME NEW m, MonitorStep(m) \/ PollingEnds(m)
      PROVE  CallsOK'
  BY <1>7 DEF MonitorStep, Poll, PollFails, Refreshed, StopWatching, PollingEnds, callVars, CallsOK,
     CallOK
<1>8. CASE UNCHANGED vars
  BY <1>8 DEF vars, callVars, CallsOK, CallOK
<1> QED
  BY <1>2, <1>3, <1>4, <1>5, <1>6, <1>7, <1>8, NextCases

LEMMA PanelsStep ==
    ASSUME PlansOK, CallsOK, PanelsOK, [Next]_vars
    PROVE  PanelsOK'
<1>1. PlansOK' /\ PlansGrow
  BY PlansStep
<1>2. Len(plans) \in Nat /\ Len(plans') \in Nat /\ Len(plans') >= Len(plans)
  BY <1>1 DEF PlansOK, PlansGrow
<1>3. UNCHANGED <<registrationPlan, managedPlan, adapterPlan, parameterPlan, applied>> => PanelsOK'
  BY <1>2 DEF PanelsOK
<1> USE DEF modelsVars, draftVars, panelVars, parameterVars
<1>4. CASE UserOfModels
  BY <1>2, <1>3, <1>4 DEF UserOfModels, Onboard, Precheck, CreateRegistrationPlan,
     ConfirmRegistration, PlanManagedAction, ConfirmManagedAction, SelectTarget, DeployAdapter,
     Review, CreateApplyPlan, CreateRollbackPlan, ConfirmParameters, OperationAfterSelection,
     PanelsOK
<1>5. ASSUME NEW next \in Pages, Open(next)
      PROVE  PanelsOK'
  BY <1>2, <1>3, <1>5 DEF Open, ModelsCloses, ModelsOpens, PanelsOK
<1>6. ASSUME NEW c \in BagToSet(calls), AnswerToModels(c)
      PROVE  PanelsOK'
  <2>1. PICK result : /\ CoreAnswers(c, result)
                      /\ \/ DraftArrives(c, result) \/ PrecheckArrives(c, result)
                         \/ RegistrationPlanArrives(c, result) \/ RegistrationArrives(c, result)
                         \/ ManagedPlanArrives(c, result) \/ ManagedActionArrives(c, result)
                         \/ StatusArrives(c, result) \/ DeploymentArrives(c, result)
                         \/ ReviewArrives(c, result) \/ ParametersArrive(c, result)
    BY <1>6 DEF AnswerToModels
  <2>2. page' = page
    BY <1>6 DEF AnswerToModels
  <2>3. result = "ok" /\ c.ask = "plan" => NewPlan \in 0..Len(plans')
    BY <1>2, <2>1, <2>2, CoreAnswered, PlanOffered
  <2>4. c.plan \in 0..Len(plans')
    BY <1>2 DEF CallsOK, CallOK
  <2>5. CASE DraftArrives(c, result) \/ PrecheckArrives(c, result) \/ StatusArrives(c, result)
             \/ ReviewArrives(c, result)
    BY <1>3, <2>5 DEF DraftArrives, PrecheckArrives, StatusArrives, ReviewArrives
  <2>6. \A f \in [Drafts -> 0..Len(plans')], n \in 0..Len(plans') :
           [f EXCEPT ![c.subject] = n] \in [Drafts -> 0..Len(plans')]
    OBVIOUS
  <2>7. /\ registrationPlan \in [Drafts -> 0..Len(plans')]
        /\ managedPlan \in [Drafts -> 0..Len(plans')]
        /\ adapterPlan \in 0..Len(plans') /\ parameterPlan \in 0..Len(plans')
        /\ applied \in 0..Len(plans') /\ 0 \in 0..Len(plans')
    BY <1>2 DEF PanelsOK
  <2>8. CASE RegistrationPlanArrives(c, result) \/ ManagedPlanArrives(c, result)
    <3>1. UNCHANGED <<adapterPlan, parameterPlan, applied>> /\ c.ask = "plan"
      BY <2>8 DEF RegistrationPlanArrives, ManagedPlanArrives, parameterVars
    <3>2. \/ registrationPlan' = registrationPlan
          \/ result = "ok" /\ registrationPlan' = [registrationPlan EXCEPT ![c.subject] = NewPlan]
      BY <2>8 DEF RegistrationPlanArrives, ManagedPlanArrives
    <3>3. \/ managedPlan' = managedPlan
          \/ result = "ok" /\ managedPlan' = [managedPlan EXCEPT ![c.subject] = NewPlan]
      BY <2>8 DEF RegistrationPlanArrives, ManagedPlanArrives
    <3>4. /\ registrationPlan' \in [Drafts -> 0..Len(plans')]
          /\ managedPlan' \in [Drafts -> 0..Len(plans')]
      BY <2>3, <2>6, <2>7, <3>1, <3>2, <3>3
    <3> QED BY <2>7, <3>1, <3>4 DEF PanelsOK
  <2>9. CASE RegistrationArrives(c, result) \/ ManagedActionArrives(c, result)
    <3>1. UNCHANGED <<adapterPlan, parameterPlan, applied>>
      BY <2>9 DEF RegistrationArrives, ManagedActionArrives, parameterVars
    <3>2. registrationPlan' = registrationPlan
          \/ registrationPlan' = [registrationPlan EXCEPT ![c.subject] = 0]
      BY <2>9 DEF RegistrationArrives, ManagedActionArrives
    <3>3. managedPlan' = managedPlan \/ managedPlan' = [managedPlan EXCEPT ![c.subject] = 0]
      BY <2>9 DEF RegistrationArrives, ManagedActionArrives
    <3>4. /\ registrationPlan' \in [Drafts -> 0..Len(plans')]
          /\ managedPlan' \in [Drafts -> 0..Len(plans')]
      BY <2>6, <2>7, <3>2, <3>3
    <3> QED BY <2>7, <3>1, <3>4 DEF PanelsOK
  <2>10. CASE DeploymentArrives(c, result) \/ ParametersArrive(c, result)
    BY <1>2, <2>3, <2>4, <2>10 DEF DeploymentArrives, ParametersArrive, PanelsOK
  <2> QED
    BY <2>1, <2>5, <2>8, <2>9, <2>10
<1>7. CASE UNCHANGED modelsVars
  BY <1>3, <1>7
<1>8. CASE UNCHANGED vars
  BY <1>3, <1>8 DEF vars
<1> QED
  BY <1>4, <1>5, <1>6, <1>7, <1>8, NextCases
-----------------------------------------------------------------------------
(* Loops. *)

LEMMA BegunStays ==
    ASSUME PlansOK, PlansOK', PlansGrow, NEW p, Begun(p)
    PROVE  Begun(p)' /\ p \in PlanIds
  BY CallBounds DEF PlansOK, PlansGrow, Begun, PlanIds

\* A loop's record, when its page is left and when it has seen the end.
LEMMA MonitorBecomes ==
    ASSUME NEW m \in Monitors
    PROVE  /\ [m EXCEPT !.here = FALSE] \in Monitors /\ [m EXCEPT !.here = FALSE].op = m.op
           /\ [m EXCEPT !.here = FALSE].at = m.at /\ [m EXCEPT !.here = FALSE].here = FALSE
           /\ [m EXCEPT !.at = "refreshing"] \in Monitors
           /\ [m EXCEPT !.at = "refreshing"].op = m.op
           /\ [m EXCEPT !.at = "refreshing"].here = m.here
           /\ [m EXCEPT !.at = "refreshing"].at = "refreshing"
  BY DEF Monitors

LEMMA MonitorStays ==
    ASSUME PlansOK, PlansOK', PlansGrow, NEW m, MonitorOK(m), m.here => page' = "overview"
    PROVE  MonitorOK(m)'
  BY BegunStays DEF MonitorOK, PlansGrow, Begun

\* A loop is started for an operation.
LEMMA MonitorStarts ==
    ASSUME PlansOK, PlansOK', PlansGrow, MonitorsOK, page' = "overview", page' = page \/ page # "overview",
           NEW o, Begun(o)', monitors' = Watch(o)
    PROVE  /\ MonitorsOK'
           /\ \E m \in BagToSet(monitors') : m.here /\ m.op = o
           /\ BagToSet(monitors) \subseteq BagToSet(monitors')
<1> DEFINE loop == [op |-> o, here |-> TRUE, at |-> "waiting"]
<1>1. loop \in Monitors /\ loop.op = o /\ loop.here /\ loop.at = "waiting"
  BY CallBounds DEF Monitors, PlansOK, Begun, PlanIds
<1>2. monitors' = BagAdd(monitors, loop)
  BY DEF Watch
<1> HIDE DEF loop
<1>3. BagToSet(monitors') = BagToSet(monitors) \cup {loop}
  BY <1>2, BagAdds
<1>4. \A m \in BagToSet(monitors) : MonitorOK(m)'
  BY MonitorStays DEF MonitorsOK
<1>5. MonitorOK(loop)'
  BY <1>1 DEF MonitorOK
<1> QED
  BY <1>1, <1>3, <1>4, <1>5 DEF MonitorsOK

\* The page is left: its loops go on without it.
LEMMA LoopsAreLeft ==
    ASSUME OverviewCloses, NEW m \in BagToSet(monitors')
    PROVE  \E n \in BagToSet(monitors) : m = [n EXCEPT !.here = FALSE]
  BY DEF OverviewCloses, BagToSet, BagOfAll

\* What the steps of a loop make of the loops.
LEMMA LoopMoves ==
    ASSUME PlansOK, MonitorsOK, NEW m \in BagToSet(monitors), MonitorStep(m) \/ PollingEnds(m)
    PROVE  /\ UNCHANGED <<page, plans, calls, failed>>
           /\ MonitorsOK'
           /\ \A n \in BagToSet(monitors) : n # m => n \in BagToSet(monitors')
<1>1. UNCHANGED <<page, plans, calls, failed>>
  BY DEF MonitorStep, Poll, PollFails, Refreshed, StopWatching, PollingEnds, callVars
<1>2. PlansOK' /\ PlansGrow
  BY <1>1, PlansSame DEF PlansOK
<1>3. \A n \in BagToSet(monitors) : MonitorOK(n)'
  BY <1>1, <1>2, MonitorStays DEF MonitorsOK, MonitorOK
<1>4. CASE monitors' = BagRemove(monitors, m) \/ monitors' = monitors
  <2>1. BagToSet(BagRemove(monitors, m)) \subseteq BagToSet(monitors)
        /\ \A n \in BagToSet(monitors) : n # m => n \in BagToSet(BagRemove(monitors, m))
    BY BagRemoves
  <2>2. BagToSet(monitors') \subseteq BagToSet(monitors)
        /\ \A n \in BagToSet(monitors) : n # m => n \in BagToSet(monitors')
    BY <1>4, <2>1
  <2> QED
    BY <1>1, <1>3, <2>2 DEF MonitorsOK
<1>5. CASE Poll(m) /\ IsOver(plans[m.op].state)
  <2> DEFINE next == [m EXCEPT !.at = "refreshing"]
  <2>1. m \in Monitors /\ MonitorOK(m)
    BY DEF MonitorsOK, MonitorOK
  <2>2. monitors' = BagAdd(BagRemove(monitors, m), next)
    BY <1>5 DEF Poll
  <2>3. next \in Monitors /\ next.op = m.op /\ next.here = m.here
    BY <2>1, MonitorBecomes
  <2> HIDE DEF next
  <2>4. MonitorOK(next)'
    BY <1>1, <1>5, <2>1, <2>3 DEF MonitorOK, Begun
  <2> QED
    BY <1>1, <1>3, <2>2, <2>4, BagAdds, BagRemoves DEF MonitorsOK
<1> QED
  BY <1>1, <1>4, <1>5 DEF MonitorStep, Poll, PollFails, Refreshed, StopWatching, PollingEnds

LEMMA MonitorsStep ==
    ASSUME PlansOK, CallsOK, MonitorsOK, BackgroundOK, DialogOK, [Next]_vars
    PROVE  MonitorsOK'
<1>1. PlansOK' /\ PlansGrow
  BY PlansStep
<1>2. page' = page /\ UNCHANGED monitors => MonitorsOK'
  BY <1>1, MonitorStays DEF MonitorsOK, MonitorOK
<1>3. CASE UserOfOverview
  <2>1. page' = page /\ plans' = plans
    BY <1>3, UserFrame DEF coreVars
  <2>2. CASE MoveToBackground /\ ~InBackground(action.operation.id)
    <3>1. PICK o : o = action.operation.id
      OBVIOUS
    <3>2. Begun(o)' /\ page = "overview" /\ monitors' = Watch(o)
      BY <2>1, <2>2, <3>1 DEF MoveToBackground, DialogRuns, Running, DialogOK, Begun
    <3> QED
      BY <1>1, <2>1, <3>2, MonitorStarts
  <2> QED
    BY <1>2, <1>3, <2>1, <2>2 DEF UserOfOverview, ClickAction, BeginAction, Replan, ClickConfirm,
       MoveToBackground, ShowBackground, Cancel, Reverify, overviewVars
<1>4. CASE UserOfModels /\ UNCHANGED overviewVars
  BY <1>2, <1>4, UserFrame DEF coreVars, overviewVars
<1>5. ASSUME NEW next \in Pages, Open(next)
      PROVE  MonitorsOK'
  <2>1. page' = next /\ page # next /\ plans' = plans
    BY <1>5 DEF Open
  <2>2. CASE page = "overview"
    <3>1. OverviewCloses
      BY <1>5, <2>2 DEF Open
    <3>2. ASSUME NEW m \in BagToSet(monitors')
          PROVE  MonitorOK(m)'
      <4>1. PICK n \in BagToSet(monitors) : m = [n EXCEPT !.here = FALSE]
        BY <3>1, LoopsAreLeft
      <4>2. n \in Monitors /\ MonitorOK(n)
        BY DEF MonitorsOK, MonitorOK
      <4> QED
        BY <2>1, <4>1, <4>2, MonitorBecomes DEF MonitorOK, Begun
    <3> QED
      BY <3>2 DEF MonitorsOK
  <2>3. CASE page # "overview" /\ next = "overview"
    <3>1. OverviewOpens
      BY <1>5, <2>3 DEF Open
    <3>2. CASE stored = 0
      BY <1>1, <2>1, <2>3, <3>1, <3>2, MonitorStays DEF OverviewOpens, MonitorsOK
    <3>3. CASE stored # 0
      <4>1. PICK o : o = stored /\ Begun(o)' /\ monitors' = Watch(o)
        BY <2>1, <3>1, <3>3 DEF OverviewOpens, Resume, BackgroundOK, Operated, Begun
      <4> QED
        BY <1>1, <2>1, <2>3, <4>1, MonitorStarts
    <3> QED
      BY <3>2, <3>3
  <2>4. CASE page # "overview" /\ next # "overview"
    <3>1. UNCHANGED overviewVars
      BY <1>5, <2>4 DEF Open
    <3> QED
      BY <1>1, <2>4, <3>1, MonitorStays DEF MonitorsOK, MonitorOK, overviewVars
  <2> QED
    BY <2>2, <2>3, <2>4
<1>6. CASE CoreStep /\ UNCHANGED overviewVars
  BY <1>2, <1>6, CoreMoves DEF overviewVars
<1>7. ASSUME NEW c \in BagToSet(calls), AnswerToOverview(c)
      PROVE  MonitorsOK'
  <2>1. PICK result :
            /\ CoreAnswers(c, result)
            /\ PlanArrives(c, result) \/ ConfirmationArrives(c, result) \/ VerificationArrives(c, result)
    BY <1>7 DEF AnswerToOverview
  <2>2. page' = page /\ page = "overview"
    BY <1>7 DEF AnswerToOverview
  <2>3. CASE ConfirmationArrives(c, result) /\ result = "ok" /\ c.kind # "managed"
    <3>1. Begun(c.plan)' /\ monitors' = Watch(c.plan)
      BY <2>1, <2>2, <2>3, CoreAnswered DEF ConfirmationArrives, Started
    <3> QED
      BY <1>1, <2>2, <3>1, MonitorStarts
  <2> QED
    BY <1>2, <2>1, <2>2, <2>3 DEF PlanArrives, ConfirmationArrives, ConfirmationFailed, Submitted,
       VerificationArrives
<1>8. ASSUME NEW c, AnswerToModels(c) \/ AnswersNobody(c), UNCHANGED overviewVars
      PROVE  MonitorsOK'
  BY <1>2, <1>8 DEF AnswerToModels, AnswersNobody, overviewVars
<1>9. ASSUME NEW m \in BagToSet(monitors), MonitorStep(m) \/ PollingEnds(m)
      PROVE  MonitorsOK'
  BY <1>9, LoopMoves
<1>10. CASE UNCHANGED vars
  BY <1>2, <1>10 DEF vars, callVars, overviewVars
<1> QED
  BY <1>3, <1>4, <1>5, <1>6, <1>7, <1>8, <1>9, <1>10, NextCases
-----------------------------------------------------------------------------
(* The operation in the background. *)

LEMMA BackgroundStays ==
    ASSUME PlansOK, PlansOK', PlansGrow, BackgroundOK, page' = page, UNCHANGED <<background, stored>>
    PROVE  BackgroundOK'
  BY DEF BackgroundOK, Operated, Begun, PlansOK, PlansGrow

\* A loop shows the status it has read.
LEMMA StatusShown ==
    ASSUME NEW o \in Operations, NEW status \in {"running", "succeeded", "failed"}
    PROVE  /\ [o EXCEPT !.status = status] \in Operations
           /\ [o EXCEPT !.status = status].id = o.id
           /\ [o EXCEPT !.status = status].status = status
  BY DEF Operations

LEMMA PolledStatus ==
    ASSUME PlansOK, NEW m, MonitorOK(m), plans[m.op].state # "lost"
    PROVE  plans[m.op].state \in {"running", "succeeded", "failed"}
  BY PlanTyped DEF MonitorOK, Begun, PlanStates

LEMMA BackgroundLoop ==
    ASSUME PlansOK, MonitorsOK, BackgroundOK, NEW m \in BagToSet(monitors),
           MonitorStep(m) \/ PollingEnds(m)
    PROVE  BackgroundOK'
<1>1. UNCHANGED <<page, plans>> /\ MonitorOK(m)
  BY LoopMoves DEF MonitorsOK
<1>2. UNCHANGED <<background, stored>> => BackgroundOK'
  BY <1>1 DEF BackgroundOK, Operated, Begun
<1>3. CASE Poll(m)
  <2> DEFINE status == plans[m.op].state
             showing == [background EXCEPT !.status = status]
  <2>1. stored' = stored /\ (background' = background \/ (InBackground(m.op) /\ background' = showing))
    BY <1>3 DEF Poll, ShowStatus
  <2>2. status \in {"running", "succeeded", "failed"}
    BY <1>1, <1>3, PolledStatus DEF Poll
  <2>3. CASE InBackground(m.op) /\ background' = showing
    <3>1. background \in Operations /\ background # None /\ background.id = m.op
      BY <2>3 DEF InBackground, BackgroundOK
    <3>2. showing \in Operations /\ showing.id = m.op /\ showing.status = status
      BY <2>2, <3>1, StatusShown
    <3> HIDE DEF showing
    <3> QED
      BY <1>1, <2>1, <2>2, <2>3, <3>1, <3>2, NoneIsNoOperation
         DEF BackgroundOK, Operated, Begun, IsOver
  <2> QED
    BY <1>2, <2>1, <2>3
<1>4. CASE Refreshed(m)
  BY <1>1, <1>4 DEF Refreshed, BackgroundOK, InBackground, MonitorOK, Operated, Begun, Forgets
<1> QED
  BY <1>2, <1>3, <1>4 DEF MonitorStep, PollFails, StopWatching, PollingEnds

LEMMA BackgroundStep ==
    ASSUME PlansOK, CallsOK, MonitorsOK, BackgroundOK, DialogOK, [Next]_vars
    PROVE  BackgroundOK'
<1>1. PlansOK' /\ PlansGrow
  BY PlansStep
<1>2. page' = page /\ UNCHANGED <<background, stored>> => BackgroundOK'
  BY <1>1, BackgroundStays
<1>3. CASE UserOfOverview
  <2>1. page' = page /\ plans' = plans
    BY <1>3, UserFrame DEF coreVars
  <2>2. CASE MoveToBackground
    <3>1. /\ action # None /\ action.operation # None /\ action.operation \in Operations
          /\ action.operation.status = "running" /\ page = "overview"
          /\ action.service \in Services /\ action.name \in Actions
          /\ Begun(action.operation.id)
      BY <2>2 DEF MoveToBackground, DialogRuns, Running, DialogOK, Dialogs
    <3>2. Operated(action.operation.id)
      BY <3>1 DEF DialogOK, DialogFits, Operated, Begun
    <3>3. background' = action.operation /\ stored' = action.operation.id
      BY <2>2 DEF MoveToBackground
    <3> QED
      BY <2>1, <3>1, <3>2, <3>3 DEF BackgroundOK, Operated, Begun
  <2> QED
    BY <1>2, <1>3, <2>1, <2>2 DEF UserOfOverview, ClickAction, BeginAction, Replan, ClickConfirm,
       ShowBackground, Cancel, Reverify, overviewVars
<1>4. CASE UserOfModels /\ UNCHANGED overviewVars
  BY <1>2, <1>4, UserFrame DEF coreVars, overviewVars
<1>5. ASSUME NEW next \in Pages, Open(next)
      PROVE  BackgroundOK'
  <2>1. page' = next /\ page # next /\ plans' = plans
    BY <1>5 DEF Open
  <2>2. CASE page = "overview"
    BY <1>5, <2>1, <2>2 DEF Open, OverviewCloses, BackgroundOK, Operated, Begun
  <2>3. CASE page # "overview" /\ next = "overview"
    <3>1. stored' = stored
          /\ background' = IF stored = 0 THEN None ELSE [id |-> stored, status |-> "running"]
      BY <1>5, <2>3 DEF Open, OverviewOpens
    <3>2. stored # 0 => [id |-> stored, status |-> "running"] \in Operations
      BY CallBounds DEF Operations, BackgroundOK, Operated, Begun, PlansOK, PlanIds
    <3> QED
      BY <2>1, <2>3, <3>1, <3>2, NoneIsNoOperation DEF BackgroundOK, Operated, Begun
  <2>4. CASE page # "overview" /\ next # "overview"
    BY <1>5, <2>1, <2>4 DEF Open, overviewVars, BackgroundOK, Operated, Begun
  <2> QED
    BY <2>2, <2>3, <2>4
<1>6. CASE CoreStep /\ UNCHANGED overviewVars
  BY <1>2, <1>6, CoreMoves DEF overviewVars
<1>7. ASSUME NEW c, \/ AnswerToOverview(c)
                    \/ (AnswerToModels(c) \/ AnswersNobody(c)) /\ UNCHANGED overviewVars
      PROVE  BackgroundOK'
  BY <1>2, <1>7 DEF AnswerToOverview, PlanArrives, ConfirmationArrives, VerificationArrives,
     AnswerToModels, AnswersNobody, overviewVars
<1>8. ASSUME NEW m \in BagToSet(monitors), MonitorStep(m) \/ PollingEnds(m)
      PROVE  BackgroundOK'
  BY <1>8, BackgroundLoop
<1>9. CASE UNCHANGED vars
  BY <1>2, <1>9 DEF vars, callVars, overviewVars
<1> QED
  BY <1>3, <1>4, <1>5, <1>6, <1>7, <1>8, <1>9, NextCases
-----------------------------------------------------------------------------
(* The dialog. *)

\* What a dialog must satisfy with the plans, the background and the calls.
LEMMA DialogMeans ==
    ASSUME failed \subseteq 1..Len(plans),
           action # None =>
             /\ action \in Dialogs /\ page = "overview" /\ action.plan \in 0..Len(plans)
             /\ action.plan \in failed => action.error
             /\ action.plan # 0 => /\ plans[action.plan].subject = action.service
                                   /\ plans[action.plan].name = action.name
             /\ action.operation = None => ~Running(background)
             /\ action.operation # None =>
                  /\ Begun(action.operation.id)
                  /\ plans[action.operation.id].subject = action.service
                  /\ plans[action.operation.id].name = action.name
                  /\ Confirming(action.plan) => action.plan = action.operation.id
                  /\ Running(background) => action.operation.id = background.id
    PROVE  DialogOK
  BY DEF DialogOK, DialogFits

LEMMA DialogHas ==
    ASSUME DialogOK, action # None
    PROVE  /\ action \in Dialogs /\ page = "overview" /\ action.plan \in 0..Len(plans)
           /\ action.plan \in failed => action.error
           /\ action.plan # 0 => /\ plans[action.plan].subject = action.service
                                 /\ plans[action.plan].name = action.name
           /\ action.operation = None => ~Running(background)
           /\ action.operation # None =>
                /\ action.operation \in Operations /\ Begun(action.operation.id)
                /\ plans[action.operation.id].subject = action.service
                /\ plans[action.operation.id].name = action.name
                /\ Confirming(action.plan) => action.plan = action.operation.id
                /\ Running(background) => action.operation.id = background.id
  BY DEF DialogOK, DialogFits, Dialogs, Begun

\* The same dialog over the same background, with more plans and no confirmation
\* more of its own.
LEMMA DialogStays ==
    ASSUME PlansOK, PlansOK', PlansGrow, DialogOK, page' = page,
           UNCHANGED <<action, background, failed>>,
           action # None /\ action.operation # None =>
               (Confirming(action.plan)' => Confirming(action.plan))
    PROVE  DialogOK'
<1>1. failed' \subseteq 1..Len(plans')
  BY DEF DialogOK, PlansGrow, PlansOK
<1>2. CASE action # None
  <2>1. action.plan \in 0..Len(plans')
    BY <1>2, DialogHas DEF PlansOK, PlansGrow
  <2>2. action.plan # 0 => /\ plans'[action.plan].subject = action.service
                           /\ plans'[action.plan].name = action.name
    BY <1>2, DialogHas DEF PlansOK, PlansGrow
  <2>3. action.operation # None =>
          /\ action.operation.id \in 1..Len(plans')
          /\ plans'[action.operation.id].state \notin {"offered", "gone"}
          /\ plans'[action.operation.id].subject = action.service
          /\ plans'[action.operation.id].name = action.name
    BY <1>2, DialogHas DEF PlansOK, PlansGrow, Begun
  <2> QED
    BY <1>1, <1>2, <2>1, <2>2, <2>3, DialogHas, DialogMeans DEF DialogOK, DialogFits, Begun
<1>3. CASE action = None
  BY <1>1, <1>3 DEF DialogOK, DialogFits
<1> QED
  BY <1>2, <1>3

LEMMA DialogCloses ==
    ASSUME PlansOK, PlansOK', PlansGrow, DialogOK, action' = None, failed' = failed
    PROVE  DialogOK'
  BY DEF DialogOK, DialogFits, PlansOK, PlansGrow

\* No confirmation by the overview is added by other calls and by answers.
LEMMA NoConfirmationMore ==
    ASSUME CallsOK, NEW c, NEW p, Confirming(p)',
           \/ c \in BagToSet(calls) /\ Take(c)
           \/ \E ask, kind, subject, name, plan :
                (ask # "confirm" \/ page # "overview") /\ Send(ask, kind, subject, name, plan)
           \/ UNCHANGED calls
    PROVE  Confirming(p)
<1>1. CASE c \in BagToSet(calls) /\ Take(c)
  BY <1>1, BagRemoves DEF Take, Confirming
<1>2. CASE \E ask, kind, subject, name, plan :
             (ask # "confirm" \/ page # "overview") /\ Send(ask, kind, subject, name, plan)
  <2>1. PICK call : /\ call.from = page /\ (call.ask # "confirm" \/ page # "overview")
                    /\ calls' = BagAdd(calls, call)
    BY <1>2 DEF Send
  <2> QED
    BY <2>1, BagAdds DEF Confirming
<1>3. CASE UNCHANGED calls
  BY <1>3 DEF Confirming
<1> QED
  BY <1>1, <1>2, <1>3

\* A dialog as it is opened, to plan or to show an operation.
LEMMA DialogFields ==
    ASSUME NEW s \in Services, NEW a \in Actions
    PROVE  /\ Dialog(s, a) \in Dialogs /\ Dialog(s, a).plan = 0 /\ Dialog(s, a).operation = None
           /\ Dialog(s, a).service = s /\ Dialog(s, a).name = a
  BY CallBounds DEF Dialog, Dialogs

LEMMA DialogToPlan ==
    ASSUME NEW d \in Dialogs
    PROVE  /\ [d EXCEPT !.planning = TRUE] \in Dialogs
           /\ [d EXCEPT !.planning = TRUE].plan = d.plan
           /\ [d EXCEPT !.planning = TRUE].operation = d.operation
  BY DEF Dialogs

LEMMA DialogToShow ==
    ASSUME NEW d \in Dialogs, NEW o \in Operations
    PROVE  /\ [d EXCEPT !.operation = o] \in Dialogs
           /\ [d EXCEPT !.operation = o].plan = d.plan
           /\ [d EXCEPT !.operation = o].operation = o
           /\ [d EXCEPT !.operation = o].service = d.service
           /\ [d EXCEPT !.operation = o].name = d.name
           /\ [d EXCEPT !.operation = o].error = d.error
  BY DEF Dialogs

\* A plan is asked for, in a dialog of its own.
LEMMA DialogBegins ==
    ASSUME PlansOK, DialogOK, page = "overview", page' = page, plans' = plans,
           ~Running(background), NEW s \in Services, NEW a \in Actions, BeginAction(s, a)
    PROVE  DialogOK'
<1> DEFINE dialog == [Dialog(s, a) EXCEPT !.planning = TRUE]
<1>1. /\ dialog \in Dialogs /\ dialog.plan = 0 /\ dialog.operation = None
  BY DialogFields, DialogToPlan
<1>2. action' = dialog /\ UNCHANGED <<background, failed>>
  BY DEF BeginAction
<1> HIDE DEF dialog
<1>3. failed \subseteq 1..Len(plans) /\ Len(plans) \in Nat
  BY DEF DialogOK, PlansOK
<1> QED
  BY <1>1, <1>2, <1>3 DEF DialogOK, DialogFits, Running

LEMMA DialogUser ==
    ASSUME PlansOK, CallsOK, BackgroundOK, DialogOK, UserOfOverview
    PROVE  DialogOK'
<1>1. page' = page /\ plans' = plans /\ PlansOK' /\ PlansGrow
  BY UserFrame, PlansSame DEF coreVars, PlansOK
<1>2. ASSUME NEW s \in Services, NEW a \in Actions, ClickAction(s, a)
      PROVE  DialogOK'
  BY <1>1, <1>2, DialogBegins DEF ClickAction, ControlsBusy
<1>3. CASE Replan
  <2>1. /\ action # None /\ action.operation = None /\ page = "overview"
        /\ BeginAction(action.service, action.name)
    BY <1>3 DEF Replan, CanSubmit
  <2>2. PICK s \in Services, a \in Actions : s = action.service /\ a = action.name
    BY <2>1, DialogHas DEF Dialogs
  <2> QED
    BY <1>1, <2>1, <2>2, DialogHas, DialogBegins
<1>4. CASE ClickConfirm
  BY <1>1, <1>4, DialogStays DEF ClickConfirm, CanSubmit, overviewVars
<1>5. CASE MoveToBackground \/ Cancel
  BY <1>1, <1>5, DialogCloses DEF MoveToBackground, Cancel
<1>6. CASE ShowBackground
  <2> DEFINE o == background.id
             dialog == [Dialog(plans[o].subject, plans[o].name) EXCEPT !.operation = background]
  <2>1. background \in Operations /\ Operated(o) /\ page = "overview"
    BY <1>6 DEF ShowBackground, BackgroundOK
  <2>2. /\ dialog \in Dialogs /\ dialog.plan = 0 /\ dialog.operation = background
        /\ dialog.service = plans[o].subject /\ dialog.name = plans[o].name
    <3> DEFINE opened == Dialog(plans[o].subject, plans[o].name)
    <3>1. /\ opened \in Dialogs /\ opened.plan = 0
          /\ opened.service = plans[o].subject /\ opened.name = plans[o].name
      BY <2>1, DialogFields DEF Operated
    <3> HIDE DEF opened
    <3>2. dialog = [opened EXCEPT !.operation = background]
      BY DEF opened
    <3> HIDE DEF dialog, o
    <3> QED
      BY <2>1, <3>1, <3>2, DialogToShow
  <2>3. action' = dialog /\ UNCHANGED <<background, failed, calls>>
    BY <1>6 DEF ShowBackground, callVars
  <2> HIDE DEF dialog
  <2>4. failed \subseteq 1..Len(plans) /\ Len(plans) \in Nat /\ ~Confirming(0)
    BY DEF DialogOK, PlansOK, Confirming, CallsOK, CallOK
  <2> QED
    BY <1>1, <2>1, <2>2, <2>3, <2>4 DEF DialogOK, DialogFits, Operated, Begun, Confirming, Running
<1>7. CASE Reverify
  <2>1. UNCHANGED <<action, background, failed>> /\ Send("verify", None, None, None, 0)
    BY <1>7 DEF Reverify, overviewVars
  <2>2. \A p : Confirming(p)' => Confirming(p)
    BY <2>1, NoConfirmationMore
  <2> QED
    BY <1>1, <2>1, <2>2, DialogStays
<1> QED
  BY <1>2, <1>3, <1>4, <1>5, <1>6, <1>7 DEF UserOfOverview

\* The same dialog after a plan, an error or a status has arrived.
LEMMA DialogPlanned ==
    ASSUME NEW d \in Dialogs, NEW p \in 0..MaxPlans
    PROVE  LET e == [d EXCEPT !.planning = FALSE, !.plan = p] IN
           /\ e \in Dialogs /\ e.plan = p /\ e.operation = d.operation /\ e.error = d.error
           /\ e.service = d.service /\ e.name = d.name
  BY DEF Dialogs

LEMMA DialogErrs ==
    ASSUME NEW d \in Dialogs, NEW e, NEW reverify \in BOOLEAN,
           \/ e = [d EXCEPT !.error = TRUE]
           \/ e = [d EXCEPT !.planning = FALSE, !.error = TRUE, !.reverify = reverify]
           \/ e = [d EXCEPT !.error = TRUE, !.reverify = reverify, !.plan = IF reverify THEN 0 ELSE @]
    PROVE  /\ e \in Dialogs /\ e.error /\ e.plan \in {0, d.plan} /\ e.operation = d.operation
           /\ e.service = d.service /\ e.name = d.name
<1>1. CASE e = [d EXCEPT !.error = TRUE]
  BY <1>1 DEF Dialogs
<1>2. CASE e = [d EXCEPT !.planning = FALSE, !.error = TRUE, !.reverify = reverify]
  BY <1>2 DEF Dialogs
<1>3. CASE e = [d EXCEPT !.error = TRUE, !.reverify = reverify, !.plan = IF reverify THEN 0 ELSE @]
  <2>1. PICK plan \in 0..MaxPlans : plan = IF reverify THEN 0 ELSE d.plan
    BY CallBounds DEF Dialogs
  <2>2. e = [d EXCEPT !.error = TRUE, !.reverify = reverify, !.plan = plan]
    BY <1>3, <2>1 DEF Dialogs
  <2> QED
    BY <2>1, <2>2 DEF Dialogs
<1> QED
  BY <1>1, <1>2, <1>3

LEMMA DialogStatus ==
    ASSUME NEW d \in Dialogs, d.operation \in Operations,
           NEW status \in {"running", "succeeded", "failed"}
    PROVE  LET e == [d EXCEPT !.operation.status = status] IN
           /\ e \in Dialogs /\ e.plan = d.plan /\ e.error = d.error
           /\ e.service = d.service /\ e.name = d.name
           /\ e.operation \in Operations /\ e.operation.id = d.operation.id
<1> DEFINE showing == [d.operation EXCEPT !.status = status]
<1>1. showing \in Operations /\ showing.id = d.operation.id
  BY StatusShown
<1>2. [d EXCEPT !.operation.status = status] = [d EXCEPT !.operation = showing]
  OBVIOUS
<1> HIDE DEF showing
<1>3. /\ [d EXCEPT !.operation = showing] \in Dialogs
      /\ [d EXCEPT !.operation = showing].plan = d.plan
      /\ [d EXCEPT !.operation = showing].operation = showing
      /\ [d EXCEPT !.operation = showing].service = d.service
      /\ [d EXCEPT !.operation = showing].name = d.name
      /\ [d EXCEPT !.operation = showing].error = d.error
  BY <1>1 DEF Dialogs
<1> QED
  BY <1>1, <1>2, <1>3

\* The dialog with an error more.
LEMMA DialogWithError ==
    ASSUME PlansOK, PlansOK', PlansGrow, CallsOK, DialogOK, page' = page, background' = background,
           action # None, NEW reverify \in BOOLEAN,
           \/ action' = [action EXCEPT !.error = TRUE]
           \/ action' = [action EXCEPT !.planning = FALSE, !.error = TRUE, !.reverify = reverify]
           \/ action' = [action EXCEPT !.error = TRUE, !.reverify = reverify,
                                       !.plan = IF reverify THEN 0 ELSE @],
           failed' \subseteq 1..Len(plans), \A p : Confirming(p)' => Confirming(p)
    PROVE  DialogOK'
<1>1. /\ action' \in Dialogs /\ action'.error /\ action'.plan \in {0, action.plan}
      /\ action'.operation = action.operation
      /\ action'.service = action.service /\ action'.name = action.name
  BY DialogHas, DialogErrs
<1>2. ~Confirming(0)
  BY DEF Confirming, CallsOK, CallOK
<1>3. action'.operation # None =>
        (Confirming(action'.plan) => action'.plan = action.operation.id)
  BY <1>1, <1>2, DialogHas
<1>4. action'.operation # None =>
        (Confirming(action.plan)' => action'.plan = action.operation.id)
  BY <1>1, <1>3
<1>5. action'.plan \in 0..Len(plans') /\ failed' \subseteq 1..Len(plans')
  BY <1>1, DialogHas DEF PlansOK, PlansGrow
<1>6. action'.plan # 0 => /\ plans'[action'.plan].subject = action.service
                          /\ plans'[action'.plan].name = action.name
  BY <1>1, DialogHas DEF PlansOK, PlansGrow
<1>7. action.operation # None =>
        /\ action.operation.id \in 1..Len(plans')
        /\ plans'[action.operation.id].state \notin {"offered", "gone"}
        /\ plans'[action.operation.id].subject = action.service
        /\ plans'[action.operation.id].name = action.name
  BY DialogHas DEF PlansOK, PlansGrow, Begun
<1> QED
  BY <1>1, <1>4, <1>5, <1>6, <1>7, DialogHas DEF DialogOK, DialogFits, Begun, Running

LEMMA DialogAnswer ==
    ASSUME PlansOK, CallsOK, DialogOK, NEW c \in BagToSet(calls), AnswerToOverview(c)
    PROVE  DialogOK'
<1>1. PICK result : /\ CoreAnswers(c, result)
                    /\ \/ PlanArrives(c, result) \/ ConfirmationArrives(c, result)
                       \/ VerificationArrives(c, result)
  BY DEF AnswerToOverview
<1>2. page' = page /\ page = "overview" /\ Take(c)
  BY <1>1 DEF AnswerToOverview, PlanArrives, ConfirmationArrives, VerificationArrives
<1>3. PlansOK' /\ PlansGrow
  BY <1>1, <1>2, CoreAnswered
<1>4. \A p : Confirming(p)' => Confirming(p)
  BY <1>2, NoConfirmationMore
<1>5. failed \subseteq 1..Len(plans)
  BY DEF DialogOK
<1>6. UNCHANGED <<action, background, failed>> => DialogOK'
  BY <1>2, <1>3, <1>4, DialogStays
<1>7. CASE PlanArrives(c, result)
  <2>1. UNCHANGED <<background, failed>> /\ c.ask = "plan"
    BY <1>7 DEF PlanArrives
  <2>2. CASE ~FitsDialog(c)
    BY <1>6, <1>7, <2>1, <2>2 DEF PlanArrives
  <2>3. CASE FitsDialog(c) /\ result = "ok"
    <3>1. action # None /\ action.service = c.subject /\ action.name = c.name
      BY <2>3 DEF FitsDialog
    <3>2. OfferPlan(c)
      BY <1>1, <1>2, <2>1, <2>3, CoreAnswered
    <3>3. /\ NewPlan \in 1..MaxPlans /\ Len(plans') = NewPlan
          /\ plans'[NewPlan].subject = c.subject /\ plans'[NewPlan].name = c.name
      BY <1>2, <3>2, PlanOffered
    <3>4. action' = [action EXCEPT !.planning = FALSE, !.plan = NewPlan]
      BY <1>7, <2>3 DEF PlanArrives
    <3>5. /\ action' \in Dialogs /\ action'.plan = NewPlan /\ action'.operation = action.operation
          /\ action'.service = action.service /\ action'.name = action.name
      <4>1. PICK p \in 0..MaxPlans : p = NewPlan
        BY <3>3
      <4>2. action \in Dialogs
        BY <3>1, DialogHas
      <4> QED
        BY <3>4, <4>1, <4>2, DialogPlanned
    <3>6. NewPlan \notin 1..Len(plans) /\ Len(plans) \in Nat
      BY DEF NewPlan, PlansOK
    <3>7. ~Confirming(NewPlan)
      BY <3>6 DEF Confirming, CallsOK, CallOK, NewPlan
    <3>8. ~Confirming(action.plan)'
      BY <1>4, <3>5, <3>7
    <3>9. action.operation # None =>
            /\ action.operation.id \in 1..Len(plans')
            /\ plans'[action.operation.id].state \notin {"offered", "gone"}
            /\ plans'[action.operation.id].subject = action.service
            /\ plans'[action.operation.id].name = action.name
      BY <1>3, <3>1, DialogHas DEF PlansOK, PlansGrow, Begun
    <3>10. failed \subseteq 1..Len(plans') /\ NewPlan \notin failed /\ NewPlan \in 1..Len(plans')
      BY <1>5, <3>3, <3>6 DEF NewPlan
    <3> QED
      BY <1>2, <2>1, <3>1, <3>3, <3>5, <3>8, <3>9, <3>10, DialogHas
         DEF DialogOK, DialogFits, Begun, Running
  <2>4. CASE FitsDialog(c) /\ result # "ok"
    <3>1. PICK reverify \in BOOLEAN : reverify = (result = "reverify")
      OBVIOUS
    <3>2. action # None
          /\ action' = [action EXCEPT !.planning = FALSE, !.error = TRUE, !.reverify = reverify]
      BY <1>7, <2>4, <3>1 DEF PlanArrives, FitsDialog
    <3> QED
      BY <1>2, <1>3, <1>4, <1>5, <2>1, <3>2, DialogWithError
  <2> QED
    BY <2>2, <2>3, <2>4
<1>8. CASE ConfirmationArrives(c, result)
  <2>1. background' = background /\ c.ask = "confirm"
    BY <1>8 DEF ConfirmationArrives
  <2>2. CASE result # "ok"
    <3>1. ConfirmationFailed(c, result = "reverify")
      BY <1>8, <2>2 DEF ConfirmationArrives
    <3>2. c.plan \in 1..Len(plans)
      BY <2>1 DEF CallsOK, CallOK, PlansOK
    <3>3. failed' \subseteq 1..Len(plans)
      BY <1>5, <3>1, <3>2 DEF ConfirmationFailed
    <3>4. CASE action = None
      BY <1>3, <3>1, <3>3, <3>4 DEF ConfirmationFailed, DialogOK, DialogFits, PlansOK, PlansGrow
    <3>5. CASE action # None
      <4>1. PICK reverify \in BOOLEAN : reverify = (result = "reverify")
        OBVIOUS
      <4>2. action' = [action EXCEPT !.error = TRUE, !.reverify = reverify,
                                     !.plan = IF reverify THEN 0 ELSE @]
        BY <3>1, <3>5, <4>1 DEF ConfirmationFailed
      <4> QED
        BY <1>2, <1>3, <1>4, <2>1, <3>3, <3>5, <4>2, DialogWithError
    <3> QED
      BY <3>4, <3>5
  <2>3. CASE result = "ok" /\ c.kind = "managed"
    BY <1>3, <1>8, <2>3, DialogCloses DEF ConfirmationArrives, Submitted
  <2>4. CASE result = "ok" /\ c.kind # "managed"
    <3>1. Started(c) /\ failed' = failed
      BY <1>8, <2>4 DEF ConfirmationArrives, Started
    <3>2. CASE action = None \/ action.plan # c.plan
      BY <1>6, <2>1, <3>1, <3>2 DEF Started
    <3>3. CASE action # None /\ action.plan = c.plan
      <4>1. PICK o : o = [id |-> c.plan, status |-> "running"]
        OBVIOUS
      <4>2. c.plan \in 1..Len(plans) /\ Begun(c.plan)'
        BY <1>1, <1>2, <2>1, <2>4, CoreAnswered
      <4>3. o \in Operations /\ o.id = c.plan
        BY <4>1, <4>2 DEF Operations, PlanIds, CallsOK, CallOK, Calls
      <4>4. action' = [action EXCEPT !.operation = o]
        BY <3>1, <3>3, <4>1 DEF Started
      <4>5. /\ action' \in Dialogs /\ action'.plan = c.plan /\ action'.operation = o
            /\ action'.service = action.service /\ action'.name = action.name
            /\ action'.error = action.error
        BY <3>3, <4>3, <4>4, DialogHas, DialogToShow
      <4>6. Confirming(c.plan)
        BY <1>2, <2>1 DEF Confirming, AnswerToOverview
      <4>7. Running(background) => c.plan = background.id
        BY <3>3, <4>6, DialogHas
      <4>8. /\ plans'[c.plan].subject = action.service /\ plans'[c.plan].name = action.name
            /\ c.plan \in 1..Len(plans') /\ failed \subseteq 1..Len(plans')
        BY <1>3, <1>5, <3>3, <4>2, DialogHas DEF PlansGrow, PlansOK
      <4> QED
        BY <1>2, <2>1, <3>1, <3>3, <4>2, <4>3, <4>5, <4>7, <4>8, DialogHas, NoneIsNoOperation
           DEF DialogOK, DialogFits, Begun, Running
    <3> QED
      BY <3>2, <3>3
  <2> QED
    BY <2>2, <2>3, <2>4
<1>9. CASE VerificationArrives(c, result)
  <2>1. UNCHANGED <<background, failed>>
    BY <1>9 DEF VerificationArrives
  <2>2. CASE action = None \/ result = "ok"
    BY <1>3, <1>9, <2>1, <2>2, DialogCloses DEF VerificationArrives
  <2>3. CASE action # None /\ result # "ok"
    BY <1>2, <1>3, <1>4, <1>5, <1>9, <2>1, <2>3, DialogWithError DEF VerificationArrives
  <2> QED
    BY <2>2, <2>3
<1> QED
  BY <1>1, <1>7, <1>8, <1>9

LEMMA DialogLoop ==
    ASSUME PlansOK, CallsOK, MonitorsOK, BackgroundOK, DialogOK, NEW m \in BagToSet(monitors),
           MonitorStep(m) \/ PollingEnds(m)
    PROVE  DialogOK'
<1>1. UNCHANGED <<page, plans, calls, failed>> /\ MonitorOK(m)
  BY LoopMoves DEF MonitorsOK
<1>2. PlansOK' /\ PlansGrow /\ \A p : Confirming(p)' => Confirming(p)
  BY <1>1, PlansSame DEF PlansOK, Confirming
<1>3. UNCHANGED <<action, background>> => DialogOK'
  BY <1>1, <1>2, DialogStays
<1>4. action' = None => DialogOK'
  BY <1>1, <1>2, DialogCloses
<1>5. CASE Poll(m)
  <2> DEFINE status == plans[m.op].state
             follows == [action EXCEPT !.operation.status = status]
  <2>1. ~m.here => UNCHANGED <<action, background>>
    BY <1>5 DEF Poll
  <2>2. status \in {"running", "succeeded", "failed"}
    BY <1>1, <1>5, PolledStatus DEF Poll
  <2>3. /\ m.here => action' = IF DialogShows(m.op) THEN follows ELSE action
        /\ m.here => background' = IF InBackground(m.op)
                                   THEN [background EXCEPT !.status = status] ELSE background
    BY <1>5 DEF Poll, ShowStatus
  <2>4. Running(background') => Running(background) /\ background'.id = background.id
    <3>1. CASE m.here /\ InBackground(m.op)
      <4>1. background \in Operations /\ background # None /\ background.id = m.op
        BY <3>1 DEF InBackground, BackgroundOK
      <4>2. background'.status = status /\ background'.id = background.id
        <5>1. background' = [background EXCEPT !.status = status]
          BY <2>3, <3>1
        <5> HIDE DEF status
        <5> QED
          BY <2>2, <4>1, <5>1, StatusShown
      <4>3. background.status # "running" => IsOver(status)
        BY <4>1 DEF BackgroundOK
      <4> QED
        BY <4>1, <4>2, <4>3 DEF Running, IsOver
    <3>2. CASE ~(m.here /\ InBackground(m.op))
      BY <2>1, <2>3, <3>2
    <3> QED
      BY <3>1, <3>2
  <2>5. CASE action = None
    BY <1>4, <2>1, <2>3, <2>5 DEF DialogShows
  <2>6. CASE action # None
    <3>1. /\ action' \in Dialogs /\ action'.plan = action.plan /\ action'.error = action.error
          /\ action'.service = action.service /\ action'.name = action.name
          /\ action.operation = None => action'.operation = None
          /\ action.operation # None => /\ action'.operation \in Operations
                                        /\ action'.operation.id = action.operation.id
      <4>1. CASE action' = action
        BY <2>6, <4>1, DialogHas
      <4>2. CASE action' = follows /\ DialogShows(m.op)
        <5>1. action \in Dialogs /\ action.operation # None /\ action.operation \in Operations
          BY <2>6, <4>2, DialogHas DEF DialogShows
        <5> HIDE DEF status
        <5> QED
          BY <2>2, <4>2, <5>1, DialogStatus
      <4> QED
        BY <2>1, <2>3, <4>1, <4>2
    <3>2. Running(background)' => Running(background) /\ background'.id = background.id
      BY <2>4 DEF Running
    <3>3. Confirming(action.plan)' => Confirming(action.plan)
      BY <1>1, <3>1 DEF Confirming
    <3> QED
      BY <1>1, <2>6, <3>1, <3>2, <3>3, DialogHas, NoneIsNoOperation DEF DialogOK, DialogFits, Begun
  <2> QED
    BY <2>5, <2>6
<1>6. CASE Refreshed(m)
  <2>1. CASE m.here /\ DialogShows(m.op)
    BY <1>4, <1>6, <2>1 DEF Refreshed
  <2>2. CASE ~(m.here /\ DialogShows(m.op)) /\ m.here /\ InBackground(m.op)
    <3>1. action' = action /\ background' = None
      BY <1>6, <2>2 DEF Refreshed
    <3> QED
      BY <1>1, <3>1 DEF DialogOK, DialogFits, Begun, Confirming, Running
  <2>3. CASE ~(m.here /\ DialogShows(m.op)) /\ ~(m.here /\ InBackground(m.op))
    BY <1>3, <1>6, <2>3 DEF Refreshed
  <2> QED
    BY <2>1, <2>2, <2>3
<1>7. CASE StopWatching(m)
  <2>1. background' = background /\ failed' \subseteq 1..Len(plans)
    BY <1>1, <1>7 DEF StopWatching, DialogOK
  <2>2. CASE m.here /\ DialogShows(m.op)
    <3>1. action # None /\ action' = [action EXCEPT !.error = TRUE]
      BY <1>7, <2>2 DEF StopWatching, DialogShows
    <3>2. PICK reverify \in BOOLEAN : TRUE
      OBVIOUS
    <3> QED
      BY <1>1, <1>2, <2>1, <3>1, <3>2, DialogWithError
  <2>3. CASE ~(m.here /\ DialogShows(m.op))
    BY <1>3, <1>7, <2>1, <2>3 DEF StopWatching
  <2> QED
    BY <2>2, <2>3
<1> QED
  BY <1>5, <1>6, <1>7 DEF MonitorStep, PollFails, PollingEnds

LEMMA DialogStep ==
    ASSUME PlansOK, CallsOK, MonitorsOK, BackgroundOK, DialogOK, [Next]_vars
    PROVE  DialogOK'
<1>1. PlansOK' /\ PlansGrow
  BY PlansStep
<1>2. page # "overview" /\ UNCHANGED <<action, failed>> => DialogOK'
  BY <1>1, DialogCloses DEF DialogOK
<1>3. CASE UserOfOverview
  BY <1>3, DialogUser
<1>4. CASE UserOfModels /\ UNCHANGED overviewVars
  BY <1>2, <1>4 DEF UserOfModels, Onboard, Precheck, CreateRegistrationPlan, ConfirmRegistration,
     PlanManagedAction, ConfirmManagedAction, SelectTarget, DeployAdapter, Review, CreateApplyPlan,
     CreateRollbackPlan, ConfirmParameters, Parameters, overviewVars
<1>5. ASSUME NEW next \in Pages, Open(next)
      PROVE  DialogOK'
  <2>1. failed' = failed /\ (page = "overview" => action' = None)
        /\ (page # "overview" => action' = action)
    BY <1>5 DEF Open, OverviewCloses, OverviewOpens, overviewVars
  <2> QED
    BY <1>1, <1>2, <2>1, DialogCloses
<1>6. CASE CoreStep /\ UNCHANGED overviewVars
  <2>1. UNCHANGED <<page, calls, action, background, failed>>
    BY <1>6, CoreMoves DEF overviewVars
  <2>2. \A p : Confirming(p)' => Confirming(p)
    BY <2>1 DEF Confirming
  <2> QED
    BY <1>1, <2>1, <2>2, DialogStays
<1>7. ASSUME NEW c \in BagToSet(calls), AnswerToOverview(c)
      PROVE  DialogOK'
  BY <1>7, DialogAnswer
<1>8. ASSUME NEW c \in BagToSet(calls), AnswerToModels(c), UNCHANGED overviewVars
      PROVE  DialogOK'
  BY <1>2, <1>8 DEF AnswerToModels, overviewVars
<1>9. ASSUME NEW c \in BagToSet(calls), AnswersNobody(c), UNCHANGED overviewVars
      PROVE  DialogOK'
  <2>1. page' = page /\ Take(c) /\ UNCHANGED <<action, background, failed>>
    BY <1>9 DEF AnswersNobody, overviewVars
  <2>2. \A p : Confirming(p)' => Confirming(p)
    BY <2>1, NoConfirmationMore
  <2> QED
    BY <1>1, <2>1, <2>2, DialogStays
<1>10. ASSUME NEW m \in BagToSet(monitors), MonitorStep(m) \/ PollingEnds(m)
       PROVE  DialogOK'
  BY <1>10, DialogLoop
<1>11. CASE UNCHANGED vars
  <2>1. UNCHANGED <<page, calls, action, background, failed>>
    BY <1>11 DEF vars, callVars, overviewVars
  <2>2. \A p : Confirming(p)' => Confirming(p)
    BY <2>1 DEF Confirming
  <2> QED
    BY <1>1, <2>1, <2>2, DialogStays
<1> QED
  BY <1>3, <1>4, <1>5, <1>6, <1>7, <1>8, <1>9, <1>10, <1>11, NextCases
-----------------------------------------------------------------------------
(* Operations that are shown as running have a loop. *)

\* The operation p has a loop of the page, or one has given up on it.
Followed(p) ==
    \/ \E m \in BagToSet(monitors) : m.here /\ m.op = p
    \/ plans[p].state = "lost" \/ plans[p].name \in LongActions

LEMMA FollowedMeans == ShownIsFollowed <=> \A p \in PlanIds : ShownRunning(p) => Followed(p)
  BY DEF ShownIsFollowed, Followed

LEMMA ShownIsBegun ==
    ASSUME BackgroundOK, DialogOK, NEW p, ShownRunning(p)
    PROVE  p \in 1..Len(plans) /\ page = "overview"
  BY DEF ShownRunning, DialogRuns, Running, BackgroundOK, DialogOK, Operated, Begun

\* Nothing more is shown, no loop has ended.
LEMMA FollowedStays ==
    ASSUME PlansGrow, BackgroundOK, DialogOK, ShownIsFollowed,
           \A m \in BagToSet(monitors) : m \in BagToSet(monitors'),
           \A p \in PlanIds : ShownRunning(p)' =>
               ShownRunning(p) \/ \E m \in BagToSet(monitors') : m.here /\ m.op = p
    PROVE  ShownIsFollowed'
<1> SUFFICES ASSUME NEW p \in PlanIds, ShownRunning(p)'
             PROVE  Followed(p)'
  BY DEF ShownIsFollowed, Followed
<1>1. CASE \E m \in BagToSet(monitors') : m.here /\ m.op = p
  BY <1>1 DEF Followed
<1>2. CASE ShownRunning(p)
  BY <1>2, FollowedMeans, ShownIsBegun DEF Followed, PlansGrow
<1> QED
  BY <1>1, <1>2

\* A loop takes one step; those of other operations stay.
LEMMA FollowedLoop ==
    ASSUME PlansOK, MonitorsOK, BackgroundOK, DialogOK, ShownIsFollowed,
           NEW m \in BagToSet(monitors), MonitorStep(m) \/ PollingEnds(m)
    PROVE  ShownIsFollowed'
<1>1. /\ UNCHANGED <<page, plans, calls, failed>> /\ MonitorOK(m)
      /\ \A n \in BagToSet(monitors) : n # m => n \in BagToSet(monitors')
  BY LoopMoves DEF MonitorsOK
<1> SUFFICES ASSUME NEW p \in PlanIds, ShownRunning(p)'
             PROVE  Followed(p)'
  BY DEF ShownIsFollowed, Followed
<1>2. ASSUME NEW n \in BagToSet(monitors), n # m, n.here, n.op = p
      PROVE  Followed(p)'
  BY <1>1, <1>2 DEF Followed
<1>3. CASE Poll(m)
  <2>1. \E n \in BagToSet(monitors') : n.here = m.here /\ n.op = m.op
    <3>1. CASE IsOver(plans[m.op].state)
      <4> DEFINE next == [m EXCEPT !.at = "refreshing"]
                 left == BagRemove(monitors, m)
      <4>1. monitors' = BagAdd(left, next)
        BY <1>3, <3>1 DEF Poll
      <4>2. next.here = m.here /\ next.op = m.op
        BY <1>1, MonitorBecomes DEF MonitorOK
      <4> HIDE DEF next, left
      <4>3. next \in BagToSet(monitors')
        BY <4>1, BagAdds
      <4> QED
        BY <4>2, <4>3
    <3>2. CASE ~IsOver(plans[m.op].state)
      BY <1>3, <3>2 DEF Poll
    <3> QED
      BY <3>1, <3>2
  <2>2. CASE m.here /\ p = m.op
    BY <2>1, <2>2 DEF Followed
  <2>3. CASE ~(m.here /\ p = m.op)
    <3>1. ShownRunning(p)
      <4>1. CASE ~m.here
        BY <1>1, <1>3, <4>1 DEF Poll, ShownRunning, DialogRuns, Running
      <4>2. CASE m.here /\ p # m.op
        <5> PICK status : status = plans[m.op].state
          OBVIOUS
        <5>0. status \in {"running", "succeeded", "failed"}
          BY <1>1, <1>3, PolledStatus DEF Poll
        <5>1. DialogShows(m.op) => action'.operation.id = m.op
          <6> SUFFICES ASSUME DialogShows(m.op)
                       PROVE  action'.operation.id = m.op
            OBVIOUS
          <6> DEFINE showing == [action EXCEPT !.operation.status = status]
          <6>1. action \in Dialogs /\ action.operation \in Operations /\ action.operation.id = m.op
            BY DialogHas DEF DialogShows
          <6>2. showing.operation.id = m.op
            BY <5>0, <6>1, DialogStatus
          <6>3. action' = showing
            BY <1>3, <4>2 DEF Poll, ShowStatus
          <6> HIDE DEF showing
          <6> QED
            BY <6>2, <6>3
        <5>2. ~DialogShows(m.op) => action' = action
          BY <1>3, <4>2 DEF Poll, ShowStatus
        <5>3. InBackground(m.op) => background'.id = m.op
          <6> SUFFICES ASSUME InBackground(m.op)
                       PROVE  background'.id = m.op
            OBVIOUS
          <6> DEFINE showing == [background EXCEPT !.status = status]
          <6>1. background \in Operations /\ background.id = m.op
            BY DEF InBackground, BackgroundOK
          <6>2. showing.id = m.op
            BY <5>0, <6>1, StatusShown
          <6>3. background' = showing
            BY <1>3, <4>2 DEF Poll, ShowStatus
          <6> HIDE DEF showing
          <6> QED
            BY <6>2, <6>3
        <5>4. ~InBackground(m.op) => background' = background
          BY <1>3, <4>2 DEF Poll, ShowStatus
        <5> QED
          BY <1>1, <4>2, <5>1, <5>2, <5>3, <5>4 DEF ShownRunning, DialogRuns, Running
      <4> QED
        BY <2>3, <4>1, <4>2
    <3> QED
      BY <1>1, <1>2, <2>3, <3>1, FollowedMeans DEF Followed
  <2> QED
    BY <2>2, <2>3
<1>4. CASE Refreshed(m)
  <2>1. /\ action' = IF m.here /\ DialogShows(m.op) THEN None ELSE action
        /\ background' = IF m.here /\ InBackground(m.op) THEN None ELSE background
    BY <1>4 DEF Refreshed
  <2>2. ShownRunning(p) /\ ~(m.here /\ p = m.op)
    BY <1>1, <2>1 DEF ShownRunning, DialogRuns, Running, DialogShows, InBackground
  <2> QED
    BY <1>1, <1>2, <2>2, FollowedMeans DEF Followed
<1>5. CASE PollFails(m) \/ PollingEnds(m)
  <2>1. plans[m.op].state = "lost" \/ plans[m.op].name \in LongActions
    BY <1>5 DEF PollFails, PollingEnds
  <2>2. background' = background
        /\ (action' = action \/ (action # None /\ action' = [action EXCEPT !.error = TRUE]))
    BY <1>5 DEF PollFails, PollingEnds, StopWatching, DialogShows
  <2>3. ShownRunning(p)
    <3>1. action # None => [action EXCEPT !.error = TRUE].operation = action.operation
      BY DialogHas DEF Dialogs
    <3> QED
      BY <1>1, <2>2, <3>1 DEF ShownRunning, DialogRuns, Running
  <2> QED
    BY <1>1, <1>2, <2>1, <2>3, FollowedMeans DEF Followed
<1> QED
  BY <1>3, <1>4, <1>5 DEF MonitorStep

LEMMA FollowedStep ==
    ASSUME PlansOK, CallsOK, MonitorsOK, BackgroundOK, DialogOK, ShownIsFollowed, [Next]_vars
    PROVE  ShownIsFollowed'
<1>1. PlansOK' /\ PlansGrow
  BY PlansStep
<1>2. page' = page /\ UNCHANGED <<action, background, monitors>> => ShownIsFollowed'
  BY <1>1, FollowedStays DEF ShownRunning, DialogRuns
<1>3. page' # "overview" => ShownIsFollowed'
  BY DEF ShownIsFollowed, ShownRunning
<1>4. CASE UserOfOverview
  <2>1. page' = page /\ page = "overview"
    BY <1>4, UserFrame DEF coreVars, UserOfOverview, ClickAction, Replan, ClickConfirm, CanSubmit,
       MoveToBackground, ShowBackground, Cancel, Reverify
  <2>2. ASSUME NEW s, NEW a, BeginAction(s, a)
        PROVE  ShownIsFollowed'
    <3>1. action'.operation = None /\ UNCHANGED <<background, monitors>>
      BY <2>2 DEF BeginAction, Dialog
    <3> QED
      BY <1>1, <2>1, <3>1, FollowedStays DEF ShownRunning, DialogRuns, Running
  <2>3. CASE MoveToBackground
    <3>1. /\ action' = None /\ background' = action.operation
          /\ monitors' = IF InBackground(action.operation.id) THEN monitors
                         ELSE Watch(action.operation.id)
          /\ DialogRuns
      BY <2>3 DEF MoveToBackground
    <3>2. PICK o : o = action.operation.id
      OBVIOUS
    <3>3. ShownRunning(o)
      BY <2>1, <3>1, <3>2 DEF ShownRunning
    <3>4. \A p : ShownRunning(p)' => p = o
      BY <3>1, <3>2 DEF ShownRunning, DialogRuns
    <3>5. BagToSet(monitors) \subseteq BagToSet(monitors')
      BY <3>1, BagAdds DEF Watch
    <3> QED
      BY <1>1, <3>3, <3>4, <3>5, FollowedStays
  <2>4. CASE ShowBackground
    <3>1. UNCHANGED <<background, monitors>> /\ action'.operation = background /\ background # None
      BY <2>4 DEF ShowBackground, Dialog
    <3>2. \A p : ShownRunning(p)' => ShownRunning(p)
      BY <2>1, <3>1 DEF ShownRunning, DialogRuns
    <3> QED
      BY <1>1, <3>1, <3>2, FollowedStays
  <2>5. CASE Cancel
    <3>1. action' = None /\ UNCHANGED <<background, monitors>>
      BY <2>5 DEF Cancel
    <3> QED
      BY <1>1, <2>1, <3>1, FollowedStays DEF ShownRunning, DialogRuns
  <2>6. CASE ClickConfirm \/ Reverify
    BY <1>2, <2>1, <2>6 DEF ClickConfirm, Reverify, overviewVars
  <2> QED
    BY <1>4, <2>2, <2>3, <2>4, <2>5, <2>6 DEF UserOfOverview, ClickAction, Replan
<1>5. CASE UserOfModels /\ UNCHANGED overviewVars
  BY <1>2, <1>5, UserFrame DEF coreVars, overviewVars
<1>6. ASSUME NEW next \in Pages, Open(next)
      PROVE  ShownIsFollowed'
  <2>1. page' = next /\ page # next /\ plans' = plans
    BY <1>6 DEF Open
  <2>2. CASE next = "overview"
    <3>1. OverviewOpens /\ action = None
      BY <1>6, <2>1, <2>2 DEF Open, DialogOK
    <3>2. CASE stored = 0
      BY <3>1, <3>2 DEF OverviewOpens, ShownIsFollowed, ShownRunning, DialogRuns, Running
    <3>3. CASE stored # 0
      <4>1. PICK o : o = stored /\ Begun(o)' /\ monitors' = Watch(o)
        BY <2>1, <3>1, <3>3 DEF OverviewOpens, Resume, BackgroundOK, Operated, Begun
      <4>2. \A p : ShownRunning(p)' => p = o
        BY <3>1, <3>3, <4>1 DEF OverviewOpens, ShownRunning, DialogRuns
      <4>3. \E m \in BagToSet(monitors') : m.here /\ m.op = o
        BY <1>1, <2>1, <2>2, <4>1, MonitorStarts
      <4> QED
        BY <4>2, <4>3 DEF ShownIsFollowed
    <3> QED
      BY <3>2, <3>3
  <2> QED
    BY <1>3, <2>1, <2>2
<1>7. CASE CoreStep /\ UNCHANGED overviewVars
  BY <1>2, <1>7, CoreMoves DEF overviewVars
<1>8. ASSUME NEW c \in BagToSet(calls), AnswerToOverview(c)
      PROVE  ShownIsFollowed'
  <2>1. PICK result : /\ CoreAnswers(c, result)
                      /\ \/ PlanArrives(c, result) \/ ConfirmationArrives(c, result)
                         \/ VerificationArrives(c, result)
    BY <1>8 DEF AnswerToOverview
  <2>2. page' = page /\ page = "overview" /\ background' = background
    BY <1>8, <2>1 DEF AnswerToOverview, PlanArrives, ConfirmationArrives, VerificationArrives
  <2>3. action' = None /\ monitors' = monitors => ShownIsFollowed'
    BY <1>1, <2>2, FollowedStays DEF ShownRunning, DialogRuns
  <2>4. action # None /\ action'.operation = action.operation /\ monitors' = monitors
          => ShownIsFollowed'
    BY <1>1, <2>2, FollowedStays DEF ShownRunning, DialogRuns
  <2>5. CASE ConfirmationArrives(c, result) /\ result = "ok" /\ c.kind # "managed"
    <3>1. Begun(c.plan)' /\ Started(c)
      BY <2>1, <2>2, <2>5, CoreAnswered DEF ConfirmationArrives
    <3>2. \/ action' = action
          \/ action' = [action EXCEPT !.operation = [id |-> c.plan, status |-> "running"]]
      BY <3>1 DEF Started
    <3>3. monitors' = Watch(c.plan)
      BY <3>1 DEF Started
    <3>4. /\ \E m \in BagToSet(monitors') : m.here /\ m.op = c.plan
          /\ BagToSet(monitors) \subseteq BagToSet(monitors')
      BY <1>1, <2>2, <3>1, <3>3, MonitorStarts
    <3>5. action # None /\ action' # action => action'.operation.id = c.plan
      BY <3>2, DialogHas DEF Dialogs
    <3>6. action = None => action' = action
      BY <3>1 DEF Started
    <3>7. \A p : ShownRunning(p)' => ShownRunning(p) \/ p = c.plan
      BY <2>2, <3>5, <3>6 DEF ShownRunning, DialogRuns
    <3> QED
      BY <1>1, <3>4, <3>7, FollowedStays
  <2>6. CASE ~(ConfirmationArrives(c, result) /\ result = "ok" /\ c.kind # "managed")
    <3>1. monitors' = monitors
      BY <2>1, <2>6 DEF PlanArrives, ConfirmationArrives, ConfirmationFailed, Submitted,
         VerificationArrives
    <3>2. \/ action' = None \/ action' = action
          \/ action # None /\ action' = [action EXCEPT !.planning = FALSE, !.plan = NewPlan]
          \/ action # None /\ \E reverify :
               \/ action' = [action EXCEPT !.error = TRUE]
               \/ action' = [action EXCEPT !.planning = FALSE, !.error = TRUE, !.reverify = reverify]
               \/ action' = [action EXCEPT !.error = TRUE, !.reverify = reverify,
                                           !.plan = IF reverify THEN 0 ELSE @]
      BY <2>1, <2>6 DEF PlanArrives, FitsDialog, ConfirmationArrives, ConfirmationFailed, Submitted,
         VerificationArrives
    <3>3. action' = None \/ action' = action
          \/ (action # None /\ action'.operation = action.operation)
      BY <3>2, DialogHas DEF Dialogs
    <3> QED
      BY <1>2, <2>2, <2>3, <2>4, <3>1, <3>3
  <2> QED
    BY <2>5, <2>6
<1>9. ASSUME NEW c, AnswerToModels(c) \/ AnswersNobody(c), UNCHANGED overviewVars
      PROVE  ShownIsFollowed'
  BY <1>2, <1>9 DEF AnswerToModels, AnswersNobody, overviewVars
<1>10. ASSUME NEW m \in BagToSet(monitors), MonitorStep(m) \/ PollingEnds(m)
       PROVE  ShownIsFollowed'
  BY <1>10, FollowedLoop
<1>11. CASE UNCHANGED vars
  BY <1>2, <1>11 DEF vars, callVars, overviewVars
<1> QED
  BY <1>4, <1>5, <1>6, <1>7, <1>8, <1>9, <1>10, <1>11, NextCases
-----------------------------------------------------------------------------
(* The parameter panel. *)

\* The plan that is shown is still for the operation that is shown.
LEMMA RollbackStays ==
    ASSUME PlansOK, PlansGrow, PanelsOK, ParametersOK, UNCHANGED <<parameterPlan, applied>>
    PROVE  RollbackUndoesTheLast'
<1>1. parameterPlan # 0 => parameterPlan \in 1..Len(plans)
  BY DEF PanelsOK, PlansOK
<1> QED
  BY <1>1 DEF ParametersOK, RollbackUndoesTheLast, PlansGrow

\* No call of the panel more than before.
LEMMA ParametersStay ==
    ASSUME PlansOK, PlansGrow, PanelsOK, ParametersOK, UNCHANGED <<parameterPlan, applied>>,
           \A c : OfParameters(c)' => OfParameters(c) /\ calls'[c] = calls[c]
    PROVE  ParametersOK'
<1>1. ASSUME NEW c, OfParameters(c)'
      PROVE  /\ calls'[c] = 1 /\ \A d : OfParameters(d)' => d = c
             /\ c.ask = "plan" /\ c.kind = "rollback" => applied' # 0 /\ c.plan = applied'
  <2>1. OfParameters(c) /\ calls'[c] = calls[c] /\ c \in BagToSet(calls)
    BY <1>1 DEF OfParameters
  <2> QED
    BY <2>1 DEF ParametersOK, OfParameters
<1> QED
  BY <1>1, RollbackStays DEF ParametersOK

\* A call is sent that is not one of the panel.
LEMMA OtherSent ==
    ASSUME PlansOK, PlansGrow, PanelsOK, ParametersOK, UNCHANGED <<parameterPlan, applied>>,
           NEW ask, NEW kind, NEW subject, NEW name, NEW plan,
           Send(ask, kind, subject, name, plan), kind \notin {"apply", "rollback"}
    PROVE  ParametersOK'
<1> DEFINE call == [from |-> page, ask |-> ask, kind |-> kind, subject |-> subject, name |-> name,
                    plan |-> plan]
<1>1. calls' = BagAdd(calls, call) /\ call.kind = kind
  BY DEF Send
<1> HIDE DEF call
<1>2. ASSUME NEW c, OfParameters(c)'
      PROVE  OfParameters(c) /\ calls'[c] = calls[c]
  <2>1. c # call /\ c \in BagToSet(calls') /\ c.from = "models" /\ c.kind \in {"apply", "rollback"}
    BY <1>1, <1>2 DEF OfParameters
  <2> QED
    BY <1>1, <2>1, BagAdds DEF OfParameters
<1> QED
  BY <1>2, ParametersStay

\* A call of the panel is sent while there is none.
LEMMA ParameterSent ==
    ASSUME PlansOK, PlansGrow, PanelsOK, ParametersOK, UNCHANGED <<parameterPlan, applied>>,
           NEW ask, NEW kind, NEW plan, Send(ask, kind, None, None, plan),
           page = "models", kind \in {"apply", "rollback"}, ~ParameterBusy,
           ask = "plan" /\ kind = "rollback" => applied # 0 /\ plan = applied
    PROVE  ParametersOK'
<1> DEFINE call == [from |-> page, ask |-> ask, kind |-> kind, subject |-> None, name |-> None,
                    plan |-> plan]
<1>1. /\ calls' = BagAdd(calls, call) /\ call.from = "models" /\ call.kind = kind
      /\ call.ask = ask /\ call.plan = plan
  BY DEF Send
<1> HIDE DEF call
<1>2. \A c : ~OfParameters(c)
  BY DEF OfParameters, ParameterBusy, UnderWay, Mine
<1>3. call \notin BagToSet(calls)
  BY <1>1, <1>2 DEF OfParameters
<1>4. calls'[call] = 1 /\ BagToSet(calls') = BagToSet(calls) \cup {call}
  BY <1>1, <1>3, BagAdds
<1>5. \A c : OfParameters(c)' => c = call
  BY <1>2, <1>4 DEF OfParameters
<1>6. ASSUME NEW c \in BagToSet(calls'), OfParameters(c)'
      PROVE  /\ calls'[c] = 1 /\ \A d \in BagToSet(calls') : OfParameters(d)' => d = c
             /\ c.ask = "plan" /\ c.kind = "rollback" => applied' # 0 /\ c.plan = applied'
  BY <1>1, <1>4, <1>5, <1>6
<1> QED
  BY <1>6, RollbackStays DEF ParametersOK

\* When a call of the panel is answered, there is none any more.
LEMMA ParametersTaken ==
    ASSUME ParametersOK, NEW c \in BagToSet(calls), Take(c), NEW d, OfParameters(d)'
    PROVE  OfParameters(d) /\ d # c /\ calls'[d] = calls[d]
<1>1. d \in BagToSet(BagRemove(calls, c)) /\ calls' = BagRemove(calls, c)
  BY DEF Take, OfParameters
<1>2. d \in BagToSet(calls) /\ (d # c => calls'[d] = calls[d]) /\ (d = c => calls[c] # 1)
  BY <1>1, BagRemoves
<1>3. OfParameters(d) /\ calls[d] = 1
  BY <1>2 DEF OfParameters, ParametersOK
<1> QED
  BY <1>2, <1>3

\* The next call of a function takes the place of the one that was answered.
LEMMA ParametersGoOn ==
    ASSUME PlansOK, PlansGrow, CallsOK, PanelsOK, ParametersOK,
           UNCHANGED <<parameterPlan, applied>>,
           NEW c \in BagToSet(calls), NEW ask \in {"plan", "precheck"}, GoOn(c, ask),
           ask = "plan" => c.kind = "onboarding", c.ask # ask
    PROVE  ParametersOK'
<1> DEFINE next == [c EXCEPT !.ask = ask]
           left == BagRemove(calls, c)
<1>1. c \in Calls
  BY DEF CallsOK, CallOK
<1>2. /\ next.from = c.from /\ next.kind = c.kind /\ next.ask = ask
      /\ calls' = BagAdd(left, next)
  BY <1>1, CallBecomes DEF GoOn
<1>3. \A d \in BagToSet(left) : /\ d \in BagToSet(calls) /\ (d # c => left[d] = calls[d])
                                /\ (d = c => calls[c] # 1)
  BY BagRemoves
<1> HIDE DEF next, left
<1>4. /\ BagToSet(calls') = BagToSet(left) \cup {next}
      /\ \A d \in BagToSet(left) : d # next => calls'[d] = left[d]
      /\ next \notin BagToSet(left) => calls'[next] = 1
  <2>1. /\ BagToSet(BagAdd(left, next)) = BagToSet(left) \cup {next}
        /\ \A d \in BagToSet(left) : d # next => BagAdd(left, next)[d] = left[d]
        /\ next \notin BagToSet(left) => BagAdd(left, next)[next] = 1
    BY BagAdds
  <2> QED
    BY <1>2, <2>1
<1>5. CASE OfParameters(c)
  <2>1. \A d \in BagToSet(left) : ~(d.from = "models" /\ d.kind \in {"apply", "rollback"})
    BY <1>3, <1>5 DEF OfParameters, ParametersOK
  <2>2. next \notin BagToSet(left)
    BY <1>2, <1>5, <2>1 DEF OfParameters
  <2>3. calls'[next] = 1 /\ BagToSet(calls') = BagToSet(left) \cup {next}
    BY <1>4, <2>2
  <2>4. \A d : OfParameters(d)' => d = next
    BY <2>1, <2>3 DEF OfParameters
  <2>5. ~(next.ask = "plan" /\ next.kind = "rollback")
    BY <1>2
  <2> QED
    BY <2>3, <2>4, <2>5, RollbackStays DEF ParametersOK
<1>6. CASE ~OfParameters(c)
  <2>1. ASSUME NEW d, OfParameters(d)'
        PROVE  OfParameters(d) /\ calls'[d] = calls[d]
    <3>1. d \in BagToSet(calls') /\ d.from = "models" /\ d.kind \in {"apply", "rollback"}
      BY <2>1 DEF OfParameters
    <3>2. d # c /\ d # next
      BY <1>2, <1>6, <3>1 DEF OfParameters
    <3>3. d \in BagToSet(left) /\ calls'[d] = left[d]
      BY <1>4, <3>1, <3>2
    <3> QED
      BY <1>3, <3>1, <3>2, <3>3 DEF OfParameters
  <2> QED
    BY <2>1, ParametersStay
<1> QED
  BY <1>5, <1>6

\* Steps that leave the panel and its calls alone.
LEMMA PanelApart ==
    ASSUME PlansOK, PlansGrow, PanelsOK, ParametersOK, CallsOK', UNCHANGED <<parameterPlan, applied>>,
           page' # "models" \/ UNCHANGED calls
    PROVE  ParametersOK'
<1>1. CASE UNCHANGED calls
  BY <1>1, ParametersStay DEF OfParameters
<1>2. CASE page' # "models"
  <2>1. \A c : ~OfParameters(c)'
    BY <1>2 DEF OfParameters, CallsOK, CallOK
  <2> QED
    BY <2>1, ParametersStay
<1> QED
  BY <1>1, <1>2

\* The buttons of the models page.
LEMMA ParametersUser ==
    ASSUME PlansOK, CallsOK, PanelsOK, ParametersOK, UserOfModels
    PROVE  ParametersOK'
<1>1. UNCHANGED coreVars /\ PlansGrow
  BY UserFrame, PlansSame DEF coreVars
<1> USE NoneIsNoKind DEF Kinds, draftVars, panelVars, parameterVars, modelsVars
<1>2. ASSUME NEW d \in Drafts,
             \/ Onboard(d) \/ Precheck(d) \/ CreateRegistrationPlan(d) \/ ConfirmRegistration(d)
             \/ ConfirmManagedAction(d) \/ \E a \in Actions : PlanManagedAction(d, a)
      PROVE  ParametersOK'
  <2>1. /\ UNCHANGED <<parameterPlan, applied>>
        /\ \E ask, kind, name, plan :
             kind \notin {"apply", "rollback"} /\ Send(ask, kind, d, name, plan)
    BY <1>2 DEF Onboard, Precheck, CreateRegistrationPlan, ConfirmRegistration,
       ConfirmManagedAction, PlanManagedAction
  <2> QED
    BY <1>1, <2>1, OtherSent
<1>3. ASSUME NEW nvfp4 \in BOOLEAN, SelectTarget(nvfp4)
      PROVE  ParametersOK'
  <2>1. UNCHANGED <<parameterPlan, applied>>
    BY <1>3 DEF SelectTarget, OperationAfterSelection
  <2>2. CASE nvfp4
    BY <1>1, <1>3, <2>1, <2>2, OtherSent DEF SelectTarget
  <2>3. CASE ~nvfp4
    <3>1. calls' = calls
      BY <1>3, <2>3 DEF SelectTarget
    <3> QED
      BY <1>1, <2>1, <3>1, ParametersStay DEF OfParameters
  <2> QED
    BY <2>2, <2>3
<1>4. CASE DeployAdapter \/ Review
  <2>1. /\ UNCHANGED <<parameterPlan, applied>>
        /\ \E ask, kind, plan :
             kind \notin {"apply", "rollback"} /\ Send(ask, kind, None, None, plan)
    BY <1>4 DEF DeployAdapter, Review
  <2> QED
    BY <1>1, <2>1, OtherSent
<1>5. CASE CreateApplyPlan
  BY <1>1, <1>5, ParameterSent DEF CreateApplyPlan, Parameters
<1>6. CASE CreateRollbackPlan
  BY <1>1, <1>6, ParameterSent DEF CreateRollbackPlan, Parameters
<1>7. CASE ConfirmParameters
  <2>1. PICK kind : kind = plans[parameterPlan].kind
    OBVIOUS
  <2>2. /\ UNCHANGED <<parameterPlan, applied>> /\ page = "models" /\ ~ParameterBusy
        /\ Send("confirm", kind, None, None, parameterPlan)
    BY <1>7, <2>1 DEF ConfirmParameters, Parameters
  <2>3. CASE kind \in {"apply", "rollback"}
    BY <1>1, <2>2, <2>3, ParameterSent
  <2>4. CASE kind \notin {"apply", "rollback"}
    BY <1>1, <2>2, <2>4, OtherSent
  <2> QED
    BY <2>3, <2>4
<1> QED
  BY <1>2, <1>3, <1>4, <1>5, <1>6, <1>7 DEF UserOfModels

\* An answer to the models page.
LEMMA ParametersAnswer ==
    ASSUME PlansOK, CallsOK, PanelsOK, ParametersOK, NEW c \in BagToSet(calls), AnswerToModels(c)
    PROVE  ParametersOK'
<1>1. PICK result : /\ CoreAnswers(c, result)
                    /\ \/ DraftArrives(c, result) \/ PrecheckArrives(c, result)
                       \/ RegistrationPlanArrives(c, result) \/ RegistrationArrives(c, result)
                       \/ ManagedPlanArrives(c, result) \/ ManagedActionArrives(c, result)
                       \/ StatusArrives(c, result) \/ DeploymentArrives(c, result)
                       \/ ReviewArrives(c, result) \/ ParametersArrive(c, result)
  BY DEF AnswerToModels
<1>2. page' = page /\ page = "models" /\ c.from = page
  BY DEF AnswerToModels
<1>3. PlansOK' /\ PlansGrow /\ (result = "ok" /\ c.ask = "plan" => OfferPlan(c))
  BY <1>1, <1>2, CoreAnswered
<1>4. Take(c) /\ UNCHANGED <<parameterPlan, applied>> => ParametersOK'
  BY <1>3, ParametersTaken, ParametersStay
<1>5. CASE DraftArrives(c, result) \/ PrecheckArrives(c, result)
  <2>1. UNCHANGED <<parameterPlan, applied>>
    BY <1>5 DEF DraftArrives, PrecheckArrives, parameterVars
  <2>2. \/ Take(c)
        \/ c.ask = "draft" /\ GoOn(c, "precheck")
        \/ c.ask = "precheck" /\ c.kind = "onboarding" /\ GoOn(c, "plan")
    BY <1>5 DEF DraftArrives, PrecheckArrives
  <2> QED
    BY <1>3, <1>4, <2>1, <2>2, ParametersGoOn
<1>6. CASE \/ RegistrationPlanArrives(c, result) \/ RegistrationArrives(c, result)
           \/ ManagedPlanArrives(c, result) \/ ManagedActionArrives(c, result)
           \/ StatusArrives(c, result) \/ DeploymentArrives(c, result)
           \/ ReviewArrives(c, result)
  BY <1>4, <1>6 DEF RegistrationPlanArrives, RegistrationArrives, ManagedPlanArrives,
     ManagedActionArrives, StatusArrives, DeploymentArrives, ReviewArrives, parameterVars
<1>7. CASE ParametersArrive(c, result)
  <2>1. Take(c) /\ OfParameters(c)
    BY <1>2, <1>7 DEF ParametersArrive, OfParameters
  <2>2. \A d : ~OfParameters(d)'
    BY <2>1, ParametersTaken DEF ParametersOK, OfParameters
  <2>3. RollbackUndoesTheLast' => ParametersOK'
    BY <2>2 DEF ParametersOK
  <2>4. CASE result # "ok"
    BY <1>4, <1>7, <2>1, <2>4 DEF ParametersArrive
  <2>5. CASE result = "ok" /\ c.ask = "plan"
    <3>1. parameterPlan' = NewPlan /\ applied' = applied /\ c.kind \in Kinds
      BY <1>7, <2>5 DEF ParametersArrive, Kinds
    <3>2. plans'[NewPlan].kind = c.kind /\ plans'[NewPlan].of = c.plan
      BY <1>2, <1>3, <2>5, <3>1, PlanOffered
    <3>3. c.kind = "rollback" => applied # 0 /\ c.plan = applied
      BY <2>1, <2>5 DEF ParametersOK, OfParameters
    <3> QED
      BY <2>3, <3>1, <3>2, <3>3 DEF RollbackUndoesTheLast
  <2>6. CASE result = "ok" /\ c.ask # "plan"
    BY <1>7, <2>3, <2>6 DEF ParametersArrive, RollbackUndoesTheLast
  <2> QED
    BY <2>4, <2>5, <2>6
<1> QED
  BY <1>1, <1>5, <1>6, <1>7

LEMMA ParametersStep ==
    ASSUME PlansOK, CallsOK, DialogOK, PanelsOK, ParametersOK, [Next]_vars
    PROVE  ParametersOK'
<1>1. PlansOK' /\ PlansGrow /\ CallsOK'
  BY PlansStep, CallsStep
<1> USE DEF modelsVars, draftVars, panelVars, parameterVars
<1>2. CASE UserOfOverview /\ UNCHANGED modelsVars
  <2>1. page' = page /\ page = "overview"
    BY <1>2, UserFrame DEF coreVars, UserOfOverview, ClickAction, Replan, ClickConfirm, CanSubmit,
       MoveToBackground, ShowBackground, Cancel, Reverify
  <2> QED
    BY <1>1, <1>2, <2>1, PanelApart
<1>3. CASE UserOfModels
  BY <1>3, ParametersUser
<1>4. ASSUME NEW next \in Pages, Open(next)
      PROVE  ParametersOK'
  <2>1. page' = next /\ page # next /\ calls' = LeftBehind
    BY <1>4 DEF Open
  <2>2. CASE page = "models"
    <3>1. parameterPlan' = 0
      BY <1>4, <2>2 DEF Open, ModelsCloses
    <3>2. \A c : ~OfParameters(c)'
      BY <1>1, <2>1, <2>2 DEF OfParameters, CallsOK, CallOK
    <3> QED
      BY <3>1, <3>2 DEF ParametersOK, RollbackUndoesTheLast
  <2>3. CASE page # "models"
    <3>1. UNCHANGED <<parameterPlan, applied>>
      BY <1>4, <2>3 DEF Open, ModelsOpens
    <3>2. ASSUME NEW c \in BagToSet(LeftBehind)
          PROVE  c.from = "left"
      <4>1. PICK d \in BagToSet(calls) : c = [d EXCEPT !.from = "left"]
        BY LeftAre
      <4> QED
        BY <4>1, CallIsLeft DEF CallsOK, CallOK
    <3>3. \A c : ~OfParameters(c)'
      BY <2>1, <3>2 DEF OfParameters
    <3> QED
      BY <1>1, <3>1, <3>3, ParametersStay
  <2> QED
    BY <2>2, <2>3
<1>5. CASE CoreStep /\ UNCHANGED modelsVars
  BY <1>1, <1>5, CoreMoves, PanelApart
<1>6. ASSUME NEW c \in BagToSet(calls), AnswerToOverview(c), UNCHANGED modelsVars
      PROVE  ParametersOK'
  BY <1>1, <1>6, PanelApart DEF AnswerToOverview
<1>7. ASSUME NEW c \in BagToSet(calls), AnswerToModels(c)
      PROVE  ParametersOK'
  BY <1>7, ParametersAnswer
<1>8. ASSUME NEW c \in BagToSet(calls), AnswersNobody(c), UNCHANGED modelsVars
      PROVE  ParametersOK'
  BY <1>1, <1>8, ParametersTaken, ParametersStay DEF AnswersNobody
<1>9. ASSUME NEW m, MonitorStep(m) \/ PollingEnds(m), UNCHANGED modelsVars
      PROVE  ParametersOK'
  <2>1. UNCHANGED calls
    BY <1>9 DEF MonitorStep, Poll, PollFails, Refreshed, StopWatching, PollingEnds, callVars
  <2> QED
    BY <1>1, <1>9, <2>1, PanelApart
<1>10. CASE UNCHANGED vars
  BY <1>1, <1>10, PanelApart DEF vars, callVars
<1> QED
  BY <1>2, <1>3, <1>4, <1>5, <1>6, <1>7, <1>8, <1>9, <1>10, NextCases
-----------------------------------------------------------------------------
(* What a step does. *)

\* Only the dialog's button confirms a plan for the overview, and it is the
\* dialog's.
LEMMA ConfirmedMeans ==
    ASSUME PlansOK, CallsOK, CallsOK', [Next]_vars, NEW p, Confirmed(p)
    PROVE  ClickConfirm /\ p = action.plan
<1>1. PICK c \in BagToSet(calls' (-) calls) : c.from = "overview" /\ c.ask = "confirm" /\ c.plan = p
  BY DEF Confirmed
<1>2. c \in BagToSet(calls') /\ (c \in BagToSet(calls) => calls'[c] - calls[c] > 0)
  BY BagDifference
<1>3. page' = "overview"
  BY <1>1, <1>2 DEF CallsOK, CallOK
<1>4. page = "overview" /\ c \in BagToSet(calls) => calls[c] \in Nat /\ calls'[c] # calls[c]
                                                    /\ calls'[c] # calls[c] - 1
  BY <1>1, <1>2 DEF CallsOK
<1>5. ~(page = "overview" /\ UNCHANGED calls)
  BY <1>2, <1>4
<1>6. ASSUME NEW ask, NEW kind, NEW subject, NEW name, NEW plan, page = "overview",
             Send(ask, kind, subject, name, plan)
      PROVE  ask = "confirm" /\ plan = p
  <2> DEFINE call == [from |-> page, ask |-> ask, kind |-> kind, subject |-> subject,
                      name |-> name, plan |-> plan]
  <2>1. calls' = BagAdd(calls, call) /\ call.ask = ask /\ call.plan = plan
    BY <1>6 DEF Send
  <2> HIDE DEF call
  <2>2. c # call => c \in BagToSet(calls) /\ calls'[c] = calls[c]
    BY <1>2, <2>1, BagAdds
  <2> QED
    BY <1>1, <1>4, <1>6, <2>1, <2>2
<1>7. ASSUME NEW d, page = "overview", Take(d)
      PROVE  FALSE
  <2>1. c \in BagToSet(calls) /\ (c # d => calls'[c] = calls[c]) /\ (c = d => calls'[c] = calls[c] - 1)
    BY <1>2, <1>7, BagRemoves DEF Take
  <2> QED
    BY <1>4, <1>7, <2>1
<1>8. CASE UserOfOverview
  BY <1>5, <1>6, <1>8 DEF UserOfOverview, ClickAction, BeginAction, Replan, ClickConfirm, CanSubmit,
     MoveToBackground, ShowBackground, Cancel, Reverify, callVars
<1>9. CASE UserOfModels
  BY <1>3, <1>9 DEF UserOfModels, Onboard, Precheck, CreateRegistrationPlan,
     ConfirmRegistration, PlanManagedAction, ConfirmManagedAction, SelectTarget, DeployAdapter,
     Review, CreateApplyPlan, CreateRollbackPlan, ConfirmParameters, Parameters, coreVars
<1>10. ASSUME NEW next \in Pages, Open(next)
       PROVE  FALSE
  <2>1. PICK d \in BagToSet(calls) : c = [d EXCEPT !.from = "left"]
    BY <1>2, <1>10, LeftAre DEF Open
  <2> QED
    BY <1>1, <2>1, CallIsLeft DEF CallsOK, CallOK
<1>11. CASE CoreStep
  BY <1>3, <1>5, <1>11, CoreMoves
<1>12. ASSUME NEW d \in BagToSet(calls), AnswerToOverview(d) \/ AnswersNobody(d)
       PROVE  FALSE
  BY <1>3, <1>7, <1>12 DEF AnswerToOverview, PlanArrives, ConfirmationArrives, VerificationArrives,
     AnswersNobody
<1>13. ASSUME NEW d, AnswerToModels(d)
       PROVE  FALSE
  BY <1>3, <1>13 DEF AnswerToModels
<1>14. ASSUME NEW m, MonitorStep(m) \/ PollingEnds(m)
       PROVE  FALSE
  BY <1>3, <1>5, <1>14 DEF MonitorStep, Poll, PollFails, Refreshed, StopWatching, PollingEnds, callVars
<1>15. ~UNCHANGED vars
  BY <1>3, <1>5 DEF vars, callVars
<1> QED
  BY <1>8, <1>9, <1>10, <1>11, <1>12, <1>13, <1>14, <1>15, NextCases

LEMMA ConfirmsNothingFailed ==
    ASSUME Strong, Strong', [Next]_vars, NEW p, Confirmed(p)
    PROVE  p \notin failed /\ ~DialogRuns /\ ~Running(background)
<1>1. ClickConfirm /\ p = action.plan
  BY ConfirmedMeans DEF Strong
<1> QED
  BY <1>1 DEF Strong, DialogOK, ClickConfirm, CanSubmit, ConfirmsPlan, DialogRuns, Running

LEMMA StoredMeans ==
    ASSUME Strong, [Next]_vars, stored # 0, stored' # stored
    PROVE  IsOver(plans[stored].state)
<1>1. CASE UserOfOverview
  <2>1. MoveToBackground
    BY <1>1 DEF UserOfOverview, ClickAction, BeginAction, Replan, ClickConfirm, ShowBackground,
       Cancel, Reverify, overviewVars
  <2>2. page = "overview" /\ action # None /\ stored' = action.operation.id
    BY <2>1 DEF MoveToBackground, DialogRuns
  <2>3. background # None /\ background.id = stored /\ ~Running(background)
    BY <2>2 DEF Strong, BackgroundOK, DialogOK
  <2> QED
    BY <2>3 DEF Strong, BackgroundOK, Running
<1>2. ASSUME NEW m \in BagToSet(monitors), MonitorStep(m) \/ PollingEnds(m)
      PROVE  IsOver(plans[stored].state)
  <2>1. Refreshed(m) /\ stored = m.op
    BY <1>2 DEF MonitorStep, Poll, PollFails, Refreshed, Forgets, StopWatching, PollingEnds
  <2> QED
    BY <2>1 DEF Refreshed, Strong, MonitorsOK, MonitorOK
<1>3. ASSUME NEW c, AnswerToOverview(c)
      PROVE  stored' = stored
  BY <1>3 DEF AnswerToOverview, PlanArrives, ConfirmationArrives, VerificationArrives
<1>4. ASSUME NEW next, Open(next)
      PROVE  stored' = stored
  BY <1>4 DEF Open, OverviewOpens, OverviewCloses, overviewVars
<1>5. UNCHANGED overviewVars \/ UNCHANGED vars => stored' = stored
  BY DEF vars, overviewVars
<1> QED
  BY <1>1, <1>2, <1>3, <1>4, <1>5, NextCases
-----------------------------------------------------------------------------
(* The theorems. *)

LEMMA InitStrong == Init => Strong
<1> SUFFICES ASSUME Init
             PROVE  Strong
  OBVIOUS
<1>1. /\ page = "other" /\ plans = <<>> /\ calls = EmptyBag /\ monitors = EmptyBag
      /\ action = None /\ background = None /\ stored = 0 /\ failed = {}
  BY DEF Init, CallsInit, OverviewInit
<1>2. BagToSet(EmptyBag) = {}
  BY DEF EmptyBag, SetToBag, BagToSet
<1>3. plans \in Seq(PlanRecords) /\ Len(plans) = 0 /\ MaxPlans \in Nat
  BY <1>1, CallBounds
<1>4. PlansOK /\ CallsOK /\ MonitorsOK /\ BackgroundOK
  BY <1>1, <1>2, <1>3 DEF PlansOK, Pages, CallsOK, MonitorsOK, BackgroundOK
<1>5. DialogOK /\ ShownIsFollowed
  BY <1>1 DEF DialogOK, DialogFits, ShownIsFollowed, ShownRunning
<1>6. PanelsOK /\ ParametersOK
  BY <1>1, <1>2, <1>3 DEF Init, ModelsInit, PanelsOK, ParametersOK, RollbackUndoesTheLast
<1> QED
  BY <1>4, <1>5, <1>6 DEF Strong

LEMMA StrongStep == Strong /\ [Next]_vars => Strong'
  BY PlansStep, CallsStep, MonitorsStep, BackgroundStep, DialogStep, FollowedStep, PanelsStep,
     ParametersStep DEF Strong

\* The inductive invariant of the pages.
THEOREM PagesInvariant == Spec => []Strong
  BY InitStrong, StrongStep, PTL DEF Spec

\* The dialog never shows the plan or the operation of another service or
\* action, however many calls are under way and however late they are answered
\* (Overview.tsx beginAction, confirmAction).
THEOREM DialogAlwaysFits == Spec => []DialogFits
<1>1. Strong => DialogFits
  BY DEF Strong, DialogOK
<1> QED
  BY <1>1, PagesInvariant, PTL

\* What the overview shows as running is polled until a loop gives up on it
\* (Overview.tsx monitorOperation, moveOperationToBackground).
THEOREM RunningIsFollowed == Spec => []ShownIsFollowed
<1>1. Strong => ShownIsFollowed
  BY DEF Strong
<1> QED
  BY <1>1, PagesInvariant, PTL

\* A rollback plan that is shown undoes the operation that is shown
\* (Models.tsx createRollbackPlan, selectParameterTarget).
THEOREM RollbackFits == Spec => []RollbackUndoesTheLast
<1>1. Strong => RollbackUndoesTheLast
  BY DEF Strong, ParametersOK
<1> QED
  BY <1>1, PagesInvariant, PTL

\* No confirmation is sent for a plan of which one is known to have failed
\* (Overview.tsx confirmAction).
THEOREM NeverRetried == Spec => FailedNotRetried
<1>1. Strong /\ Strong' /\ [Next]_vars =>
        [\A p \in PlanIds : Confirmed(p) => p \notin failed]_<<callVars, overviewVars>>
  BY ConfirmsNothingFailed
<1> QED
  BY <1>1, PagesInvariant, PTL DEF Spec, FailedNotRetried

\* Nothing is confirmed while the overview shows an operation that runs
\* (Overview.tsx controlsBusy).
THEOREM NeverBusy == Spec => NoConfirmWhileBusy
<1>1. Strong /\ Strong' /\ [Next]_vars =>
        [(\E p \in PlanIds : Confirmed(p)) => ~DialogRuns /\ ~Running(background)]_<<callVars, overviewVars>>
  BY ConfirmsNothingFailed
<1> QED
  BY <1>1, PagesInvariant, PTL DEF Spec, NoConfirmWhileBusy

\* What is in the background is remembered beyond the page until it has ended
\* (Overview.tsx monitorOperation).
THEOREM BackgroundRemembered == Spec => BackgroundSurvives
<1>1. Strong /\ [Next]_vars =>
        [stored # 0 /\ stored' # stored => IsOver(plans[stored].state)]_<<callVars, overviewVars>>
  BY StoredMeans
<1> QED
  BY <1>1, PagesInvariant, PTL DEF Spec, BackgroundSurvives

-----------------------------------------------------------------------------
(***************************************************************************)
(* What a page shows of the machine of the active profile (Monitoring),    *)
(* for any number of machines, requests at a time, changes, switches and   *)
(* failures.                                                               *)
(*                                                                         *)
(* The argument (MonitoringInvariant): a request uses a session of the     *)
(* profile it loaded, and that profile was active during it.  A probe in   *)
(* flight belongs to a request of the same session.  If nothing seen       *)
(* before could answer a request when it loaded its profile (its floor is  *)
(* set), then whatever can answer it later was seen later.  A probe that   *)
(* lands saw no less than the snapshot it replaces.                        *)
(***************************************************************************)

USE MonitoringRequests, MonitoringNone, MonitoringBounds

F == INSTANCE FiniteSetTheorems

\* The theorems count as the model does.
LEMMA SameCounting ==
    /\ \A S : F!IsFiniteSet(S) <=> IsFiniteSet(S)
    /\ \A S : F!Cardinality(S) = Cardinality(S)
<1>1. \A S : F!IsFiniteSet(S) <=> IsFiniteSet(S)
  BY DEF F!IsFiniteSet, IsFiniteSet
<1>2. \A S : F!Cardinality(S) = Cardinality(S)
  BY DEF F!Cardinality, Cardinality
<1> QED BY <1>1, <1>2

\* There are two sessions more than requests.
LEMMA MonitoringFacts ==
    /\ IsFiniteSet(Requests) /\ Cardinality(Requests) \in Nat
    /\ Cardinality(Sessions) = Cardinality(Requests) + 2
    /\ Sessions \subseteq Nat /\ Nothing \notin Sessions
    /\ MaxChanges \in Nat
<1>1. IsFiniteSet(Requests) /\ Cardinality(Requests) \in Nat
  BY SameCounting, F!FS_CardinalityType
<1>2. Cardinality(Sessions) = Cardinality(Requests) + 2
  <2>1. \A n \in Nat : F!Cardinality(1..n) = n
    <3>1. \A a, b \in Nat : F!Cardinality(a..b) = IF a > b THEN 0 ELSE b - a + 1
      BY F!FS_Interval
    <3> QED
      BY <3>1
  <2>2. Cardinality(Requests) + 2 \in Nat
    BY <1>1
  <2> QED
    BY <2>1, <2>2, SameCounting DEF Sessions
<1> QED
  BY <1>1, <1>2 DEF Sessions

\* A request that has not asked finds a place for its session: the others hold
\* one each at most, the manager and the page one each.
LEMMA PlaceIsFree ==
    ASSUME NEW r \in Requests, using[r] = Nothing
    PROVE  NewSession \in Sessions /\ ~Held(NewSession)
<1> DEFINE Others == Requests \ {r}
           f == [q \in Others |-> using[q]]
           Used == {using[q] : q \in Others}
           Taken == (Used \cup {kept}) \cup {shown.session}
<1>1. IsFiniteSet(Others) /\ Cardinality(Others) = Cardinality(Requests) - 1
  BY MonitoringFacts, SameCounting, F!FS_RemoveElement
<1>2. f \in F!Surjection(Others, Used)
  BY DEF F!Surjection
<1>3. IsFiniteSet(Used) /\ Cardinality(Used) <= Cardinality(Others)
  <2> HIDE DEF f, Used, Others
  <2> QED BY <1>1, <1>2, SameCounting, F!FS_Surjection
<1>4. Cardinality(Used) \in Nat
  <2> HIDE DEF Used
  <2> QED BY <1>3, SameCounting, F!FS_CardinalityType
<1>5. IsFiniteSet(Used \cup {kept}) /\ Cardinality(Used \cup {kept}) <= Cardinality(Used) + 1
  <2> HIDE DEF Used
  <2>1. /\ IsFiniteSet(Used \cup {kept})
        /\ Cardinality(Used \cup {kept}) =
             IF kept \in Used THEN Cardinality(Used) ELSE Cardinality(Used) + 1
    BY <1>3, SameCounting, F!FS_AddElement
  <2> QED BY <2>1, <1>4
<1>6. Cardinality(Used \cup {kept}) \in Nat
  <2> HIDE DEF Used
  <2> QED BY <1>5, SameCounting, F!FS_CardinalityType
<1>7. /\ IsFiniteSet(Taken) /\ Cardinality(Taken) \in Nat
      /\ Cardinality(Taken) <= Cardinality(Used \cup {kept}) + 1
  <2> HIDE DEF Used
  <2>1. /\ IsFiniteSet(Taken)
        /\ Cardinality(Taken) <= Cardinality(Used \cup {kept}) + 1
    <3>1. /\ IsFiniteSet(Taken)
          /\ Cardinality(Taken) =
               IF shown.session \in Used \cup {kept} THEN Cardinality(Used \cup {kept})
               ELSE Cardinality(Used \cup {kept}) + 1
      BY <1>5, SameCounting, F!FS_AddElement
    <3> QED BY <1>6, <3>1
  <2> QED BY <2>1, SameCounting, F!FS_CardinalityType
<1>8. Cardinality(Taken) < Cardinality(Sessions)
  <2> HIDE DEF Taken, Used, Others
  <2> QED BY <1>1, <1>3, <1>4, <1>5, <1>6, <1>7, MonitoringFacts
<1>9. \E s \in Sessions : s \notin Taken
  <2>1. SUFFICES ASSUME Sessions \subseteq Taken PROVE FALSE
    OBVIOUS
  <2>2. Cardinality(Sessions) <= Cardinality(Taken)
    <3> HIDE DEF Taken
    <3> QED BY <2>1, <1>7, SameCounting, F!FS_Subset
  <2>3. Cardinality(Sessions) \in Nat
    BY MonitoringFacts
  <2> HIDE DEF Taken
  <2> QED BY <2>2, <2>3, <1>7, <1>8
<1>10. \E s \in Sessions : ~Held(s)
  <2> PICK s \in Sessions : s \notin Taken
    BY <1>9
  <2>1. s # Nothing
    BY MonitoringFacts
  <2> QED BY <2>1 DEF Held
<1> QED BY <1>10 DEF NewSession

USE DEF worldVars, serverVars, requestVars, pageVars, historyVars

\* Definitions of constants are the same after a step.
LEMMA ConstantsStay ==
    /\ Sessions' = Sessions /\ Versions' = Versions /\ Views' = Views
    /\ SessionRecords' = SessionRecords /\ Probes' = Probes /\ Places' = Places
BY DEF Sessions, Versions, Views, SessionRecords, Probes, Stages, Places

\* A machine's version grows only.
LEMMA ChangeKeeps ==
    ASSUME IInv, NEW m \in Machines, Change(m)
    PROVE  IInv'
<1> USE DEF Change
<1>1. /\ version' \in [Machines -> Versions]
      /\ \A n \in Machines : version'[n] >= version[n] /\ version'[n] <= changes'
  BY MonitoringFacts DEF IInv, TypeOK, Versions
<1>2. \A n \in Machines : version[n] \in Nat /\ version'[n] \in Nat
  BY <1>1 DEF IInv, TypeOK, Versions
<1>3. TypeOK'
  BY <1>1, MonitoringFacts DEF IInv, TypeOK, SessionRecords, FlightOK, Versions
<1>4. ASSUME NEW q \in Requests PROVE RequestOK(q)'
  BY <1>1, <1>2 DEF IInv, TypeOK, RequestOK, Versions
<1>5. ASSUME NEW q \in Requests PROVE ProbeOK(q)'
  BY <1>1, <1>2 DEF IInv, TypeOK, RequestOK, ProbeOK, Looked, Versions
<1>6. ASSUME NEW q \in Requests PROVE FloorOK(q)'
  BY <1>1, <1>2 DEF IInv, TypeOK, FloorOK, RequestOK, Looked, Versions
<1>7. ASSUME NEW q \in Requests PROVE ResponseOK(q)'
  BY <1>1, <1>2 DEF IInv, TypeOK, ResponseOK, Looked, Versions
<1>8. ASSUME NEW s \in Sessions PROVE SnapshotOK(s)'
  BY <1>1, <1>2 DEF IInv, TypeOK, SnapshotOK, SessionRecords, FlightOK, Looked,
     Versions
<1>9. ShownOK'
  BY <1>1, <1>2 DEF IInv, TypeOK, ShownOK, Versions
<1> QED
  BY <1>1, <1>3, <1>4, <1>5, <1>6, <1>7, <1>8, <1>9 DEF IInv

\* A switch adds the new machine to those active during a request.
LEMMA SwitchKeeps ==
    ASSUME IInv, NEW m \in Machines, Switch(m)
    PROVE  IInv'
<1> USE DEF Switch
<1>1. during' \in [Requests -> SUBSET Machines]
  BY DEF IInv, TypeOK
<1>2. TypeOK'
  BY <1>1 DEF IInv, TypeOK, SessionRecords, FlightOK, Versions
<1>3. ASSUME NEW q \in Requests PROVE RequestOK(q)'
  BY DEF IInv, TypeOK, RequestOK
<1>4. \A q \in Requests : ProbeOK(q)' /\ FloorOK(q)' /\ ResponseOK(q)'
  BY DEF IInv, ProbeOK, FloorOK, ResponseOK, Looked, Versions
<1>5. (\A s \in Sessions : SnapshotOK(s)') /\ ShownOK'
  BY DEF IInv, SnapshotOK, ShownOK, Looked, Sessions, Versions
<1> QED
  BY <1>2, <1>3, <1>4, <1>5 DEF IInv, Sessions

\* The request that asks starts with no answer of its own.
LEMMA RefreshKeeps ==
    ASSUME IInv, NEW r \in Requests, Refresh(r), clicks' \in 0..MaxClicks
    PROVE  IInv'
<1> USE DEF Refresh
<1>1. /\ pc' = [pc EXCEPT ![r] = "loading"] /\ during' = [during EXCEPT ![r] = {active}]
      /\ floor' = [floor EXCEPT ![r] = Nothing]
      /\ pc \in [Requests -> Places] /\ during \in [Requests -> SUBSET Machines]
      /\ floor \in [Requests -> Versions \cup {Nothing}]
  BY DEF IInv, TypeOK
<1>2. TypeOK'
  <2>0. TypeOK
    BY DEF IInv
  <2>1. \A s \in Sessions : FlightOK(s)'
    BY <1>1 DEF IInv, TypeOK, SessionRecords, FlightOK, Versions, Sessions
  <2>2. /\ pc' \in [Requests -> Places] /\ during' \in [Requests -> SUBSET Machines]
        /\ floor' \in [Requests -> Versions \cup {Nothing}]
    BY <1>1 DEF Places, IInv, TypeOK
  <2> QED BY <2>0, <2>1, <2>2, ConstantsStay DEF TypeOK
<1>3. ASSUME NEW q \in Requests PROVE RequestOK(q)' /\ ProbeOK(q)'
  BY <1>1 DEF IInv, TypeOK, RequestOK, ProbeOK, Looked, Unasked, Asked,
     Versions, Sessions
<1>4. ASSUME NEW q \in Requests PROVE FloorOK(q)'
  BY <1>1 DEF IInv, TypeOK, FloorOK, Looked, Versions, Sessions
<1>5. ASSUME NEW q \in Requests PROVE ResponseOK(q)'
  BY <1>1 DEF IInv, TypeOK, RequestOK, ProbeOK, ResponseOK, ForLog, Looked,
     Versions, Sessions
<1>6. (\A s \in Sessions : SnapshotOK(s)') /\ ShownOK'
  BY DEF IInv, SnapshotOK, ShownOK, Looked, Sessions, Versions
<1> QED
  BY <1>2, <1>3, <1>4, <1>5, <1>6 DEF IInv, Sessions

\* The floor is set only if nothing seen before can answer.
LEMMA LoadProfileKeeps ==
    ASSUME IInv, NEW r \in Requests, LoadProfile(r)
    PROVE  IInv'
<1> DEFINE then == IF pc[r] = "loading" THEN "loaded" ELSE "reloaded"
           least == IF SeesOnlyNew(r) THEN version[active] ELSE Nothing
<1>0. UNCHANGED <<worldVars, serverVars, awaits, response, probe, pageVars, during,
                  failures, clicks>>
  BY DEF LoadProfile
<1>1. /\ pc[r] \in {"loading", "reloading"}
      /\ pc' = [pc EXCEPT ![r] = then] /\ profile' = [profile EXCEPT ![r] = active]
      /\ using' = [using EXCEPT ![r] = Nothing] /\ floor' = [floor EXCEPT ![r] = least]
      /\ pc \in [Requests -> Places] /\ profile \in [Requests -> Machines \cup {Nothing}]
      /\ using \in [Requests -> Sessions \cup {Nothing}]
      /\ floor \in [Requests -> Versions \cup {Nothing}]
      /\ active \in Machines /\ version \in [Machines -> Versions]
      /\ resource \in {"status", "logs"}
  BY DEF LoadProfile, IInv, TypeOK
<1>2. /\ response[r] = Nothing /\ probe[r].stage = "none" /\ active \in during[r]
      /\ awaits[r] = Nothing /\ version[active] \in Nat
      /\ resource = "status" => pc[r] = "loading"
  BY <1>1 DEF IInv, TypeOK, RequestOK, ProbeOK, ResponseOK, ForLog, Versions
<1>3. then \in {"loaded", "reloaded"} /\ (resource = "status" => then = "loaded")
  BY <1>2
<1>4. /\ least \in {Nothing, version[active]}
      /\ resource = "status" /\ least # Nothing => ~AnswersEarly(active)
      /\ resource = "logs" /\ least # Nothing => then = "reloaded"
  BY <1>1 DEF SeesOnlyNew
<1> HIDE DEF then, least
<1>5. TypeOK'
  <2>0. TypeOK
    BY DEF IInv
  <2>1. \A s \in Sessions : FlightOK(s)'
    BY <1>0, <1>1 DEF IInv, TypeOK, FlightOK
  <2>2. /\ pc' \in [Requests -> Places] /\ profile' \in [Requests -> Machines \cup {Nothing}]
        /\ using' \in [Requests -> Sessions \cup {Nothing}]
        /\ floor' \in [Requests -> Versions \cup {Nothing}]
    BY <1>1, <1>3, <1>4 DEF Places
  <2> QED BY <2>0, <1>0, <2>1, <2>2, ConstantsStay DEF TypeOK
<1>6. ASSUME NEW q \in Requests PROVE RequestOK(q)' /\ ProbeOK(q)'
  <2>1. RequestOK(q) /\ ProbeOK(q)
    BY DEF IInv
  <2>2. CASE q = r
    BY <1>0, <1>1, <1>2, <1>3, <2>2 DEF RequestOK, ProbeOK, Looked, Unasked, Asked
  <2>3. CASE q # r
    BY <1>0, <1>1, <2>1, <2>3 DEF RequestOK, ProbeOK, Looked, Unasked, Asked, Versions, Sessions
  <2> QED BY <2>2, <2>3
<1>7. ASSUME NEW q \in Requests PROVE FloorOK(q)'
  <2>1. \A p \in Requests : Looked(p)' => p # r /\ Looked(p) /\ profile'[p] = profile[p]
    BY <1>0, <1>1, <1>2 DEF Looked
  <2>2. CASE q = r
    <3>1. ASSUME resource = "status", least # Nothing, NEW p \in Requests, Looked(p)',
                 profile'[p] = active
          PROVE  FALSE
      BY <1>0, <1>4, <2>1, <3>1 DEF AnswersEarly, Looked
    <3>2. ASSUME resource = "status", least # Nothing, NEW s \in Sessions, session[s].fresh,
                 session[s].machine = active
          PROVE  FALSE
      BY <1>4, <3>2 DEF AnswersEarly
    <3> QED
      BY <1>0, <1>1, <1>2, <1>3, <1>4, <2>1, <2>2, <3>1, <3>2 DEF FloorOK, Sessions
  <2>3. CASE q # r
    <3>1. FloorOK(q) /\ floor'[q] = floor[q] /\ pc'[q] = pc[q] /\ profile'[q] = profile[q]
      BY <1>1, <2>3 DEF IInv
    <3> QED BY <1>0, <2>1, <3>1 DEF FloorOK, Sessions
  <2> QED BY <2>2, <2>3
<1>8. ASSUME NEW q \in Requests PROVE ResponseOK(q)'
  <2>1. ResponseOK(q)
    BY DEF IInv
  <2>2. CASE q = r
    BY <1>0, <1>1, <1>2, <1>3, <2>2 DEF ResponseOK, ForLog
  <2>3. CASE q # r
    BY <1>0, <1>1, <2>1, <2>3 DEF ResponseOK, Looked, Sessions
  <2> QED BY <2>2, <2>3
<1>9. (\A s \in Sessions : SnapshotOK(s)') /\ ShownOK'
  BY <1>0 DEF IInv, SnapshotOK, ShownOK, Looked, Sessions, Versions
<1> QED
  BY <1>0, <1>5, <1>6, <1>7, <1>8, <1>9 DEF IInv, Sessions

\* A snapshot that is no longer fresh answers nobody.
LEMMA ExpireKeeps ==
    ASSUME IInv, NEW s \in Sessions, Expire(s)
    PROVE  IInv'
<1> USE DEF Expire
<1>1. \A t \in Sessions :
        /\ session'[t].machine = session[t].machine /\ session'[t].snapshot = session[t].snapshot
        /\ session'[t].flight = session[t].flight /\ (session'[t].fresh => session[t].fresh)
        /\ session'[t] \in SessionRecords
  <2>1. /\ session'[s] = [session[s] EXCEPT !.fresh = FALSE]
        /\ \A t \in Sessions : session[t] \in SessionRecords
        /\ \A t \in Sessions : t # s => session'[t] = session[t]
    BY DEF IInv, TypeOK
  <2>2. /\ session'[s].machine = session[s].machine /\ session'[s].snapshot = session[s].snapshot
        /\ session'[s].flight = session[s].flight /\ session'[s].fresh = FALSE
        /\ session'[s] \in SessionRecords
    <3> PICK o \in SessionRecords : o = session[s]
      BY <2>1
    <3> DEFINE e == [o EXCEPT !.fresh = FALSE]
    <3>1. /\ e.machine = o.machine /\ e.snapshot = o.snapshot /\ e.flight = o.flight
          /\ e.fresh = FALSE /\ e \in SessionRecords
      BY DEF SessionRecords
    <3>2. session'[s] = e
      BY <2>1
    <3> QED BY <3>1, <3>2
  <2> QED BY <2>1, <2>2
<1>2. TypeOK'
  <2>0. TypeOK
    BY DEF IInv
  <2>1. \A t \in Sessions : FlightOK(t)'
    BY <1>1 DEF IInv, TypeOK, SessionRecords, FlightOK, Versions, Sessions
  <2> QED BY <2>0, <1>1, <2>1, ConstantsStay DEF TypeOK
<1>3. ASSUME NEW q \in Requests PROVE RequestOK(q)' /\ ProbeOK(q)'
  BY <1>1 DEF IInv, TypeOK, RequestOK, ProbeOK, Looked, Versions, Sessions
<1>4. ASSUME NEW q \in Requests PROVE FloorOK(q)'
  BY <1>1 DEF IInv, TypeOK, FloorOK, Looked, Versions, Sessions
<1>5. ASSUME NEW q \in Requests PROVE ResponseOK(q)'
  BY <1>1 DEF IInv, TypeOK, RequestOK, ProbeOK, ResponseOK, Looked, Versions,
     Sessions
<1>6. (\A t \in Sessions : SnapshotOK(t)') /\ ShownOK'
  BY <1>1 DEF IInv, SnapshotOK, ShownOK, Looked, Sessions, Versions
<1> QED
  BY <1>2, <1>3, <1>4, <1>5, <1>6 DEF IInv, Sessions

\* What a probe sees is the newest there is.
LEMMA LookKeeps ==
    ASSUME IInv, NEW r \in Requests, Look(r)
    PROVE  IInv'
<1> USE DEF Look
<1>1. profile[r] \in Machines /\ version[profile[r]] \in Versions
  BY DEF IInv, TypeOK, RequestOK, ProbeOK
<1>2. /\ \A q \in Requests : q # r => probe'[q] = probe[q]
      /\ probe'[r] = [stage |-> "looked", saw |-> version[profile[r]]]
      /\ probe' \in [Requests -> Probes]
  BY <1>1 DEF IInv, TypeOK, Stages, Probes
<1>3. TypeOK'
  <2>0. TypeOK
    BY DEF IInv
  <2>1. \A t \in Sessions : FlightOK(t)'
    BY DEF IInv, TypeOK, SessionRecords, FlightOK, Versions, Sessions
  <2> QED BY <2>0, <1>2, <2>1, ConstantsStay DEF TypeOK
<1>4. ASSUME NEW q \in Requests PROVE RequestOK(q)' /\ ProbeOK(q)'
  BY <1>1, <1>2 DEF IInv, TypeOK, RequestOK, ProbeOK, Looked, Versions, Sessions
<1>5. ASSUME NEW q \in Requests PROVE FloorOK(q)'
  BY <1>1, <1>2 DEF IInv, TypeOK, FloorOK, Looked, Versions, Sessions
<1>6. ASSUME NEW q \in Requests PROVE ResponseOK(q)'
  BY SMTT(20), <1>1, <1>2, MonitoringFacts DEF IInv, TypeOK, RequestOK, Asked, ProbeOK,
     ShownOK, ResponseOK, Looked, Versions, Sessions
<1>7. ASSUME NEW s \in Sessions PROVE SnapshotOK(s)'
  BY <1>1, <1>2 DEF IInv, TypeOK, SessionRecords, FlightOK, RequestOK, Asked,
     SnapshotOK, ShownOK, Looked, Sessions, Versions
<1>8. ShownOK'
  BY DEF IInv, ShownOK, Sessions, Versions
<1> QED
  BY <1>3, <1>4, <1>5, <1>6, <1>7, <1>8 DEF IInv, Sessions

\* A log is read by the probe of its own request.
LEMMA ReadLogKeeps ==
    ASSUME IInv, NEW r \in Requests, ReadLog(r)
    PROVE  IInv'
<1> USE DEF ReadLog
<1> PICK result \in Versions \cup {Nothing} :
         Outcome(r, result) /\ response' = [response EXCEPT ![r] = result]
  OBVIOUS
<1>1. /\ result # Nothing => Looked(r) /\ result = probe[r].saw
      /\ failures' \in 0..MaxFailures
  BY DEF Outcome, Looked, IInv, TypeOK
<1>2. /\ pc' = [pc EXCEPT ![r] = "answered"] /\ pc \in [Requests -> Places]
      /\ probe' = [probe EXCEPT ![r] = NoProbe] /\ probe \in [Requests -> Probes]
      /\ response' = [response EXCEPT ![r] = result]
      /\ response \in [Requests -> Versions \cup {Nothing}]
  BY DEF IInv, TypeOK
<1>3. NoProbe \in Probes /\ NoProbe.stage = "none"
  BY DEF NoProbe, Probes, Stages
<1>4. TypeOK'
  <2>0. TypeOK
    BY DEF IInv
  <2>1. \A t \in Sessions : FlightOK(t)'
    BY <1>2 DEF IInv, TypeOK, SessionRecords, FlightOK, Versions, Sessions
  <2>2. /\ pc' \in [Requests -> Places] /\ probe' \in [Requests -> Probes]
        /\ response' \in [Requests -> Versions \cup {Nothing}]
    BY <1>2, <1>3 DEF Places
  <2> QED BY <2>0, <1>1, <2>1, <2>2, ConstantsStay DEF TypeOK
<1>5. ASSUME NEW q \in Requests PROVE RequestOK(q)' /\ ProbeOK(q)'
  BY <1>1, <1>2, <1>3 DEF IInv, TypeOK, RequestOK, ProbeOK, Looked, Unasked,
     Asked, Versions, Sessions
<1>6. ASSUME NEW q \in Requests PROVE FloorOK(q)'
  BY <1>1, <1>2, <1>3 DEF IInv, TypeOK, FloorOK, Looked, Versions, Sessions
<1>7. ASSUME NEW q \in Requests PROVE ResponseOK(q)'
  BY <1>1, <1>2, <1>3 DEF IInv, TypeOK, ResponseOK, ForLog, Looked,
     Versions, Sessions
<1>8. ASSUME NEW s \in Sessions PROVE SnapshotOK(s)'
  BY <1>1, <1>2, <1>3 DEF IInv, TypeOK, SessionRecords, FlightOK, SnapshotOK,
     Looked, Sessions, Versions
<1>9. ShownOK'
  BY DEF IInv, ShownOK, Sessions, Versions
<1> QED
  BY <1>4, <1>5, <1>6, <1>7, <1>8, <1>9 DEF IInv, Sessions

\* All that wait for the probe of r use one session, and it is in flight there
\* only.
LEMMA WaitingTogether ==
    ASSUME IInv, NEW r \in Requests, awaits[r] = r, pc[r] = "waiting"
    PROVE  /\ r \in Waiting(r)
           /\ using[r] \in Sessions /\ session[using[r]].flight = r
           /\ session[using[r]].machine = profile[r]
           /\ \A q \in Waiting(r) :
                /\ q \in Requests /\ pc[q] = "waiting" /\ awaits[q] = r
                /\ using[q] = using[r] /\ profile[q] = profile[r]
           /\ \A s \in Sessions : s # using[r] => session[s].flight \notin Waiting(r)
           /\ \A q \in Requests \ Waiting(r) :
                pc[q] = "waiting" => using[q] # using[r]
<1>1. /\ r \in Waiting(r)
      /\ using[r] \in Sessions /\ session[using[r]].flight = r
      /\ session[using[r]].machine = profile[r]
  BY DEF IInv, RequestOK, Asked, Waiting
<1>2. ASSUME NEW q \in Waiting(r)
      PROVE  /\ q \in Requests /\ pc[q] = "waiting" /\ awaits[q] = r
             /\ using[q] = using[r] /\ profile[q] = profile[r]
  <2>1. q \in Requests /\ pc[q] = "waiting" /\ awaits[q] = r
    BY DEF Waiting
  <2>2. /\ using[q] \in Sessions /\ session[using[q]].flight = r
        /\ session[using[q]].machine = profile[q]
    BY <2>1 DEF IInv, RequestOK, Asked
  <2>3. using[r] = using[q]
    BY <2>2 DEF IInv, TypeOK, FlightOK
  <2> QED BY <1>1, <2>1, <2>2, <2>3
<1>3. ASSUME NEW s \in Sessions, s # using[r] PROVE session[s].flight \notin Waiting(r)
  BY <1>2, <1>3 DEF IInv, TypeOK, FlightOK
<1>4. ASSUME NEW q \in Requests \ Waiting(r), pc[q] = "waiting" PROVE using[q] # using[r]
  BY <1>1, <1>4 DEF IInv, RequestOK, Waiting
<1> QED BY <1>1, <1>2, <1>3, <1>4

\* The probe saw no less than the snapshot it replaces and than any floor.
LEMMA LandKeeps ==
    ASSUME IInv, NEW r \in Requests, Land(r)
    PROVE  IInv'
<1> DEFINE W == Waiting(r)  u == using[r]
<1> PICK result \in Versions \cup {Nothing} :
        /\ Outcome(r, result)
        /\ session' = [session EXCEPT ![using[r]] = Landed(using[r], result)]
        /\ pc' = [q \in Requests |->
                    IF q \notin Waiting(r) THEN pc[q]
                    ELSE IF result = Nothing THEN "answered" ELSE AfterSnapshot]
        /\ response' = [q \in Requests |->
                          IF q \in Waiting(r) /\ resource = "status" THEN result ELSE response[q]]
        /\ probe' = [probe EXCEPT ![r] = NoProbe]
        /\ awaits' = [q \in Requests |-> IF q \in Waiting(r) THEN Nothing ELSE awaits[q]]
  BY DEF Land
<1>0. UNCHANGED <<worldVars, kept, profile, using, pageVars, historyVars, clicks>>
  BY DEF Land
<1>1. /\ result # Nothing => Looked(r) /\ result = probe[r].saw
      /\ failures' \in 0..MaxFailures
  BY DEF Outcome, Looked, IInv, TypeOK
<1>2. /\ r \in W /\ u \in Sessions /\ session[u].flight = r /\ session[u].machine = profile[r]
      /\ \A q \in W : /\ q \in Requests /\ pc[q] = "waiting" /\ awaits[q] = r
                      /\ using[q] = u /\ profile[q] = profile[r]
      /\ \A s \in Sessions : s # u => session[s].flight \notin W
      /\ \A q \in Requests \ W : pc[q] = "waiting" => using[q] # u
  BY WaitingTogether DEF Land
<1>3. /\ \A s \in Sessions \ {u} : session'[s] = session[s]
      /\ session'[u].machine = session[u].machine /\ session'[u].flight = Nothing
      /\ result = Nothing => /\ session'[u].snapshot = session[u].snapshot
                          /\ session'[u].fresh = session[u].fresh
      /\ result # Nothing => session'[u].snapshot = result /\ session'[u].fresh
      /\ session' \in [Sessions -> SessionRecords]
  <2>1. session \in [Sessions -> SessionRecords]
    BY DEF IInv, TypeOK
  <2> PICK o \in SessionRecords : o = session[u]
    BY <1>2, <2>1
  <2> DEFINE e == IF result = Nothing THEN [o EXCEPT !.flight = Nothing]
                  ELSE [o EXCEPT !.snapshot = result, !.fresh = TRUE, !.flight = Nothing]
  <2>2. /\ e.machine = o.machine /\ e.flight = Nothing /\ e \in SessionRecords
        /\ result = Nothing => e.snapshot = o.snapshot /\ e.fresh = o.fresh
        /\ result # Nothing => e.snapshot = result /\ e.fresh
    BY DEF SessionRecords
  <2>3. session' = [session EXCEPT ![u] = e]
    BY DEF Landed
  <2> HIDE DEF e, u
  <2> QED BY <1>2, <2>1, <2>2, <2>3
<1>4. /\ \A q \in Requests \ W : /\ pc'[q] = pc[q] /\ response'[q] = response[q]
                                 /\ probe'[q] = probe[q] /\ awaits'[q] = awaits[q]
      /\ \A q \in W : /\ pc'[q] \in {"reloading", "answered"}
                      /\ response'[q] = IF resource = "status" THEN result ELSE Nothing
                      /\ (pc'[q] = "reloading" => resource = "logs" /\ result # Nothing)
                      /\ (pc'[q] = "answered" => resource = "status" \/ result = Nothing)
                      /\ probe'[q].stage = "none" /\ ~Looked(q)' /\ awaits'[q] = Nothing
      /\ pc' \in [Requests -> Places] /\ probe' \in [Requests -> Probes]
      /\ response' \in [Requests -> Versions \cup {Nothing}]
      /\ awaits' \in [Requests -> Requests \cup {Nothing}]
  <2>1. NoProbe \in Probes /\ NoProbe.stage = "none"
    BY DEF NoProbe, Probes, Stages
  <2>2. AfterSnapshot = IF resource = "status" THEN "answered" ELSE "reloading"
    BY DEF AfterSnapshot
  <2>3. /\ resource \in {"status", "logs"} /\ pc \in [Requests -> Places]
        /\ probe \in [Requests -> Probes]
        /\ response \in [Requests -> Versions \cup {Nothing}]
        /\ awaits \in [Requests -> Requests \cup {Nothing}]
    BY DEF IInv, TypeOK
  <2>4. \A q \in W : /\ awaits[q] = r /\ (q # r => probe[q].stage = "none")
                     /\ response[q] = Nothing
    BY <1>2 DEF IInv, ProbeOK, RequestOK
  <2> HIDE DEF W
  <2>5. /\ pc' = [q \in Requests |->
                    IF q \notin W THEN pc[q]
                    ELSE IF result = Nothing THEN "answered" ELSE AfterSnapshot]
        /\ response' = [q \in Requests |->
                          IF q \in W /\ resource = "status" THEN result ELSE response[q]]
        /\ awaits' = [q \in Requests |-> IF q \in W THEN Nothing ELSE awaits[q]]
        /\ probe' = [probe EXCEPT ![r] = NoProbe]
    BY DEF W
  <2>6. \A q \in Requests \ W : /\ pc'[q] = pc[q] /\ response'[q] = response[q]
                                /\ probe'[q] = probe[q] /\ awaits'[q] = awaits[q]
    BY <1>2, <2>3, <2>5
  <2>7. ASSUME NEW q \in W
        PROVE  /\ pc'[q] \in {"reloading", "answered"}
               /\ response'[q] = IF resource = "status" THEN result ELSE Nothing
               /\ (pc'[q] = "reloading" => resource = "logs" /\ result # Nothing)
               /\ (pc'[q] = "answered" => resource = "status" \/ result = Nothing)
               /\ probe'[q].stage = "none" /\ ~Looked(q)' /\ awaits'[q] = Nothing
    <3>1. probe'[q] = IF q = r THEN NoProbe ELSE probe[q]
      BY <1>2, <2>3, <2>5
    <3>2. /\ pc'[q] = IF result = Nothing THEN "answered" ELSE AfterSnapshot
          /\ response'[q] = IF resource = "status" THEN result ELSE Nothing
          /\ awaits'[q] = Nothing
      BY <1>2, <2>4, <2>5
    <3> QED BY <2>1, <2>2, <2>3, <2>4, <3>1, <3>2 DEF Looked
  <2>8. /\ pc' \in [Requests -> Places]
        /\ response' \in [Requests -> Versions \cup {Nothing}]
        /\ awaits' \in [Requests -> Requests \cup {Nothing}]
        /\ probe' \in [Requests -> Probes]
    BY <2>1, <2>2, <2>3, <2>5 DEF Places
  <2> QED BY <2>6, <2>7, <2>8
<1> HIDE DEF W, u
<1>5. result # Nothing =>
        /\ result \in Versions /\ result <= version[profile[r]] /\ profile[r] \in Machines
        /\ session[u].snapshot # Nothing => result >= session[u].snapshot
  BY <1>0, <1>1, <1>2 DEF IInv, ProbeOK, RequestOK, SnapshotOK, W
<1>6. TypeOK'
  <2>0. TypeOK
    BY DEF IInv
  <2>1. \A t \in Sessions : FlightOK(t)'
    BY <1>0, <1>2, <1>3, <1>4 DEF IInv, TypeOK, SessionRecords, FlightOK
  <2> QED BY <2>0, <1>0, <1>1, <1>3, <1>4, <2>1, ConstantsStay DEF TypeOK
<1>7. ASSUME NEW q \in Requests PROVE RequestOK(q)' /\ ProbeOK(q)'
  <2>1. CASE q \in W
    <3>1. /\ pc[q] = "waiting" /\ using[q] = u /\ profile[q] = profile[r] /\ RequestOK(q)
          /\ pc'[q] \in {"reloading", "answered"} /\ ~Looked(q)'
          /\ response'[q] = IF resource = "status" THEN result ELSE Nothing
          /\ (pc'[q] = "reloading" => resource = "logs" /\ result # Nothing)
          /\ probe'[q].stage = "none" /\ awaits'[q] = Nothing
          /\ session'[u].machine = profile[r] /\ u \in Sessions
      <4>1. RequestOK(q)
        BY DEF IInv
      <4>2. session'[u].machine = profile[r] /\ u \in Sessions
        BY <1>2, <1>3
      <4> QED BY <1>2, <1>4, <2>1, <4>1, <4>2
    <3> QED BY <1>0, <1>5, <3>1 DEF RequestOK, ProbeOK, Unasked, Asked, Sessions
  <2>2. CASE q \notin W
    <3>1. /\ pc'[q] = pc[q] /\ response'[q] = response[q] /\ probe'[q] = probe[q]
          /\ awaits'[q] = awaits[q] /\ RequestOK(q) /\ ProbeOK(q)
          /\ \A s \in Sessions : session'[s].machine = session[s].machine
          /\ pc[q] = "waiting" => session'[using[q]].flight = session[using[q]].flight
      <4>1. RequestOK(q) /\ ProbeOK(q)
        BY <1>0 DEF IInv
      <4>2. pc[q] = "waiting" => using[q] \in Sessions \ {u}
        BY <1>0, <1>2, <2>2, <4>1 DEF RequestOK, Asked
      <4> QED BY <1>0, <1>3, <1>4, <2>2, <4>1, <4>2
    <3> QED BY <1>0, <3>1 DEF RequestOK, ProbeOK, Looked, Unasked, Asked, Sessions,
               Versions
  <2> QED BY <1>0, <2>1, <2>2
<1>8. ASSUME NEW q \in Requests, floor'[q] # Nothing PROVE FloorOK(q)'
  <2>1. FloorOK(q) /\ floor[q] # Nothing
    BY <1>0, <1>8 DEF IInv
  <2>2. \A p \in Requests : Looked(p)' => Looked(p) /\ probe'[p] = probe[p]
    BY <1>0, <1>4 DEF Looked
  <2>3. resource = "status" /\ result # Nothing /\ profile[r] = profile[q] => result >= floor[q]
    BY <1>0, <1>1, <2>1 DEF FloorOK
  <2>4. response'[q] # Nothing => response'[q] >= floor[q]
    BY <1>0, <1>2, <1>4, <2>1, <2>3 DEF FloorOK
  <2>5. /\ pc'[q] \notin {"idle", "loading", "reloading"}
        /\ resource = "logs" => pc'[q] \notin {"loaded", "waiting"}
    BY <1>0, <1>2, <1>4, <2>1 DEF FloorOK
  <2>6. ASSUME NEW s \in Sessions, resource = "status", session'[s].fresh,
               session'[s].machine = profile[q]
        PROVE  session'[s].snapshot >= floor[q]
    BY <1>0, <1>2, <1>3, <2>1, <2>3, <2>6 DEF FloorOK
  <2> QED BY <1>0, <2>1, <2>2, <2>4, <2>5, <2>6 DEF FloorOK, Sessions
<1>9. ASSUME NEW q \in Requests PROVE ResponseOK(q)'
  <2>1. CASE q \in W
    <3>1. /\ using[q] = u /\ u \in Sessions /\ ~Looked(q)' /\ pc'[q] \in {"reloading", "answered"}
          /\ response'[q] = IF resource = "status" THEN result ELSE Nothing
          /\ (pc'[q] = "reloading" => resource = "logs" /\ result # Nothing)
          /\ (pc'[q] = "answered" => resource = "status" \/ result = Nothing)
          /\ session[u].snapshot \in Versions \cup {Nothing}
          /\ result # Nothing => session'[u].snapshot = result
          /\ ShownOK /\ MaxChanges \in Nat
      <4>1. session[u] \in SessionRecords /\ ShownOK
        BY <1>2 DEF IInv, TypeOK
      <4>2. session[u].snapshot \in Versions \cup {Nothing}
        BY <4>1 DEF SessionRecords
      <4> QED BY <1>2, <1>3, <1>4, <2>1, <4>1, <4>2, MonitoringFacts
    <3> QED BY <1>0, <1>5, <3>1 DEF ShownOK, ResponseOK, ForLog, Versions
  <2>2. CASE q \notin W
    <3>1. ResponseOK(q) /\ RequestOK(q)
      BY <1>0 DEF IInv
    <3>2. response[q] # Nothing => using[q] \in Sessions /\ response[q] \in Nat
      BY <1>0, <3>1 DEF RequestOK, Asked, IInv, TypeOK, Versions
    <3>3. \A s \in Sessions : session[s].snapshot \in Versions \cup {Nothing}
      BY <1>0 DEF IInv, TypeOK, SessionRecords
    <3> QED
      BY <1>0, <1>2, <1>3, <1>4, <1>5, <2>2, <3>1, <3>2, <3>3
         DEF ResponseOK, ForLog, Looked, Versions
  <2> QED BY <1>0, <2>1, <2>2
<1>10. ASSUME NEW s \in Sessions PROVE SnapshotOK(s)'
  <2>1. SnapshotOK(s) /\ s # u => SnapshotOK(s)'
    BY <1>0, <1>2, <1>3, <1>4 DEF IInv, TypeOK, SessionRecords, SnapshotOK, Looked
  <2> QED BY <1>0, <1>2, <1>3, <1>5, <2>1 DEF IInv, SnapshotOK
<1>11. ShownOK'
  <2>1. \A s \in Sessions : session[s].snapshot \in Versions \cup {Nothing}
    BY <1>0 DEF IInv, TypeOK, SessionRecords
  <2> QED
    BY <1>0, <1>3, <1>5, <2>1 DEF IInv, ShownOK, Sessions, Versions
<1> QED
  BY <1>0, <1>6, <1>7, <1>8, <1>9, <1>10, <1>11 DEF IInv, FloorOK, Sessions

\* Sessions that are dropped are held by nobody.
LEMMA DeliverKeeps ==
    ASSUME IInv, NEW r \in Requests, Deliver(r)
    PROVE  IInv'
<1>0. /\ pc[r] = "answered"
      /\ shown' = IF MayShow(r) THEN Result(r) ELSE shown
      /\ UNCHANGED <<worldVars, kept, awaits, probe, latest, failures, clicks>>
  BY DEF Deliver
<1>1. /\ pc' = [pc EXCEPT ![r] = "idle"] /\ pc \in [Requests -> Places]
      /\ profile' = [profile EXCEPT ![r] = Nothing]
      /\ profile \in [Requests -> Machines \cup {Nothing}]
      /\ using' = [using EXCEPT ![r] = Nothing] /\ using \in [Requests -> Sessions \cup {Nothing}]
      /\ response' = [response EXCEPT ![r] = Nothing]
      /\ response \in [Requests -> Versions \cup {Nothing}]
      /\ during' = [during EXCEPT ![r] = {}] /\ during \in [Requests -> SUBSET Machines]
      /\ floor' = [floor EXCEPT ![r] = Nothing] /\ floor \in [Requests -> Versions \cup {Nothing}]
      /\ session \in [Sessions -> SessionRecords]
  BY DEF Deliver, IInv, TypeOK
<1>2. \A s \in Sessions : session'[s] = IF Held(s)' THEN session[s] ELSE Unused
  BY DEF Deliver, Collected
<1>3. /\ Unused \in SessionRecords /\ Unused.machine = Nothing /\ Unused.snapshot = Nothing
      /\ Unused.fresh = FALSE /\ Unused.flight = Nothing
  BY DEF Unused, SessionRecords
<1>4. \A s \in Sessions : session'[s] = session[s] \/ session'[s] = Unused
  BY <1>2
<1>5. \A q \in Requests \ {r} : using[q] \in Sessions => session'[using[q]] = session[using[q]]
  <2> SUFFICES ASSUME NEW q \in Requests \ {r}, NEW s \in Sessions, s = using[q]
               PROVE  Held(s)'
    BY <1>2
  <2>1. pc[q] # "idle"
    BY MonitoringFacts DEF IInv, RequestOK, Unasked
  <2> QED BY <1>1, <2>1 DEF Held
<1>6. shown'.session \in Sessions => session'[shown'.session] = session[shown'.session]
  BY <1>2 DEF Held
<1>7. /\ using[r] \in Sessions /\ session[using[r]].machine = profile[r] /\ profile[r] \in Machines
      /\ awaits[r] = Nothing /\ probe[r].stage = "none"
      /\ response[r] # Nothing => response[r] \in Versions /\ response[r] <= version[profile[r]]
  BY <1>0, <1>1 DEF IInv, RequestOK, ProbeOK, Asked
<1>8. /\ Response(r).machine = profile[r] /\ Response(r).version = response[r]
      /\ Response(r).session = using[r] /\ Response(r).stale = FALSE
      /\ response[r] # Nothing => Response(r) \in Views
      /\ response[r] # Nothing => [Response(r) EXCEPT !.session = Nothing, !.stale = TRUE] \in Views
      /\ [Response(r) EXCEPT !.session = Nothing, !.stale = TRUE].stale
  BY <1>7 DEF Response, Views
<1>9. /\ remembered' \in Views /\ remembered'.stale
      /\ shown' = shown \/ shown' = remembered \/ (response[r] # Nothing /\ shown' = Response(r))
      /\ r # latest => shown' = shown
      /\ shown \in Views /\ remembered \in Views /\ remembered.stale
  <2>1. remembered \in Views /\ remembered.stale /\ shown \in Views
    BY DEF IInv, TypeOK
  <2>2. remembered' = IF response[r] = Nothing THEN remembered
                      ELSE [Response(r) EXCEPT !.session = Nothing, !.stale = TRUE]
    BY DEF Deliver
  <2>3. remembered' \in Views /\ remembered'.stale
    BY <1>8, <2>1, <2>2
  <2> QED BY <1>0, <2>1, <2>3 DEF Result, MayShow
<1>10. TypeOK'
  <2>0. TypeOK
    BY DEF IInv
  <2>1. session' \in [Sessions -> SessionRecords]
    BY <1>1, <1>3 DEF Deliver, Collected
  <2>2. \A t \in Sessions : FlightOK(t)'
    BY <1>0, <1>1, <1>3, <1>4 DEF IInv, TypeOK, SessionRecords, FlightOK
  <2>3. shown' \in Views
    BY <1>8, <1>9
  <2>4. pc' \in [Requests -> Places] /\ profile' \in [Requests -> Machines \cup {Nothing}]
    BY <1>1 DEF Places
  <2> QED BY <2>0, <1>0, <1>1, <1>9, <2>1, <2>2, <2>3, <2>4, ConstantsStay DEF TypeOK
<1>11. ASSUME NEW q \in Requests PROVE RequestOK(q)' /\ ProbeOK(q)'
  <2>1. CASE q = r
    BY <1>0, <1>1, <1>7, <2>1 DEF RequestOK, ProbeOK, Looked, Unasked, Asked
  <2>2. CASE q # r
    BY <1>0, <1>1, <1>5, <2>2 DEF IInv, RequestOK, ProbeOK, Looked, Unasked, Asked,
       Sessions, Versions
  <2> QED BY <2>1, <2>2
<1>12. ASSUME NEW q \in Requests PROVE FloorOK(q)'
  <2>1. CASE q = r
    BY <1>1, <2>1 DEF FloorOK
  <2>2. CASE q # r
    <3>1. \A p \in Requests : Looked(p)' => p # r
      BY <1>0, <1>7 DEF Looked
    <3> QED BY <1>0, <1>1, <1>3, <1>4, <2>2, <3>1 DEF IInv, FloorOK, Looked, Sessions
  <2> QED BY <2>1, <2>2
<1>13. ASSUME NEW q \in Requests PROVE ResponseOK(q)'
  <2>1. CASE q = r
    BY <1>0, <1>1, <2>1 DEF ResponseOK, ForLog
  <2>2. CASE q # r
    <3>1. ResponseOK(q) /\ (response[q] # Nothing => using[q] \in Sessions)
      BY DEF IInv, RequestOK, Asked
    <3> QED BY <1>0, <1>1, <1>5, <1>9, <2>2, <3>1 DEF ResponseOK, Looked
  <2> QED BY <2>1, <2>2
<1>14. ASSUME NEW s \in Sessions PROVE SnapshotOK(s)'
  BY <1>0, <1>3, <1>4 DEF IInv, SnapshotOK, Looked
<1>15. ShownOK'
  <2>1. CASE shown' = shown
    BY <1>0, <1>6, <2>1 DEF IInv, ShownOK, Sessions, Versions
  <2>2. CASE shown' = remembered
    BY <1>9, <2>2 DEF ShownOK
  <2>3. CASE response[r] # Nothing /\ shown' = Response(r)
    BY <1>0, <1>6, <1>7, <1>8, <2>3 DEF IInv, ResponseOK, ShownOK, Sessions, Versions
  <2> QED BY <1>9, <2>1, <2>2, <2>3
<1> QED
  BY <1>0, <1>9, <1>10, <1>11, <1>12, <1>13, <1>14, <1>15 DEF IInv, Sessions

\* The session a request asks is of the profile it loaded, whether it is the
\* manager's or a new one in a free place.
LEMMA SessionMade ==
    ASSUME IInv, NEW r \in Requests, pc[r] \in {"loaded", "reloaded"}
    PROVE  /\ SessionOf(r) \in Sessions
           /\ WithSessionOf(r) \in [Sessions -> SessionRecords]
           /\ WithSessionOf(r)[SessionOf(r)].machine = profile[r]
           /\ \A s \in Sessions :
                \/ WithSessionOf(r)[s] = session[s]
                \/ /\ s = SessionOf(r) /\ ~Held(s)
                   /\ WithSessionOf(r)[s].snapshot = Nothing /\ ~WithSessionOf(r)[s].fresh
                   /\ WithSessionOf(r)[s].flight = Nothing
<1>1. /\ session \in [Sessions -> SessionRecords] /\ using[r] = Nothing
      /\ profile[r] \in Machines /\ kept \in Sessions \cup {Nothing}
  BY DEF IInv, TypeOK, RequestOK, Unasked
<1>2. CASE Reusable(r)
  BY <1>1, <1>2 DEF Reusable, SessionOf, WithSessionOf
<1>3. CASE ~Reusable(r)
  <2> DEFINE new == [Unused EXCEPT !.machine = profile[r]]
  <2>1. /\ new \in SessionRecords /\ new.machine = profile[r] /\ new.snapshot = Nothing
        /\ ~new.fresh /\ new.flight = Nothing
    BY <1>1 DEF Unused, SessionRecords
  <2>2. NewSession \in Sessions /\ ~Held(NewSession)
    BY <1>1, PlaceIsFree
  <2>3. SessionOf(r) = NewSession /\ WithSessionOf(r) = [session EXCEPT ![NewSession] = new]
    BY <1>3 DEF SessionOf, WithSessionOf
  <2> HIDE DEF new
  <2> QED BY <1>1, <2>1, <2>2, <2>3
<1> QED BY <1>2, <1>3

\* Whether the cache answers or a probe, it is of the session asked.
LEMMA AskKeeps ==
    ASSUME IInv, NEW r \in Requests, Ask(r)
    PROVE  IInv'
<1> PICK u \in Sessions : u = SessionOf(r)
  BY SessionMade DEF Ask
<1> PICK made \in [Sessions -> SessionRecords] : made = WithSessionOf(r)
  BY SessionMade DEF Ask
<1>0. /\ pc[r] = "loaded" /\ kept' = u /\ using' = [using EXCEPT ![r] = u]
      /\ UNCHANGED <<worldVars, profile, pageVars, historyVars, failures, clicks>>
      /\ ReadCache(r, u, made)
  BY DEF Ask
<1>1. /\ made[u].machine = profile[r]
      /\ \A s \in Sessions :
           \/ made[s] = session[s]
           \/ /\ s = u /\ ~Held(s) /\ made[s].snapshot = Nothing /\ ~made[s].fresh
              /\ made[s].flight = Nothing
  BY <1>0, SessionMade
<1>2. /\ pc \in [Requests -> Places] /\ using \in [Requests -> Sessions \cup {Nothing}]
      /\ awaits \in [Requests -> Requests \cup {Nothing}]
      /\ response \in [Requests -> Versions \cup {Nothing}]
      /\ probe \in [Requests -> Probes] /\ resource \in {"status", "logs"}
      /\ session \in [Sessions -> SessionRecords]
  BY DEF IInv, TypeOK
\* Sessions that others use, and the one shown, are as they were.
<1>3. \A q \in Requests \ {r} : using[q] \in Sessions => made[using[q]] = session[using[q]]
  <2> SUFFICES ASSUME NEW q \in Requests \ {r}, NEW s \in Sessions, s = using[q]
               PROVE  Held(s)
    BY <1>1
  <2>1. pc[q] # "idle"
    BY MonitoringFacts DEF IInv, RequestOK, Unasked
  <2> QED BY <2>1 DEF Held
<1>4. shown.session \in Sessions => made[shown.session] = session[shown.session]
  BY <1>1 DEF Held
\* The cache answers, or the request waits for a probe: its own or one in flight.
<1> DEFINE started == [NoProbe EXCEPT !.stage = "started"]
           then == IF made[u].fresh THEN AfterSnapshot ELSE "waiting"
           own == ~made[u].fresh /\ made[u].flight = Nothing
           left == IF own THEN [made EXCEPT ![u].flight = r] ELSE made
<1>5. /\ pc' = [pc EXCEPT ![r] = then]
      /\ session' = [s \in Sessions |-> IF Held(s)' THEN left[s] ELSE Unused]
      /\ awaits' = IF made[u].fresh THEN awaits
                   ELSE [awaits EXCEPT ![r] = IF own THEN r ELSE made[u].flight]
      /\ response' = IF made[u].fresh /\ resource = "status"
                     THEN [response EXCEPT ![r] = made[u].snapshot] ELSE response
      /\ probe' = IF own THEN [probe EXCEPT ![r] = started] ELSE probe
  BY <1>0 DEF ReadCache, TakeSnapshot, JoinFlight, StartFlight, Collected
<1>6. /\ left \in [Sessions -> SessionRecords]
      /\ \A s \in Sessions : /\ left[s].machine = made[s].machine /\ left[s].fresh = made[s].fresh
                             /\ left[s].snapshot = made[s].snapshot
                             /\ left[s].flight = IF own /\ s = u THEN r ELSE made[s].flight
  <2> PICK o \in SessionRecords : o = made[u]
    OBVIOUS
  <2> DEFINE e == [o EXCEPT !.flight = r]
  <2>1. /\ e.machine = o.machine /\ e.snapshot = o.snapshot /\ e.fresh = o.fresh
        /\ e.flight = r /\ e \in SessionRecords
    BY DEF SessionRecords
  <2>2. left = IF own THEN [made EXCEPT ![u] = e] ELSE made
    OBVIOUS
  <2> HIDE DEF e, left, own
  <2> QED BY <2>1, <2>2
<1>7. started \in Probes /\ started.stage = "started"
  BY DEF NoProbe, Probes, Stages
<1>8. /\ then \in {"waiting", "reloading", "answered"}
      /\ (then = "waiting" <=> ~made[u].fresh)
      /\ then = "answered" => resource = "status"
      /\ then = "reloading" => resource = "logs"
  BY <1>2 DEF AfterSnapshot
<1> HIDE DEF left, started, then
<1>9. Held(u)' /\ (\A q \in Requests \ {r}, s \in Sessions : s = using[q] => Held(s)')
  <2>1. ASSUME NEW q \in Requests \ {r}, NEW s \in Sessions, s = using[q] PROVE Held(s)'
    <3>1. pc[q] # "idle"
      BY <2>1, MonitoringFacts DEF IInv, RequestOK, Unasked
    <3> QED BY <1>0, <1>2, <1>5, <2>1, <3>1 DEF Held
  <2> QED BY <1>0, <2>1 DEF Held
<1>10. /\ session'[u] = left[u]
       /\ \A q \in Requests \ {r} : using[q] \in Sessions => session'[using[q]] = left[using[q]]
       /\ shown.session \in Sessions => session'[shown.session] = left[shown.session]
  <2>1. \A s \in Sessions : s = shown.session => Held(s)'
    BY <1>0 DEF Held
  <2> QED BY <1>5, <1>9, <2>1
<1>11. /\ \A q \in Requests \ {r} :
            /\ pc'[q] = pc[q] /\ using'[q] = using[q] /\ awaits'[q] = awaits[q]
            /\ response'[q] = response[q] /\ probe'[q] = probe[q]
       /\ pc'[r] = then /\ using'[r] = u
       /\ awaits'[r] = IF made[u].fresh THEN Nothing ELSE left[u].flight
       /\ response'[r] = IF then = "answered" THEN made[u].snapshot ELSE Nothing
       /\ probe'[r].stage # "none" => own
       /\ \A q \in Requests : Looked(q)' => q # r /\ Looked(q)
  <2>1. awaits[r] = Nothing /\ response[r] = Nothing /\ probe[r].stage = "none"
    BY <1>0 DEF IInv, RequestOK, ProbeOK
  <2>2. made[u].fresh /\ resource = "status" <=> then = "answered"
    BY <1>2 DEF then, AfterSnapshot
  <2>3. probe'[r] = IF own THEN started ELSE probe[r]
    BY <1>2, <1>5
  <2>4. \A q \in Requests \ {r} : probe'[q] = probe[q]
    BY <1>2, <1>5
  <2>5. \A q \in Requests : Looked(q)' => q # r /\ Looked(q)
    BY <1>7, <2>1, <2>3, <2>4 DEF Looked
  <2>6. awaits'[r] = IF made[u].fresh THEN Nothing ELSE left[u].flight
    BY <1>2, <1>5, <1>6, <2>1
  <2>7. /\ \A q \in Requests \ {r} :
             /\ pc'[q] = pc[q] /\ using'[q] = using[q] /\ awaits'[q] = awaits[q]
             /\ response'[q] = response[q]
        /\ pc'[r] = then /\ using'[r] = u
        /\ response'[r] = IF then = "answered" THEN made[u].snapshot ELSE Nothing
    BY <1>0, <1>2, <1>5, <2>1, <2>2
  <2> QED BY <2>1, <2>2, <2>3, <2>4, <2>5, <2>6, <2>7
<1>12. /\ \A s \in Sessions : session'[s] = left[s] \/ session'[s] = Unused
       /\ Unused.machine = Nothing /\ Unused.snapshot = Nothing /\ Unused.fresh = FALSE
       /\ Unused.flight = Nothing /\ Unused \in SessionRecords
  BY <1>5 DEF Unused, SessionRecords
<1>13. \A s \in Sessions : made[s].flight # Nothing \/ made[s].fresh \/ made[s].snapshot # Nothing
                             => made[s] = session[s]
  BY <1>1
<1>14. \A s \in Sessions : session[s].flight # r
  BY <1>0 DEF IInv, TypeOK, FlightOK
<1>15. TypeOK'
  <2>0. TypeOK
    BY DEF IInv
  <2>1. session' \in [Sessions -> SessionRecords]
    BY <1>5, <1>6, <1>12
  <2>2. ASSUME NEW s \in Sessions, session'[s].flight # Nothing PROVE FlightOK(s)'
    <3>1. session'[s].flight = left[s].flight
      BY <1>12, <2>2
    <3>2. CASE own /\ s = u
      BY <1>6, <1>8, <1>11, <3>1, <3>2 DEF FlightOK
    <3>3. CASE ~(own /\ s = u)
      <4>1. session'[s].flight = session[s].flight
        BY <1>6, <1>13, <2>2, <3>1, <3>3
      <4>2. FlightOK(s) /\ session[s] \in SessionRecords
        BY DEF IInv, TypeOK
      <4>3. session[s].flight \in Requests \ {r}
        BY <1>14, <2>2, <4>1, <4>2 DEF SessionRecords
      <4> QED BY <1>11, <2>2, <4>1, <4>2, <4>3 DEF FlightOK
    <3> QED BY <3>2, <3>3
  <2>3. \A s \in Sessions : FlightOK(s)'
    BY <2>2 DEF FlightOK
  <2>4. pc' \in [Requests -> Places]
    BY <1>2, <1>5, <1>8 DEF Places
  <2>5. response' \in [Requests -> Versions \cup {Nothing}]
    BY <1>2, <1>5 DEF SessionRecords
  <2>6. awaits' \in [Requests -> Requests \cup {Nothing}]
    <3>1. made[u].flight \in Requests \cup {Nothing}
      BY DEF SessionRecords
    <3> QED BY <1>2, <1>5, <3>1
  <2>7. probe' \in [Requests -> Probes]
    BY <1>2, <1>5, <1>7
  <2>8. using' \in [Requests -> Sessions \cup {Nothing}] /\ kept' \in Sessions \cup {Nothing}
    BY <1>0, <1>2
  <2> QED BY <2>0, <1>0, <2>1, <2>3, <2>4, <2>5, <2>6, <2>7, <2>8, ConstantsStay DEF TypeOK
<1>16. ASSUME NEW q \in Requests PROVE RequestOK(q)' /\ ProbeOK(q)'
  <2>1. CASE q = r
    <3>1. /\ session'[u].machine = profile[r] /\ session'[u].flight = left[u].flight
          /\ RequestOK(r)
      BY <1>1, <1>6, <1>10 DEF IInv
    <3>2. then = "waiting" => left[u].flight \in Requests
      BY <1>6, <1>8 DEF SessionRecords
    <3>3. made[u].fresh => made[u].snapshot <= version[profile[r]]
      BY <1>1, <1>13 DEF IInv, SnapshotOK
    <3>4. own => then = "waiting" /\ left[u].flight = r
      BY <1>6, <1>8
    <3>5. then = "waiting" => ~made[u].fresh
      BY <1>8
    <3> HIDE DEF own
    <3>6. RequestOK(r)'
      BY <1>0, <1>8, <1>11, <3>1, <3>2, <3>3, <3>5
         DEF RequestOK, Unasked, Asked, Sessions
    <3>7. ProbeOK(r)'
      BY <1>8, <1>11, <3>4 DEF ProbeOK
    <3> QED BY <2>1, <3>6, <3>7
  <2>2. CASE q # r
    <3>1. RequestOK(q) /\ ProbeOK(q)
      BY DEF IInv
    <3>2. pc[q] \in Asked =>
            /\ using[q] \in Sessions /\ session'[using[q]].machine = session[using[q]].machine
            /\ session[using[q]].flight # Nothing =>
                 session'[using[q]].flight = session[using[q]].flight
      BY <1>3, <1>6, <1>10, <2>2, <3>1 DEF RequestOK
    <3> QED
      BY <1>0, <1>11, <2>2, <3>1, <3>2 DEF RequestOK, ProbeOK, Looked, Unasked,
         Asked, Sessions, Versions
  <2> QED BY <2>1, <2>2
<1>17. ASSUME NEW q \in Requests PROVE FloorOK(q)'
  <2>1. FloorOK(q)
    BY DEF IInv
  <2>2. ASSUME NEW s \in Sessions, session'[s].fresh
        PROVE  session[s].fresh /\ session'[s].machine = session[s].machine
                /\ session'[s].snapshot = session[s].snapshot
    BY <1>6, <1>12, <1>13, <2>2
  <2>3. \A p \in Requests : Looked(p)' => Looked(p) /\ probe'[p] = probe[p]
    BY <1>11
  <2>4. /\ pc'[q] = pc[q] \/ (q = r /\ pc[q] = "loaded" /\ pc'[q] = then)
        /\ resource \in {"status", "logs"}
    BY <1>0, <1>2, <1>11
  <2>6. resource = "status" => pc'[q] = pc[q] \/ pc'[q] \in {"waiting", "answered"}
    BY <1>8, <2>4
  <2>5. response'[q] = response[q] \/ (q = r /\ response'[r] = Nothing)
          \/ (/\ q = r /\ session[u].fresh /\ session[u].machine = profile[r]
              /\ response'[r] = session[u].snapshot)
    BY <1>1, <1>8, <1>11, <1>13
  <2> QED BY <1>0, <2>1, <2>2, <2>3, <2>4, <2>5, <2>6 DEF FloorOK, Sessions
<1>18. ASSUME NEW q \in Requests PROVE ResponseOK(q)'
  <2>1. CASE q = r
    <3>1. ~Looked(r)' /\ (resource = "status" => then \notin ForLog)
      BY <1>8, <1>11 DEF ForLog
    <3>2. session'[u].snapshot = made[u].snapshot
      BY <1>6, <1>10
    <3>3. made[u].fresh => made[u] = session[u] /\ made[u].snapshot # Nothing /\ made[u].snapshot \in Nat
      BY <1>13 DEF IInv, SnapshotOK, SessionRecords, Versions
    <3>4. then = "answered" => resource = "status" /\ made[u].fresh
      BY <1>8
    <3> QED BY <1>0, <1>11, <2>1, <3>1, <3>2, <3>3, <3>4 DEF IInv, ShownOK, ResponseOK
  <2>2. CASE q # r
    <3>1. ResponseOK(q) /\ (response[q] # Nothing => using[q] \in Sessions)
      BY DEF IInv, RequestOK, Asked
    <3>2. using[q] \in Sessions => session'[using[q]].snapshot = session[using[q]].snapshot
      BY <1>3, <1>6, <1>10, <2>2
    <3> QED BY <1>0, <1>11, <2>2, <3>1, <3>2 DEF ResponseOK, Looked
  <2> QED BY <2>1, <2>2
<1>19. ASSUME NEW s \in Sessions, session'[s].snapshot # Nothing PROVE SnapshotOK(s)'
  <2>1. session'[s] = left[s] /\ made[s] = session[s] /\ session[s].snapshot # Nothing
    BY <1>6, <1>12, <1>13, <1>19
  <2>2. /\ session'[s].machine = session[s].machine /\ session'[s].snapshot = session[s].snapshot
        /\ session'[s].flight \in {r, session[s].flight}
    BY <1>6, <2>1
  <2>3. /\ SnapshotOK(s) /\ session[s].flight \in Requests \cup {Nothing}
        /\ \A q \in Requests : Looked(q)' => Looked(q) /\ probe'[q] = probe[q]
        /\ ~Looked(r)'
    BY <1>11 DEF IInv, TypeOK, SessionRecords
  <2> QED BY <1>0, <1>14, <1>19, <2>1, <2>2, <2>3 DEF SnapshotOK, Looked
<1>20. \A s \in Sessions : SnapshotOK(s)'
  <2>1. ASSUME NEW s \in Sessions, session'[s].snapshot = Nothing PROVE ~session'[s].fresh
    BY <1>6, <1>12, <1>13, <2>1 DEF IInv, SnapshotOK
  <2> QED BY <1>19, <2>1 DEF SnapshotOK
<1>21. ShownOK'
  <2>1. shown.session \in Sessions =>
          /\ session'[shown.session].machine = session[shown.session].machine
          /\ session'[shown.session].snapshot = session[shown.session].snapshot
    BY <1>4, <1>6, <1>10
  <2> QED BY <1>0, <2>1 DEF IInv, ShownOK, Sessions, Versions
<1> QED
  BY <1>0, <1>15, <1>16, <1>17, <1>18, <1>20, <1>21 DEF IInv, Sessions

\* The log is read by a probe of its own, from a session of the profile that was
\* loaded last.
LEMMA AskLogKeeps ==
    ASSUME IInv, NEW r \in Requests, AskLog(r)
    PROVE  IInv'
<1> PICK u \in Sessions : u = SessionOf(r)
  BY SessionMade DEF AskLog
<1> PICK made \in [Sessions -> SessionRecords] : made = WithSessionOf(r)
  BY SessionMade DEF AskLog
<1> DEFINE started == [NoProbe EXCEPT !.stage = "started"]
<1>0. /\ pc[r] = "reloaded" /\ kept' = u
      /\ UNCHANGED <<worldVars, profile, awaits, response, pageVars, historyVars, failures, clicks>>
      /\ \A s \in Sessions : session'[s] = IF Held(s)' THEN made[s] ELSE Unused
      /\ session' \in [Sessions -> SessionRecords]
  <2>1. Unused \in SessionRecords
    BY DEF Unused, SessionRecords
  <2> QED BY <2>1 DEF AskLog, Collected
<1>1. /\ made[u].machine = profile[r]
      /\ \A s \in Sessions :
           \/ made[s] = session[s]
           \/ /\ s = u /\ ~Held(s) /\ made[s].snapshot = Nothing /\ ~made[s].fresh
              /\ made[s].flight = Nothing
  BY <1>0, SessionMade
<1>2. /\ pc' = [pc EXCEPT ![r] = "reading"] /\ pc \in [Requests -> Places]
      /\ using' = [using EXCEPT ![r] = u] /\ using \in [Requests -> Sessions \cup {Nothing}]
      /\ probe' = [probe EXCEPT ![r] = started] /\ probe \in [Requests -> Probes]
      /\ started \in Probes /\ started.stage = "started"
      /\ session \in [Sessions -> SessionRecords] /\ resource \in {"status", "logs"}
  BY DEF AskLog, IInv, TypeOK, NoProbe, Probes, Stages
<1> HIDE DEF started
<1>3. /\ Unused.machine = Nothing /\ Unused.snapshot = Nothing /\ Unused.fresh = FALSE
      /\ Unused.flight = Nothing
      /\ \A s \in Sessions : session'[s] = made[s] \/ session'[s] = Unused
  BY <1>0 DEF Unused
\* Sessions that others use, and the one shown, are as they were.
<1>4. \A q \in Requests \ {r} : using[q] \in Sessions => session'[using[q]] = session[using[q]]
  <2> SUFFICES ASSUME NEW q \in Requests \ {r}, NEW s \in Sessions, s = using[q]
               PROVE  Held(s) /\ Held(s)'
    BY <1>0, <1>1
  <2>1. pc[q] # "idle"
    BY MonitoringFacts DEF IInv, RequestOK, Unasked
  <2> QED BY <1>2, <2>1 DEF Held
<1>5. shown.session \in Sessions => session'[shown.session] = session[shown.session]
  <2>1. \A s \in Sessions : s = shown.session => Held(s) /\ Held(s)'
    BY <1>0 DEF Held
  <2> QED BY <1>0, <1>1, <2>1
<1>6. session'[u].machine = profile[r]
  <2>1. Held(u)'
    BY <1>0 DEF Held
  <2> QED BY <1>0, <1>1, <2>1
<1>7. \A s \in Sessions :
        session'[s].flight # Nothing \/ session'[s].fresh \/ session'[s].snapshot # Nothing
          => session'[s] = session[s]
  BY <1>1, <1>3
<1>8. /\ resource = "logs" /\ awaits[r] = Nothing /\ response[r] = Nothing
      /\ ~Looked(r)' /\ \A q \in Requests : Looked(q)' => q # r /\ Looked(q)
      /\ \A q \in Requests \ {r} : probe'[q] = probe[q] /\ pc'[q] = pc[q] /\ using'[q] = using[q]
      /\ pc'[r] = "reading" /\ using'[r] = u
  BY <1>0, <1>2 DEF IInv, ResponseOK, ForLog, RequestOK, Looked
<1>9. TypeOK'
  <2>0. TypeOK
    BY DEF IInv
  <2>1. ASSUME NEW s \in Sessions PROVE FlightOK(s)'
    <3>1. session'[s].flight # Nothing => session'[s] = session[s] /\ FlightOK(s)
      BY <1>7 DEF IInv, TypeOK
    <3>2. session[s].flight \in Requests \cup {Nothing}
      BY <1>2 DEF SessionRecords
    <3> QED BY <1>0, <1>8, <3>1, <3>2 DEF FlightOK
  <2>2. /\ pc' \in [Requests -> Places] /\ probe' \in [Requests -> Probes]
        /\ using' \in [Requests -> Sessions \cup {Nothing}]
    BY <1>2 DEF Places
  <2> QED BY <2>0, <1>0, <2>1, <2>2, ConstantsStay DEF TypeOK
<1>10. ASSUME NEW q \in Requests PROVE RequestOK(q)' /\ ProbeOK(q)'
  <2>1. RequestOK(q) /\ ProbeOK(q)
    BY DEF IInv
  <2>2. CASE q = r
    BY <1>0, <1>6, <1>8, <2>1, <2>2 DEF RequestOK, ProbeOK, Unasked, Asked, Sessions
  <2>3. CASE q # r
    BY <1>0, <1>4, <1>8, <2>1, <2>3 DEF RequestOK, ProbeOK, Looked, Unasked, Asked,
       Sessions, Versions
  <2> QED BY <2>2, <2>3
<1>11. ASSUME NEW q \in Requests PROVE FloorOK(q)'
  <2>1. FloorOK(q)
    BY DEF IInv
  <2>2. \A p \in Requests : Looked(p)' => Looked(p) /\ probe'[p] = probe[p]
    BY <1>8
  <2> QED BY <1>0, <1>8, <2>1, <2>2 DEF FloorOK
<1>12. ASSUME NEW q \in Requests PROVE ResponseOK(q)'
  <2>1. ResponseOK(q)
    BY DEF IInv
  <2> QED BY <1>0, <1>8, <2>1 DEF ResponseOK, Looked
<1>13. ASSUME NEW s \in Sessions PROVE SnapshotOK(s)'
  <2>1. SnapshotOK(s)
    BY DEF IInv
  <2>2. session[s].flight \in Requests \cup {Nothing}
    BY <1>2 DEF SessionRecords
  <2>3. \A q \in Requests : Looked(q)' => Looked(q) /\ probe'[q] = probe[q]
    BY <1>8
  <2> QED BY <1>0, <1>7, <2>1, <2>2, <2>3 DEF SnapshotOK
<1>14. ShownOK'
  BY <1>0, <1>5 DEF IInv, ShownOK, Sessions, Versions
<1> QED
  BY <1>0, <1>9, <1>10, <1>11, <1>12, <1>13, <1>14 DEF IInv, Sessions

\* Nothing is cached and nothing shown at the start.
LEMMA MonitoringStarts == MonitoringInit => IInv
<1> SUFFICES ASSUME MonitoringInit PROVE IInv
  OBVIOUS
<1>1. /\ Unused \in SessionRecords /\ Unused.snapshot = Nothing /\ Unused.fresh = FALSE
      /\ Unused.flight = Nothing /\ NoProbe \in Probes /\ NoProbe.stage = "none"
      /\ Unavailable \in Views /\ Unavailable.stale
  BY DEF Unused, SessionRecords, NoProbe, Probes, Stages, Unavailable, Views
<1>2. TypeOK
  BY <1>1, MonitoringFacts DEF MonitoringInit, TypeOK, FlightOK, Places, Versions
<1>3. \A r \in Requests : RequestOK(r) /\ ProbeOK(r) /\ FloorOK(r) /\ ResponseOK(r)
  BY <1>1 DEF MonitoringInit, RequestOK, ProbeOK, FloorOK, ResponseOK, Looked, Unasked,
     Asked, ForLog
<1> QED
  BY <1>1, <1>2, <1>3 DEF MonitoringInit, IInv, SnapshotOK, ShownOK

\* One step for each action.
LEMMA MonitoringStep == IInv /\ [MonitoringNext]_monitoringVars => IInv'
<1> SUFFICES ASSUME IInv, [MonitoringNext]_monitoringVars PROVE IInv'
  OBVIOUS
<1>1. ASSUME NEW r \in Requests, Tick(r) \/ Click(r) PROVE IInv'
  <2>1. Refresh(r) /\ clicks' \in 0..MaxClicks
    BY <1>1 DEF Tick, Click, IInv, TypeOK
  <2> QED BY <2>1, RefreshKeeps
<1>2. ASSUME NEW r \in Requests, RequestStep(r) PROVE IInv'
  BY <1>2, LoadProfileKeeps, AskKeeps, LookKeeps, LandKeeps, AskLogKeeps, ReadLogKeeps,
     DeliverKeeps
     DEF RequestStep
<1>3. ASSUME NEW s \in Sessions, Expire(s) PROVE IInv'
  BY <1>3, ExpireKeeps
<1>4. ASSUME NEW m \in Machines, Change(m) \/ Switch(m) PROVE IInv'
  BY <1>4, ChangeKeeps, SwitchKeeps
<1>5. CASE UNCHANGED monitoringVars
  <2>1. /\ TypeOK' = TypeOK /\ ShownOK' = ShownOK
        /\ \A s \in Sessions : SnapshotOK(s)' = SnapshotOK(s)
    BY <1>5 DEF monitoringVars, TypeOK, FlightOK, ShownOK, SnapshotOK, Looked, Sessions,
       Versions, Views, SessionRecords
  <2>2. \A r \in Requests : /\ RequestOK(r)' = RequestOK(r) /\ ProbeOK(r)' = ProbeOK(r)
                            /\ FloorOK(r)' = FloorOK(r) /\ ResponseOK(r)' = ResponseOK(r)
    BY <1>5 DEF monitoringVars, RequestOK, ProbeOK, FloorOK, ResponseOK, Looked, Sessions,
       Versions
  <2> QED BY <1>5, <2>1, <2>2 DEF monitoringVars, IInv, Sessions
<1> QED
  BY <1>1, <1>2, <1>3, <1>4, <1>5 DEF MonitoringNext

\* An answer that may be shown is not older than what is shown of its session.
LEMMA DeliverImproves ==
    ASSUME IInv, NEW r \in Requests, Deliver(r),
           ~shown.stale, ~shown'.stale, shown'.session = shown.session
    PROVE  shown'.version >= shown.version
<1>1. shown' = IF r = latest THEN Result(r) ELSE shown
  BY DEF Deliver, MayShow
<1>2. shown.version \in Nat
  BY MonitoringFacts DEF IInv, ShownOK, Versions
<1>3. CASE shown' = shown
  BY <1>2, <1>3
<1>4. CASE r = latest /\ shown' = Result(r)
  <2>1. response[r] # Nothing /\ shown' = Response(r)
    BY <1>4 DEF Result, IInv
  <2>2. shown'.version = response[r] /\ using[r] = shown.session /\ pc[r] = "answered"
    BY <2>1 DEF Response, Deliver
  <2> QED BY <1>4, <2>1, <2>2 DEF IInv, ResponseOK
<1> QED BY <1>1, <1>3, <1>4

\* Only a delivery changes what is shown.
LEMMA StepImproves ==
    ASSUME IInv, [MonitoringNext]_monitoringVars, ~shown.stale, ~shown'.stale,
           shown'.session = shown.session
    PROVE  shown'.version >= shown.version
<1>1. ASSUME NEW r \in Requests, Deliver(r) PROVE shown'.version >= shown.version
  BY <1>1, DeliverImproves
<1>2. CASE shown' = shown
  BY <1>2, MonitoringFacts DEF IInv, ShownOK, Versions
<1>3. shown' = shown \/ \E r \in Requests : Deliver(r)
  BY DEF MonitoringNext, monitoringVars, Tick, Click, Refresh, RequestStep, LoadProfile,
         Ask, Look, Land, AskLog, ReadLog, Expire, Change, Switch
<1> QED BY <1>1, <1>2, <1>3

\* The inductive invariant: sessions, probes in flight, responses and what the
\* page shows fit together at every moment (getSession, createSnapshotCache).
THEOREM MonitoringHolds == MonitoringSpec => []IInv
<1> QED BY MonitoringStarts, MonitoringStep, PTL DEF MonitoringSpec

\* The variables of Monitoring keep their types, and a probe in flight belongs to
\* a request of its session (createSnapshotCache's inFlight).
THEOREM MonitoringTypes == MonitoringSpec => []TypeOK
<1>1. IInv => TypeOK
  BY DEF IInv
<1> QED BY <1>1, MonitoringHolds, PTL

\* A response was read on a machine that was active during the request, and is no
\* older than the request unless something fresh could answer it (getSession,
\* createSnapshotCache).
THEOREM ResponsesFit == MonitoringSpec => []ResponsesFitTheRequest
<1>1. IInv => ResponsesFitTheRequest
  BY DEF IInv, ResponsesFitTheRequest, RequestOK, FloorOK, Asked
<1> QED BY <1>1, MonitoringHolds, PTL

\* From one good response to the next the page shows nothing older of a session
\* (use-api-resource.ts refresh).
THEOREM OnlyImproves == MonitoringSpec => ShownOnlyImproves
<1>1. IInv /\ [MonitoringNext]_monitoringVars =>
        [~shown.stale /\ ~shown'.stale /\ shown'.session = shown.session
           => shown'.version >= shown.version]_monitoringVars
  BY StepImproves
<1> QED BY <1>1, MonitoringHolds, PTL DEF MonitoringSpec, ShownOnlyImproves

=============================================================================
